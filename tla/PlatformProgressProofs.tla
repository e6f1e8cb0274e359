----------------------- MODULE PlatformProgressProofs -----------------------
(***************************************************************************)
(* Proofs of what never happens in PlatformProgress: the Discord listener  *)
(* (DiscordListener), alerts (Alerts), the outbox (Outbox) and the daily   *)
(* contract check (Rollover), for any messages, alerts, mails, symbols and *)
(* bounds.  Each keeps an inductive invariant of its own.  What must       *)
(* happen in the end is left to TLC.                                       *)
(***************************************************************************)
EXTENDS PlatformProgress, SequenceTheorems, FiniteSetTheorems, WellFoundedInduction, TLAPS

-----------------------------------------------------------------------------
(* DiscordListener: what was handed on is marked as handled, or was        *)
(* forgotten since.                                                        *)

Event == [n : Int, msg : Message, content : Discord!Content]
Signal == [n : Int, msg : Message, content : Discord!Content, life : Nat]

\* A signal of an embed's present life is marked, and the only one.
Marked ==
    \A e \in ready \cup accepted :
        /\ e.life <= lives[Discord!EmbedOf(e)]
        /\ e.life = lives[Discord!EmbedOf(e)] => Discord!EmbedOf(e) \in recent

DiscordInv ==
    /\ on \in BOOLEAN /\ token \in {0} \cup Discord!Token
    /\ supervisor \in {"check", "run", "backoff"}
    /\ client \in {0} \cup Discord!Token
    /\ (client # 0 <=> supervisor = "run")
    /\ closing \in BOOLEAN /\ (closing => client # 0)
    /\ events \in Int
    /\ heard \in {0} \cup Discord!Token
    /\ dInbox \subseteq Event /\ ready \subseteq Signal /\ accepted \subseteq Signal
    /\ recent \subseteq Discord!Embed /\ lives \in [Discord!Embed -> Nat]
    /\ Marked /\ Discord!OncePerContent

LEMMA DiscordInit == ASSUME Discord!Init PROVE DiscordInv
<1>1. /\ supervisor = "check" /\ client = 0 /\ closing = FALSE
      /\ dInbox = {} /\ events = 0 /\ recent = {} /\ ready = {} /\ accepted = {}
      /\ lives = [x \in Discord!Embed |-> 0] /\ heard = Discord!Login(on, token)
  BY DEF Discord!Init
<1>2. on \in BOOLEAN /\ token \in {0} \cup Discord!Token
  BY DEF Discord!Init
<1>3. /\ client \in {0} \cup Discord!Token /\ events \in Int
      /\ supervisor \in {"check", "run", "backoff"} /\ closing \in BOOLEAN
  <2>1. client \in {0} \cup Discord!Token
    BY <1>1
  <2>2. events \in Int
    BY <1>1
  <2>3. supervisor \in {"check", "run", "backoff"}
    BY <1>1
  <2>4. closing \in BOOLEAN
    BY <1>1
  <2> QED BY <2>1, <2>2, <2>3, <2>4
<1>4. (client # 0 <=> supervisor = "run") /\ (closing => client # 0)
  BY <1>1
<1>5. /\ dInbox \subseteq Event /\ ready \subseteq Signal /\ accepted \subseteq Signal
      /\ recent \subseteq Discord!Embed /\ lives \in [Discord!Embed -> Nat]
  BY <1>1
<1>6. Marked /\ Discord!OncePerContent
  BY <1>1 DEF Marked, Discord!OncePerContent
<1>7. heard \in {0} \cup Discord!Token
  BY <1>1, <1>2 DEF Discord!Login
<1> QED BY <1>2, <1>3, <1>4, <1>5, <1>6, <1>7 DEF DiscordInv

\* The listener moves, and no event with it.
LEMMA DiscordSame ==
    ASSUME DiscordInv, UNCHANGED <<events, dInbox, recent, ready, accepted, lives>>,
           on' \in BOOLEAN, token' \in {0} \cup Discord!Token, heard' \in {0} \cup Discord!Token,
           supervisor' \in {"check", "run", "backoff"}, client' \in {0} \cup Discord!Token,
           client' # 0 <=> supervisor' = "run",
           closing' \in BOOLEAN, closing' => client' # 0
    PROVE  DiscordInv'
BY DEF DiscordInv, Marked, Discord!OncePerContent, Discord!EmbedOf

LEMMA DiscordStutter == ASSUME DiscordInv, UNCHANGED DiscordVars PROVE DiscordInv'
BY DEF DiscordInv, DiscordVars, Marked, Discord!OncePerContent, Discord!EmbedOf

\* What a listener hears is a login or none.
LEMMA LoginIs ==
    ASSUME NEW enabled \in BOOLEAN, NEW login \in {0} \cup Discord!Token
    PROVE  Discord!Login(enabled, login) \in {0} \cup Discord!Token
BY DEF Discord!Login

LEMMA HandleKeeps == ASSUME DiscordInv, NEW e \in dInbox, Discord!Handle(e) PROVE DiscordInv'
<1>1. /\ dInbox' = dInbox \ {e} /\ ready' = ready \cup Discord!Signals(e)
      /\ recent' = IF watched THEN recent \cup {Discord!EmbedOf(e)} ELSE recent
      /\ UNCHANGED <<on, token, heard, supervisor, client, closing, events, accepted, lives>>
  BY DEF Discord!Handle, Discord!settings
<1> DEFINE x == Discord!EmbedOf(e)
           s == [n |-> e.n, msg |-> e.msg, content |-> e.content, life |-> lives[x]]
<1>2. e \in Event /\ x \in Discord!Embed /\ lives[x] \in Nat
  BY DEF DiscordInv, Event, Discord!EmbedOf, Discord!Embed
<1>3. Discord!Signals(e) \subseteq {s}
  BY DEF Discord!Signals
<1>4. Discord!Signals(e) # {} => watched /\ x \notin recent
  BY DEF Discord!Signals, Discord!New, Discord!Duplicate
<1>5. s \in Signal /\ Discord!EmbedOf(s) = x /\ s.life = lives[x]
  BY <1>2 DEF Event, Signal, Discord!EmbedOf
<1> HIDE DEF s, x
<1>6. Marked'
  <2> SUFFICES ASSUME NEW f \in ready' \cup accepted'
               PROVE  /\ f.life <= lives'[Discord!EmbedOf(f)]
                      /\ f.life = lives'[Discord!EmbedOf(f)] => Discord!EmbedOf(f) \in recent'
    BY DEF Marked, Discord!EmbedOf
  <2>1. CASE f \in ready \cup accepted
    BY <1>1, <2>1 DEF DiscordInv, Marked
  <2>2. CASE f \notin ready \cup accepted
    <3>1. f = s /\ Discord!Signals(e) # {}
      BY <1>1, <1>3, <2>2
    <3>2. recent' = recent \cup {x}
      BY <1>1, <1>4, <3>1 DEF x
    <3> QED BY <1>1, <1>2, <1>5, <3>1, <3>2
  <2> QED BY <2>1, <2>2
<1>7. Discord!OncePerContent'
  <2> SUFFICES ASSUME NEW f \in accepted' \cup ready', NEW g \in accepted' \cup ready',
                      Discord!EmbedOf(f) = Discord!EmbedOf(g), f.life = g.life
               PROVE  f = g
    BY DEF Discord!OncePerContent, Discord!EmbedOf
  <2>1. ASSUME NEW h \in accepted \cup ready, Discord!EmbedOf(h) = x, h.life = lives[x],
               Discord!Signals(e) # {}
        PROVE  FALSE
    BY <1>4, <2>1 DEF DiscordInv, Marked
  <2>2. \A h \in accepted' \cup ready' :
           h \in accepted \cup ready \/ (h = s /\ Discord!Signals(e) # {})
    BY <1>1, <1>3
  <2> QED BY <1>5, <2>1, <2>2 DEF DiscordInv, Discord!OncePerContent
<1>8. /\ dInbox' \subseteq Event /\ ready' \subseteq Signal /\ accepted' \subseteq Signal
      /\ recent' \subseteq Discord!Embed /\ lives' \in [Discord!Embed -> Nat]
  BY <1>1, <1>2, <1>3, <1>5 DEF DiscordInv, x
<1> QED BY <1>1, <1>6, <1>7, <1>8 DEF DiscordInv

\* An embed that is forgotten begins another life.
LEMMA ForgetKeeps ==
    ASSUME DiscordInv, NEW gone \in SUBSET Discord!Embed,
           lives' = [x \in Discord!Embed |-> IF x \in gone THEN lives[x] + 1 ELSE lives[x]],
           recent' = recent \ gone, ready' \subseteq ready, UNCHANGED accepted
    PROVE  /\ ready' \subseteq Signal /\ accepted' \subseteq Signal
           /\ recent' \subseteq Discord!Embed /\ lives' \in [Discord!Embed -> Nat]
           /\ Marked' /\ Discord!OncePerContent'
<1>1. /\ ready' \subseteq Signal /\ accepted' \subseteq Signal /\ recent' \subseteq Discord!Embed
      /\ lives' \in [Discord!Embed -> Nat]
  BY DEF DiscordInv
<1>2. Discord!OncePerContent'
  BY DEF DiscordInv, Discord!OncePerContent, Discord!EmbedOf
<1>3. Marked'
  <2> SUFFICES ASSUME NEW f \in ready' \cup accepted'
               PROVE  /\ f.life <= lives'[Discord!EmbedOf(f)]
                      /\ f.life = lives'[Discord!EmbedOf(f)] => Discord!EmbedOf(f) \in recent'
    BY DEF Marked, Discord!EmbedOf
  <2> DEFINE x == Discord!EmbedOf(f)
  <2>1. f \in ready \cup accepted /\ f \in Signal
    BY DEF DiscordInv
  <2>2. x \in Discord!Embed /\ f.life \in Nat
    BY <2>1 DEF Signal, Discord!EmbedOf, Discord!Embed
  <2>3. lives[x] \in Nat /\ f.life <= lives[x] /\ (f.life = lives[x] => x \in recent)
    BY <2>1, <2>2 DEF DiscordInv, Marked
  <2>4. lives'[x] = IF x \in gone THEN lives[x] + 1 ELSE lives[x]
    BY <2>2
  <2> HIDE DEF x
  <2>5. f.life <= lives'[x] /\ (f.life = lives'[x] => x \in recent')
    BY <2>2, <2>3, <2>4
  <2> QED BY <2>5 DEF x
<1> QED BY <1>1, <1>2, <1>3

LEMMA DiscordStep == ASSUME DiscordInv, Discord!Next PROVE DiscordInv'
<1>1. ASSUME NEW enabled \in BOOLEAN, NEW login \in {0} \cup Discord!Token,
             Discord!Save(enabled, login) \/ Discord!RestoreSettings(enabled, login)
      PROVE  DiscordInv'
  <2>1. /\ on' = enabled /\ token' = login /\ closing' \in {closing, Discord!ApplyConfig(enabled, login)}
        /\ heard' \in {heard, Discord!Login(enabled, login)}
        /\ UNCHANGED <<supervisor, client, events, dInbox, recent, ready, accepted, lives>>
    BY <1>1 DEF Discord!Save, Discord!RestoreSettings, Discord!gateway, Discord!handled
  <2>2. closing' \in BOOLEAN /\ (closing' => client # 0)
    BY <2>1 DEF Discord!ApplyConfig, DiscordInv
  <2>3. heard' \in {0} \cup Discord!Token
    BY <2>1, LoginIs DEF DiscordInv
  <2> QED BY <1>1, <2>1, <2>2, <2>3, DiscordSame DEF DiscordInv
<1>2. CASE Discord!Edit \/ Discord!SetFeature
  <2>1. UNCHANGED <<on, token, heard, closing, supervisor, client, events, dInbox, recent, ready,
        accepted, lives>>
    BY <1>2 DEF Discord!Edit, Discord!SetFeature, Discord!gateway, Discord!handled
  <2> QED BY <2>1, DiscordSame DEF DiscordInv
<1>3. CASE Discord!Check
  <2>1. /\ supervisor = "check" /\ supervisor' = "run" /\ client' = token /\ token # 0
        /\ UNCHANGED <<on, token, heard, closing, events, dInbox, recent, ready, accepted, lives>>
    BY <1>3 DEF Discord!Check, Discord!Wanted, Discord!settings, Discord!gateway, Discord!handled
  <2> QED BY <2>1, DiscordSame DEF DiscordInv
<1>4. CASE Discord!ClientEnds
  <2>1. /\ client' = 0 /\ closing' = FALSE /\ supervisor' = "backoff"
        /\ heard' = Discord!Login(on, token)
        /\ UNCHANGED <<on, token, events, dInbox, recent, ready, accepted, lives>>
    BY <1>4 DEF Discord!ClientEnds, Discord!gateway, Discord!handled
  <2>2. heard' \in {0} \cup Discord!Token
    BY <2>1, LoginIs DEF DiscordInv
  <2> QED BY <2>1, <2>2, DiscordSame DEF DiscordInv
<1>5. CASE Discord!BackedOff
  <2>1. /\ supervisor = "backoff" /\ supervisor' = "check"
        /\ UNCHANGED <<on, token, heard, client, closing, events, dInbox, recent, ready, accepted, lives>>
    BY <1>5 DEF Discord!BackedOff, Discord!settings, Discord!gateway, Discord!handled
  <2> QED BY <2>1, DiscordSame DEF DiscordInv
<1>6. ASSUME NEW m \in Message, NEW c \in Discord!Content, Discord!Publish(m, c) PROVE DiscordInv'
  <2>1. /\ events' = events + 1
        /\ dInbox' = dInbox \/ dInbox' = dInbox \cup {[n |-> events', msg |-> m, content |-> c]}
        /\ UNCHANGED <<on, token, heard, supervisor, client, closing, recent, ready, accepted, lives>>
    BY <1>6 DEF Discord!Publish, Discord!settings, Discord!handled
  <2>2. [n |-> events', msg |-> m, content |-> c] \in Event
    BY <2>1 DEF Event, DiscordInv
  <2>3. dInbox' \subseteq Event
    BY <2>1, <2>2 DEF DiscordInv
  <2> QED BY <2>1, <2>3 DEF DiscordInv, Marked, Discord!OncePerContent, Discord!EmbedOf
<1>7. ASSUME NEW e \in ready, Discord!Dispatch(e) PROVE DiscordInv'
  <2>1. /\ ready' = ready \ {e} /\ accepted \subseteq accepted' /\ accepted' \subseteq accepted \cup {e}
        /\ UNCHANGED <<on, token, heard, supervisor, client, closing, events, dInbox, recent, lives>>
    BY <1>7 DEF Discord!Dispatch, Discord!settings, Discord!gateway
  <2>2. ready' \cup accepted' \subseteq ready \cup accepted
    BY <1>7, <2>1
  <2>3. Marked' /\ Discord!OncePerContent'
    BY <2>1, <2>2 DEF DiscordInv, Marked, Discord!OncePerContent, Discord!EmbedOf
  <2> QED BY <1>7, <2>1, <2>3 DEF DiscordInv
<1>8. CASE Discord!Restart
  <2>1. /\ supervisor' = "check" /\ client' = 0 /\ closing' = FALSE
        /\ dInbox' = {} /\ ready' = {} /\ recent' = {} /\ heard' = Discord!Login(on, token)
        /\ lives' = [x \in Discord!Embed |-> lives[x] + 1] /\ UNCHANGED <<on, token, events, accepted>>
    BY <1>8 DEF Discord!Restart
  <2>2. /\ lives' = [x \in Discord!Embed |-> IF x \in Discord!Embed THEN lives[x] + 1 ELSE lives[x]]
        /\ recent' = recent \ Discord!Embed /\ Discord!Embed \in SUBSET Discord!Embed
    BY <2>1 DEF DiscordInv
  <2>3. /\ ready' \subseteq Signal /\ accepted' \subseteq Signal
        /\ recent' \subseteq Discord!Embed /\ lives' \in [Discord!Embed -> Nat]
        /\ Marked' /\ Discord!OncePerContent'
    BY <2>1, <2>2, ForgetKeeps
  <2>4. heard' \in {0} \cup Discord!Token
    BY <2>1, LoginIs DEF DiscordInv
  <2> QED BY <2>1, <2>3, <2>4 DEF DiscordInv
<1>9. ASSUME NEW x \in recent, Discord!Forget(x) PROVE DiscordInv'
  <2>1. /\ recent' = recent \ {x} /\ lives' = [lives EXCEPT ![x] = @ + 1]
        /\ UNCHANGED <<on, token, heard, supervisor, client, closing, events, dInbox, ready, accepted>>
    BY <1>9 DEF Discord!Forget, Discord!settings, Discord!gateway
  <2>2. /\ {x} \in SUBSET Discord!Embed
        /\ lives' = [y \in Discord!Embed |-> IF y \in {x} THEN lives[y] + 1 ELSE lives[y]]
    BY <1>9, <2>1 DEF DiscordInv
  <2>3. /\ ready' \subseteq Signal /\ accepted' \subseteq Signal
        /\ recent' \subseteq Discord!Embed /\ lives' \in [Discord!Embed -> Nat]
        /\ Marked' /\ Discord!OncePerContent'
    BY <2>1, <2>2, ForgetKeeps
  <2> QED BY <2>1, <2>3 DEF DiscordInv
<1> QED BY <1>1, <1>2, <1>3, <1>4, <1>5, <1>6, <1>7, <1>8, <1>9, HandleKeeps
        DEF Discord!Next, Discord!Supervise

LEMMA DiscordSafe == ASSUME DiscordInv PROVE Discord!TypeOK /\ Discord!OncePerContent
BY DEF DiscordInv, Event, Signal, Discord!TypeOK

-----------------------------------------------------------------------------
(* Rollover: the map is the user's, and checks know stages and days.       *)

Warnings == [Roll!Contract -> {"upcoming", "expired", "none"}]
CheckOf == [step : {"idle", "dates", "alerted"}, map : [Symbol -> Roll!Contract],
            notified : Warnings, warnings : Warnings, today : 0 .. MaxDay]

RollInv ==
    /\ rMap \in [Symbol -> Roll!Contract] /\ wanted = rMap
    /\ notified \in Warnings /\ banner \in Warnings
    /\ lastRun \in -1 .. MaxDay /\ day \in 0 .. MaxDay
    /\ check \in [Roll!Checker -> CheckOf]

LEMMA RollIdleIs == Roll!Idle \in CheckOf /\ Roll!NoWarnings \in Warnings
<1>1. 1 \in Roll!Contract /\ 0 \in 0 .. MaxDay
  BY RollAssumption DEF Roll!Contract
<1>2. Roll!NoWarnings \in Warnings
  BY DEF Roll!NoWarnings, Roll!NoStage, Warnings
<1> QED BY <1>1, <1>2 DEF Roll!Idle, CheckOf

LEMMA RollInit == ASSUME Roll!Init PROVE RollInv
<1>1. {1, 2} \subseteq Roll!Contract /\ MaxDay \in Nat
  BY RollAssumption DEF Roll!Contract
<1>2. rMap \in [Symbol -> Roll!Contract] /\ wanted = rMap
  BY <1>1 DEF Roll!Init
<1> QED BY <1>1, <1>2, RollIdleIs DEF Roll!Init, RollInv

LEMMA RollStutter == ASSUME RollInv, UNCHANGED RollVars PROVE RollInv'
BY DEF RollInv, RollVars

\* A check that begins knows the map and the notes of its moment.
LEMMA BeginsChecks ==
    ASSUME RollInv, NEW k \in Roll!Checker, NEW m \in [Symbol -> Roll!Contract], NEW w \in Warnings,
           Roll!Begins(k, m, w)
    PROVE  check' \in [Roll!Checker -> CheckOf]
<1>1. [step |-> "dates", map |-> m, notified |-> w, warnings |-> Roll!NoWarnings, today |-> day] \in CheckOf
  BY RollIdleIs DEF CheckOf, RollInv
<1> QED BY <1>1 DEF Roll!Begins, RollInv

LEMMA RollStep == ASSUME RollInv, Roll!Next PROVE RollInv'
<1>1. CASE Roll!LoopBegins \/ Roll!ButtonBegins
  <2>1. \E k \in Roll!Checker : Roll!Begins(k, rMap, notified)
    BY <1>1 DEF Roll!LoopBegins, Roll!ButtonBegins, Roll!Checker
  <2>2. check' \in [Roll!Checker -> CheckOf]
    BY <2>1, BeginsChecks DEF RollInv
  <2>3. UNCHANGED <<rMap, wanted, notified, banner, lastRun, day>>
    BY <1>1 DEF Roll!LoopBegins, Roll!ButtonBegins
  <2> QED BY <2>2, <2>3 DEF RollInv
<1>2. CASE Roll!NextDay
  <2>1. day' = day + 1 /\ day < MaxDay /\ UNCHANGED <<rMap, wanted, notified, banner, lastRun, check>>
    BY <1>2 DEF Roll!NextDay
  <2> QED BY <2>1, RollAssumption DEF RollInv
<1>3. CASE Roll!Restart
  <2>1. /\ lastRun' = -1 /\ banner' = Roll!NoWarnings /\ check' = [k \in Roll!Checker |-> Roll!Idle]
        /\ UNCHANGED <<rMap, wanted, notified, day>>
    BY <1>3 DEF Roll!Restart
  <2> QED BY <2>1, RollIdleIs, RollAssumption DEF RollInv
<1>4. ASSUME NEW k \in Roll!Checker, Roll!Alerts(k) PROVE RollInv'
  <2>1. PICK exact \in BOOLEAN :
          /\ banner' = Roll!Evaluate(check[k].map, check[k].today, exact)
          /\ check' = [check EXCEPT ![k].step = "alerted",
                                    ![k].warnings = Roll!Evaluate(check[k].map, check[k].today, exact)]
          /\ UNCHANGED <<rMap, wanted, notified, lastRun, day>>
    BY <1>4 DEF Roll!Alerts
  <2> DEFINE w == Roll!Evaluate(check[k].map, check[k].today, exact)
  <2>2. w \in Warnings
    BY DEF Roll!Evaluate, Roll!NoStage, Warnings
  <2> HIDE DEF w
  <2>3. [check[k] EXCEPT !.step = "alerted", !.warnings = w] \in CheckOf
    BY <2>2 DEF CheckOf, RollInv
  <2>4. check' = [check EXCEPT ![k] = [check[k] EXCEPT !.step = "alerted", !.warnings = w]]
    BY <2>1 DEF RollInv, w
  <2>5. check' \in [Roll!Checker -> CheckOf]
    BY <2>3, <2>4 DEF RollInv
  <2> QED BY <2>1, <2>2, <2>5 DEF RollInv, w
<1>5. ASSUME NEW k \in Roll!Checker, Roll!Finishes(k) PROVE RollInv'
  <2>1. check' = [check EXCEPT ![k] = Roll!Idle] /\ UNCHANGED <<wanted, banner, day>>
    BY <1>5 DEF Roll!Finishes
  <2>2. rMap' = rMap
    BY <1>5 DEF Roll!Finishes, Roll!Saved
  <2>3. notified' \in {notified, check[k].warnings} /\ lastRun' \in {lastRun, check[k].today}
    BY <1>5 DEF Roll!Finishes
  <2>4. check[k] \in CheckOf /\ notified' \in Warnings /\ lastRun' \in -1 .. MaxDay
    BY <2>3, RollAssumption DEF RollInv, CheckOf
  <2>5. check' \in [Roll!Checker -> CheckOf]
    BY <2>1, RollIdleIs DEF RollInv
  <2> QED BY <2>1, <2>2, <2>4, <2>5 DEF RollInv
<1>6. ASSUME NEW s \in Symbol, Roll!Apply(s) PROVE RollInv'
  <2>1. /\ rMap[s] < MaxContract /\ rMap' = [rMap EXCEPT ![s] = rMap[s] + 1]
        /\ wanted' = [wanted EXCEPT ![s] = rMap[s] + 1]
        /\ notified' = [notified EXCEPT ![rMap[s]] = "none"]
        /\ Roll!Begins("button", rMap', notified')
        /\ UNCHANGED <<banner, lastRun, day>>
    BY <1>6 DEF Roll!Apply, Roll!Maps, Roll!NoStage
  <2>2. rMap[s] + 1 \in Roll!Contract
    <3>1. rMap[s] \in Roll!Contract
      BY DEF RollInv
    <3>2. MaxContract \in Nat
      BY RollAssumption
    <3> QED BY <2>1, <3>1, <3>2 DEF Roll!Contract
  <2>3. rMap' \in [Symbol -> Roll!Contract] /\ wanted' = rMap' /\ notified' \in Warnings
    BY <2>1, <2>2 DEF RollInv, Warnings
  <2>4. check' \in [Roll!Checker -> CheckOf]
    BY <2>1, <2>3, BeginsChecks DEF Roll!Checker
  <2> QED BY <2>1, <2>3, <2>4 DEF RollInv
<1>7. ASSUME NEW s \in Symbol, Roll!EditMap(s) PROVE RollInv'
  <2>1. PICK c \in Roll!Contract : rMap' = [rMap EXCEPT ![s] = c] /\ wanted' = [wanted EXCEPT ![s] = c]
    BY <1>7 DEF Roll!EditMap, Roll!Maps
  <2>2. UNCHANGED <<notified, banner, lastRun, check, day>>
    BY <1>7 DEF Roll!EditMap
  <2> QED BY <2>1, <2>2 DEF RollInv
<1> QED BY <1>1, <1>2, <1>3, <1>4, <1>5, <1>6, <1>7 DEF Roll!Next

LEMMA RollSafe == ASSUME RollInv PROVE Roll!TypeOK /\ Roll!MapIsUsers
BY DEF RollInv, Warnings, CheckOf, Roll!TypeOK, Roll!MapIsUsers, Roll!Stages, Roll!NoStage

-----------------------------------------------------------------------------
(* Outbox: how often a row was tried, with the try a request has under way,*)
(* stays within what its listing and the retries allow.                    *)

Tried(m) == attempts[m] + (IF m \in button THEN 1 ELSE 0)
Limit == MaxAttempts + 1 + 2 * retries

MailTypes ==
    /\ status \in [Mail -> {"new", "pending", "sent", "failed"}]
    /\ attempts \in [Mail -> Nat] /\ due \in [Mail -> BOOLEAN]
    /\ file \in {"none", "kept", "deleted"}
    /\ worker \in BOOLEAN /\ (worker <=> listed # <<>>)
    /\ listed \in Seq(Mail \X Nat)
    /\ button \subseteq Mail /\ (\A m, n \in button : m = n)
    /\ retries \in 0 .. MaxRetries

\* A row is listed once.
ListedOnce == \A i, j \in DOMAIN listed : listed[i][1] = listed[j][1] => i = j

RowsFit ==
    \A m \in Mail :
        /\ status[m] = "new" => attempts[m] = 0 /\ m \notin button
        /\ Tried(m) <= Limit
        /\ status[m] = "pending" => Tried(m) + 1 <= Limit

\* A listed row was tried at most once more than when it was listed.
ListedFit ==
    \A i \in DOMAIN listed : \A m \in Mail :
        listed[i][1] = m =>
            /\ status[m] \in {"pending", "sent"}
            /\ Tried(m) <= listed[i][2] + 1
            /\ Tried(m) + 1 <= Limit

MailInv == MailTypes /\ ListedOnce /\ RowsFit /\ ListedFit /\ Mailer!WaitingHasFile

\* What the constants give.
LEMMA MailNumbers ==
    /\ MaxAttempts \in Nat /\ MaxAttempts > 0 /\ MaxRetries \in Nat
    /\ Attached \subseteq Mail /\ IsFiniteSet(Mail)
BY MailerAssumption DEF Mailer!OutboxAssumption

LEMMA TriedIs ==
    ASSUME NEW m, MailTypes, m \in Mail
    PROVE  /\ Tried(m) \in Nat /\ Limit \in Nat
           /\ m \in button => Tried(m) = attempts[m] + 1
           /\ m \notin button => Tried(m) = attempts[m]
BY MailNumbers DEF Tried, Limit, MailTypes

LEMMA ListedIs ==
    ASSUME MailTypes, NEW i \in DOMAIN listed
    PROVE  listed[i] \in Mail \X Nat /\ listed[i][1] \in Mail /\ listed[i][2] \in Nat
BY DEF MailTypes

LEMMA MailInit == ASSUME Mailer!Init PROVE MailInv
<1>1. /\ status = [m \in Mail |-> "new"] /\ attempts = [m \in Mail |-> 0]
      /\ due = [m \in Mail |-> FALSE] /\ file = "none" /\ worker = FALSE
      /\ listed = <<>> /\ button = {} /\ retries = 0
  BY DEF Mailer!Init
<1>2. MailTypes
  <2>1. status \in [Mail -> {"new", "pending", "sent", "failed"}] /\ attempts \in [Mail -> Nat]
        /\ due \in [Mail -> BOOLEAN]
    BY <1>1
  <2>2. listed \in Seq(Mail \X Nat) /\ button \subseteq Mail /\ \A m, n \in button : m = n
    BY <1>1
  <2>3. worker \in BOOLEAN /\ (worker <=> listed # <<>>)
    BY <1>1
  <2>4. file \in {"none", "kept", "deleted"}
    BY <1>1
  <2>5. retries \in 0 .. MaxRetries
    BY <1>1, MailNumbers
  <2> QED BY <2>1, <2>2, <2>3, <2>4, <2>5 DEF MailTypes
<1>3. \A m \in Mail : status[m] = "new" /\ attempts[m] = 0 /\ m \notin button
  BY <1>1
<1>4. RowsFit
  BY <1>1, <1>3, MailNumbers DEF RowsFit, Tried, Limit
<1>5. DOMAIN listed = {}
  BY <1>1
<1>6. Mailer!WaitingHasFile
  BY <1>3, MailNumbers DEF Mailer!WaitingHasFile
<1> QED BY <1>2, <1>4, <1>5, <1>6 DEF MailInv, ListedOnce, ListedFit

LEMMA MailStutter == ASSUME MailInv, UNCHANGED MailerVars PROVE MailInv'
BY DEF MailInv, MailerVars, MailTypes, ListedOnce, RowsFit, ListedFit, Tried, Limit,
       Mailer!WaitingHasFile

\* A row whose status and tries stay keeps what it fits.
LEMMA RowStays ==
    ASSUME MailInv, MailTypes', NEW m \in Mail, retries' = retries,
           status'[m] = status[m], attempts'[m] = attempts[m], m \in button' <=> m \in button
    PROVE  /\ status'[m] = "new" => attempts'[m] = 0 /\ m \notin button'
           /\ Tried(m)' <= Limit'
           /\ status'[m] = "pending" => Tried(m)' + 1 <= Limit'
BY DEF MailInv, RowsFit, Tried, Limit

LEMMA EnqueueKeeps ==
    ASSUME MailInv, NEW ms \in SUBSET Mail, Mailer!Enqueue(ms), ms \cap Attached = {} \/ ms = Attached
    PROVE  MailInv'
<1>1. /\ \A m \in ms : status[m] = "new"
      /\ status' = [m \in Mail |-> IF m \in ms THEN "pending" ELSE status[m]]
      /\ due' = [m \in Mail |-> m \in ms \/ due[m]]
      /\ file' = IF ms \cap Attached # {} THEN "kept" ELSE file
      /\ UNCHANGED <<attempts, listed, worker, button, retries>>
  BY DEF Mailer!Enqueue, Mailer!pass
<1>2. MailTypes'
  <2>1. status' \in [Mail -> {"new", "pending", "sent", "failed"}]
    BY <1>1 DEF MailInv, MailTypes
  <2>2. due' \in [Mail -> BOOLEAN]
    BY <1>1
  <2> QED BY <1>1, <2>1, <2>2 DEF MailInv, MailTypes
<1>3. RowsFit'
  <2>1. ASSUME NEW m \in ms PROVE attempts[m] = 0 /\ m \notin button /\ Tried(m)' = 0 /\ Limit' >= 1
                                  /\ status'[m] = "pending"
    BY <1>1, MailNumbers DEF MailInv, MailTypes, RowsFit, Tried, Limit
  <2>2. ASSUME NEW m \in Mail \ ms PROVE status'[m] = status[m]
    BY <1>1
  <2>3. Limit' = Limit /\ Limit \in Nat /\ \A m \in Mail : Tried(m)' = Tried(m)
    BY <1>1, MailNumbers DEF MailInv, MailTypes, Tried, Limit
  <2> QED BY <1>1, <2>1, <2>2, <2>3 DEF MailInv, RowsFit
<1>4. ListedFit' /\ ListedOnce'
  <2>1. ASSUME NEW i \in DOMAIN listed, NEW m \in Mail, listed[i][1] = m PROVE status'[m] = status[m]
    BY <1>1, <2>1 DEF MailInv, ListedFit
  <2> QED BY <1>1, <2>1 DEF MailInv, ListedFit, ListedOnce, Tried, Limit
<1>5. Mailer!WaitingHasFile'
  <2>1. CASE ms \cap Attached = {}
    <3>1. file' = file /\ \A m \in Attached : status'[m] = status[m]
      BY <1>1, <2>1, MailNumbers
    <3> QED BY <1>1, <3>1 DEF MailInv, Mailer!WaitingHasFile
  <2>2. CASE ms \cap Attached # {}
    BY <1>1, <2>2 DEF Mailer!WaitingHasFile
  <2> QED BY <2>1, <2>2
<1> QED BY <1>2, <1>3, <1>4, <1>5 DEF MailInv

\* The instance counts as the library does.
LEMMA MailCount == ASSUME NEW S PROVE Mailer!Cardinality(S) = Cardinality(S)
BY Zenon DEF Cardinality, Mailer!Cardinality

\* A finite set as a sequence has its elements, each once.
LEMMA MailSequence ==
    ASSUME NEW S, IsFiniteSet(S)
    PROVE  /\ Mailer!SetToSeq(S) \in Seq(S)
           /\ \A i, j \in DOMAIN Mailer!SetToSeq(S) :
                Mailer!SetToSeq(S)[i] = Mailer!SetToSeq(S)[j] => i = j
           /\ S # {} => Mailer!SetToSeq(S) # <<>>
<1>1. Cardinality(S) \in Nat /\ ExistsBijection(1 .. Cardinality(S), S)
      /\ (S # {} => Cardinality(S) # 0)
  BY FS_CardinalityType, FS_EmptySet
<1>2. PICK g \in [1 .. Cardinality(S) -> S] :
        \A a, b \in 1 .. Cardinality(S) : g[a] = g[b] => a = b
  BY <1>1 DEF ExistsBijection, Bijection, Injection, IsInjective
<1>3. Mailer!IsInjective(g)
  BY <1>2 DEF Mailer!IsInjective
<1>4. /\ Mailer!SetToSeq(S) \in [1 .. Cardinality(S) -> S]
      /\ Mailer!IsInjective(Mailer!SetToSeq(S))
  <2>1. \E f \in [1 .. Mailer!Cardinality(S) -> S] : Mailer!IsInjective(f)
    BY <1>2, <1>3, MailCount
  <2>2. /\ Mailer!SetToSeq(S) \in [1 .. Mailer!Cardinality(S) -> S]
        /\ Mailer!IsInjective(Mailer!SetToSeq(S))
    BY <2>1 DEF Mailer!SetToSeq
  <2> QED BY <2>2, MailCount
<1>5. \A i, j \in DOMAIN Mailer!SetToSeq(S) :
         Mailer!SetToSeq(S)[i] = Mailer!SetToSeq(S)[j] => i = j
  BY <1>4 DEF Mailer!IsInjective
<1> QED BY <1>1, <1>4, <1>5

LEMMA PassKeeps == ASSUME MailInv, Mailer!PassBegins PROVE MailInv'
<1> DEFINE S == {<<m, attempts[m]>> : m \in Mailer!Due}
<1>1. /\ Mailer!Due # {} /\ listed' = Mailer!SetToSeq(S) /\ worker' = TRUE
      /\ UNCHANGED <<status, attempts, due, file, button, retries>>
  BY DEF Mailer!PassBegins, Mailer!row
<1>2. /\ Mailer!Due \subseteq Mail /\ IsFiniteSet(Mailer!Due)
      /\ \A m \in Mailer!Due : status[m] = "pending"
  BY MailNumbers, FS_Subset DEF Mailer!Due
<1>3. IsFiniteSet(S)
  <2> DEFINE f == [m \in Mailer!Due |-> <<m, attempts[m]>>]
  <2>1. f \in Surjection(Mailer!Due, S)
    BY DEF Surjection
  <2> QED BY <1>2, <2>1, FS_Surjection
<1>4. S # {} /\ S \subseteq Mail \X Nat
  <2>1. ASSUME NEW m \in Mailer!Due PROVE m \in Mail /\ attempts[m] \in Nat
    BY <1>2 DEF MailInv, MailTypes
  <2>2. S # {}
    BY <1>1
  <2> QED BY <2>1, <2>2
<1>5. /\ listed' \in Seq(S) /\ listed' # <<>>
      /\ \A i, j \in DOMAIN listed' : listed'[i] = listed'[j] => i = j
  BY <1>1, <1>3, <1>4, MailSequence
<1>6. ASSUME NEW i \in DOMAIN listed'
      PROVE  /\ listed'[i][1] \in Mailer!Due
             /\ listed'[i] = <<listed'[i][1], attempts[listed'[i][1]]>>
  <2>1. listed'[i] \in S
    BY <1>5
  <2> QED BY <2>1
<1> HIDE DEF S
<1>7. ListedOnce'
  BY <1>5, <1>6 DEF ListedOnce
<1>8. MailTypes'
  <2>1. listed' \in Seq(Mail \X Nat)
    BY <1>4, <1>5
  <2> QED BY <1>1, <1>5, <2>1 DEF MailInv, MailTypes
<1>9. RowsFit' /\ Mailer!WaitingHasFile'
  BY <1>1 DEF MailInv, RowsFit, Tried, Limit, Mailer!WaitingHasFile
<1>10. ListedFit'
  <2> SUFFICES ASSUME NEW i \in DOMAIN listed', NEW m \in Mail, listed'[i][1] = m
               PROVE  /\ status'[m] \in {"pending", "sent"}
                      /\ Tried(m)' <= listed'[i][2] + 1
                      /\ Tried(m)' + 1 <= Limit'
    BY DEF ListedFit
  <2>1. m \in Mail /\ status[m] = "pending" /\ listed'[i][2] = attempts[m]
    BY <1>2, <1>6
  <2>2. Tried(m)' = Tried(m) /\ Limit' = Limit /\ status' = status
    BY <1>1 DEF Tried, Limit
  <2>3. Tried(m) + 1 <= Limit
    BY <2>1 DEF MailInv, RowsFit
  <2>4. attempts[m] \in Nat /\ Tried(m) <= attempts[m] + 1
    BY <2>1 DEF Tried, MailInv, MailTypes
  <2> QED BY <2>1, <2>2, <2>3, <2>4
<1> QED BY <1>7, <1>8, <1>9, <1>10 DEF MailInv

\* The worker goes on to the next row.
LEMMA RestIs ==
    ASSUME MailInv, worker, Mailer!Advance
    PROVE  /\ Len(listed) > 0 /\ 1 \in DOMAIN listed /\ Head(listed) = listed[1]
           /\ listed' \in Seq(Mail \X Nat) /\ worker' \in BOOLEAN /\ (worker' <=> listed' # <<>>)
           /\ \A i \in DOMAIN listed' : i + 1 \in DOMAIN listed /\ listed'[i] = listed[i + 1] /\ i + 1 # 1
           /\ \A i \in DOMAIN listed' : i \in Nat
<1>1. listed \in Seq(Mail \X Nat) /\ listed # <<>>
  BY DEF MailInv, MailTypes
<1>2. listed' = Tail(listed) /\ worker' = (Len(listed) > 1)
  BY DEF Mailer!Advance
<1>3. Len(listed) \in Nat /\ Len(listed) > 0 /\ Head(listed) = listed[1] /\ 1 \in DOMAIN listed
  BY <1>1
<1>4. listed' \in Seq(Mail \X Nat) /\ Len(listed') = Len(listed) - 1
      /\ \A i \in 1 .. Len(listed') : listed'[i] = listed[i + 1]
  BY <1>1, <1>2, <1>3
<1>5. worker' \in BOOLEAN /\ (worker' <=> Len(listed') > 0)
  <2>1. Len(listed) > 1 <=> Len(listed') > 0
    BY <1>3, <1>4
  <2>2. worker' \in BOOLEAN
    BY <1>2
  <2>3. worker' <=> Len(listed) > 1
    BY <1>2, Zenon
  <2> QED BY <2>1, <2>2, <2>3
<1>6. Len(listed') > 0 <=> listed' # <<>>
  BY <1>4
<1>7. ASSUME NEW i \in DOMAIN listed'
      PROVE  i \in Nat /\ i + 1 \in DOMAIN listed /\ listed'[i] = listed[i + 1] /\ i + 1 # 1
  BY <1>1, <1>3, <1>4
<1> QED BY <1>3, <1>4, <1>5, <1>6, <1>7

\* The row the worker has tried: it is not listed again.
LEMMA WorkerKeeps ==
    ASSUME MailInv, worker, Mailer!Advance, NEW m, m = Head(listed)[1],
           UNCHANGED <<button, retries>>, attempts' = [attempts EXCEPT ![m] = @ + 1],
           status' \in [Mail -> {"new", "pending", "sent", "failed"}],
           \A n \in Mail \ {m} : status'[n] = status[n],
           status'[m] # "new", status'[m] = "pending" => Head(listed)[2] + 1 < MaxAttempts
    PROVE  ListedOnce' /\ RowsFit' /\ ListedFit'
<1>1. /\ 1 \in DOMAIN listed /\ Head(listed) = listed[1]
      /\ \A i \in DOMAIN listed' : i + 1 \in DOMAIN listed /\ listed'[i] = listed[i + 1]
                                   /\ i + 1 # 1 /\ i \in Nat
  BY RestIs
<1>2. MailTypes /\ m \in Mail /\ listed[1][2] \in Nat /\ listed[1][1] = m
  BY <1>1, ListedIs DEF MailInv
<1>3. ListedOnce'
  <2> SUFFICES ASSUME NEW i \in DOMAIN listed', NEW j \in DOMAIN listed', listed'[i][1] = listed'[j][1]
               PROVE  i = j
    BY DEF ListedOnce
  <2>1. i + 1 = j + 1
    BY <1>1 DEF MailInv, ListedOnce
  <2> QED BY <1>1, <2>1
<1>4. Limit' = Limit /\ Limit \in Nat /\ Limit >= MaxAttempts + 1
  BY MailNumbers, <1>2 DEF Limit, MailTypes
<1>5. ASSUME NEW n \in Mail PROVE Tried(n) \in Nat /\ Tried(n)' = IF n = m THEN Tried(n) + 1 ELSE Tried(n)
  BY <1>2 DEF Tried, MailTypes
<1>6. Tried(m) <= listed[1][2] + 1 /\ Tried(m) + 1 <= Limit
  BY <1>1, <1>2 DEF MailInv, ListedFit
<1>7. RowsFit'
  <2>1. ASSUME NEW n \in Mail, n # m
        PROVE  /\ status'[n] = "new" => attempts'[n] = 0 /\ n \notin button'
               /\ Tried(n)' <= Limit'
               /\ status'[n] = "pending" => Tried(n)' + 1 <= Limit'
    <3>1. Tried(n)' = Tried(n) /\ attempts'[n] = attempts[n] /\ status'[n] = status[n]
      BY <1>2, <1>5, <2>1 DEF MailTypes
    <3> QED BY <1>4, <3>1 DEF MailInv, RowsFit
  <2>2. Tried(m)' = Tried(m) + 1 /\ Tried(m) \in Nat
    BY <1>2, <1>5
  <2>3. Tried(m)' <= Limit'
    BY <1>4, <1>6, <2>2
  <2>4. status'[m] = "pending" => Tried(m)' + 1 <= Limit'
    <3> SUFFICES ASSUME status'[m] = "pending" PROVE Tried(m)' + 1 <= Limit'
      OBVIOUS
    <3>1. listed[1][2] + 1 < MaxAttempts
      BY <1>1
    <3> QED BY <1>2, <1>4, <1>6, <2>2, <3>1, MailNumbers
  <2> QED BY <2>1, <2>3, <2>4 DEF RowsFit
<1>8. ListedFit'
  <2> SUFFICES ASSUME NEW i \in DOMAIN listed', NEW n \in Mail, listed'[i][1] = n
               PROVE  /\ status'[n] \in {"pending", "sent"}
                      /\ Tried(n)' <= listed'[i][2] + 1
                      /\ Tried(n)' + 1 <= Limit'
    BY DEF ListedFit
  <2>1. PICK k \in DOMAIN listed : listed'[i] = listed[k] /\ k # 1
    BY <1>1
  <2>2. n \in Mail /\ n # m
    BY <1>1, <1>2, <2>1, ListedIs DEF MailInv, ListedOnce
  <2>3. Tried(n)' = Tried(n) /\ status'[n] = status[n]
    BY <1>5, <2>2
  <2>4. status[n] \in {"pending", "sent"} /\ Tried(n) <= listed[k][2] + 1 /\ Tried(n) + 1 <= Limit
    BY <2>1 DEF MailInv, ListedFit
  <2> QED BY <1>4, <2>1, <2>3, <2>4
<1> QED BY <1>3, <1>7, <1>8

\* The file goes when no pending row needs it.
LEMMA ReleaseKeeps ==
    ASSUME MailInv, NEW m \in Mail, NEW st, status' = st, retries' = retries,
           file' = Mailer!Released(st, m),
           \A n \in Mail \ {m} : st[n] = status[n], st[m] # "pending"
    PROVE  Mailer!WaitingHasFile' /\ file' \in {"none", "kept", "deleted"}
<1>1. file \in {"none", "kept", "deleted"} /\ Mailer!WaitingHasFile
  BY DEF MailInv, MailTypes
<1> QED BY <1>1, MailNumbers DEF Mailer!WaitingHasFile, Mailer!Released

LEMMA WorkerDeliversKeeps == ASSUME MailInv, Mailer!WorkerDelivers PROVE MailInv'
<1> DEFINE m == Head(listed)[1]
           st == [status EXCEPT ![m] = "sent"]
<1>1. /\ worker /\ status' = st /\ attempts' = [attempts EXCEPT ![m] = @ + 1]
      /\ file' = Mailer!Released(st, m) /\ Mailer!Advance /\ UNCHANGED <<due, button, retries>>
  BY DEF Mailer!WorkerDelivers
<1>2. m \in Mail /\ MailTypes
  BY <1>1, RestIs, ListedIs DEF MailInv
<1>3. /\ st \in [Mail -> {"new", "pending", "sent", "failed"}] /\ st[m] = "sent"
      /\ \A n \in Mail \ {m} : st[n] = status[n]
  BY <1>2 DEF MailTypes
<1>4. listed' \in Seq(Mail \X Nat) /\ worker' \in BOOLEAN /\ (worker' <=> listed' # <<>>)
  BY <1>1, RestIs
<1>5. attempts' \in [Mail -> Nat]
  BY <1>1, <1>2 DEF MailTypes
<1> HIDE DEF m, st
<1>6. Mailer!WaitingHasFile' /\ file' \in {"none", "kept", "deleted"}
  BY <1>1, <1>2, <1>3, ReleaseKeeps
<1>7. ListedOnce' /\ RowsFit' /\ ListedFit'
  BY <1>1, <1>3, WorkerKeeps DEF m
<1>8. MailTypes'
  BY <1>1, <1>2, <1>3, <1>4, <1>5, <1>6 DEF MailTypes
<1> QED BY <1>6, <1>7, <1>8 DEF MailInv

LEMMA WorkerFailsKeeps == ASSUME MailInv, Mailer!WorkerFails PROVE MailInv'
<1> DEFINE m == Head(listed)[1]
           st == [status EXCEPT ![m] = "failed"]
<1>1. /\ worker /\ attempts' = [attempts EXCEPT ![m] = @ + 1]
      /\ \/ status' = st /\ file' = Mailer!Released(st, m) /\ due' = due
         \/ /\ due' = [due EXCEPT ![m] = FALSE] /\ status' = status /\ file' = file
            /\ ~(Head(listed)[2] + 1 >= MaxAttempts)
      /\ Mailer!Advance /\ UNCHANGED <<button, retries>>
  BY DEF Mailer!WorkerFails, Mailer!GivesUp
<1>2. m \in Mail /\ MailTypes /\ Head(listed)[2] \in Nat /\ status[m] \in {"pending", "sent"}
  BY <1>1, RestIs, ListedIs DEF MailInv, ListedFit
<1>3. /\ st \in [Mail -> {"new", "pending", "sent", "failed"}] /\ st[m] = "failed"
      /\ \A n \in Mail \ {m} : st[n] = status[n]
  BY <1>2 DEF MailTypes
<1>4. listed' \in Seq(Mail \X Nat) /\ worker' \in BOOLEAN /\ (worker' <=> listed' # <<>>)
  BY <1>1, RestIs
<1>5. attempts' \in [Mail -> Nat] /\ due' \in [Mail -> BOOLEAN]
  <2>1. attempts' \in [Mail -> Nat]
    BY <1>1, <1>2 DEF MailTypes
  <2>2. CASE due' = due
    BY <1>2, <2>1, <2>2 DEF MailTypes
  <2>3. CASE due' = [due EXCEPT ![m] = FALSE]
    BY <1>2, <2>1, <2>3 DEF MailTypes
  <2> QED BY <1>1, <2>2, <2>3
<1> HIDE DEF m, st
<1>6. Mailer!WaitingHasFile' /\ file' \in {"none", "kept", "deleted"}
  <2>1. CASE status' = st /\ file' = Mailer!Released(st, m)
    BY <1>1, <1>2, <1>3, <2>1, ReleaseKeeps
  <2>2. CASE status' = status /\ file' = file
    BY <1>1, <2>2 DEF MailInv, MailTypes, Mailer!WaitingHasFile
  <2> QED BY <1>1, <2>1, <2>2
<1>7. status' \in [Mail -> {"new", "pending", "sent", "failed"}] /\ status'[m] # "new"
      /\ \A n \in Mail \ {m} : status'[n] = status[n]
  BY <1>1, <1>2, <1>3 DEF MailTypes
<1>8. status'[m] = "pending" => Head(listed)[2] + 1 < MaxAttempts
  BY <1>1, <1>2, <1>3, MailNumbers
<1>9. ListedOnce' /\ RowsFit' /\ ListedFit'
  BY <1>1, <1>7, <1>8, WorkerKeeps DEF m
<1>10. MailTypes'
  BY <1>1, <1>2, <1>4, <1>5, <1>6, <1>7 DEF MailTypes
<1> QED BY <1>6, <1>9, <1>10 DEF MailInv

LEMMA ButtonPresses ==
    ASSUME MailInv, NEW m \in Mail, Mailer!TestMail(m) \/ Mailer!RetryMail(m)
    PROVE  MailInv'
<1>1. /\ status[m] \in {"new", "failed"} /\ button = {} /\ button' = {m}
      /\ status[m] = "new" => m \notin Attached /\ retries' = retries
      /\ status[m] = "failed" => retries < MaxRetries /\ retries' = retries + 1
      /\ status' = [status EXCEPT ![m] = "pending"] /\ due' = [due EXCEPT ![m] = TRUE]
      /\ UNCHANGED <<attempts, file, listed, worker>>
  BY DEF Mailer!TestMail, Mailer!RetryMail, Mailer!pass
<1>2. MailTypes /\ retries \in Nat /\ retries' \in 0 .. MaxRetries /\ retries' >= retries
  BY <1>1, MailNumbers DEF MailInv, MailTypes
<1>3. MailTypes'
  <2>1. status' \in [Mail -> {"new", "pending", "sent", "failed"}] /\ due' \in [Mail -> BOOLEAN]
    BY <1>1, <1>2 DEF MailTypes
  <2>2. button' \subseteq Mail /\ \A n, o \in button' : n = o
    BY <1>1
  <2> QED BY <1>1, <1>2, <2>1, <2>2 DEF MailTypes
<1>4. Limit \in Nat /\ Limit' \in Nat /\ Limit' >= Limit /\ Limit' >= MaxAttempts + 1
  <2>1. retries' \in Nat
    BY <1>2, MailNumbers
  <2>2. Limit' = MaxAttempts + 1 + 2 * retries' /\ Limit = MaxAttempts + 1 + 2 * retries
    BY DEF Limit
  <2>3. retries' >= retries /\ retries \in Nat /\ MaxAttempts \in Nat
    BY <1>2, MailNumbers
  <2>4. ASSUME NEW r \in Nat, NEW s \in Nat, s >= r, NEW k \in Nat
        PROVE  /\ k + 1 + 2 * r \in Nat /\ k + 1 + 2 * s \in Nat
               /\ k + 1 + 2 * s >= k + 1 + 2 * r /\ k + 1 + 2 * s >= k + 1
    BY <2>4
  <2> QED BY <2>1, <2>2, <2>3, <2>4
<1>5. ASSUME NEW n \in Mail, n # m
      PROVE  Tried(n)' = Tried(n) /\ Tried(n) \in Nat /\ status'[n] = status[n]
  BY <1>1, <1>2, <1>5 DEF Tried, MailTypes
<1>6. Tried(m) = attempts[m] /\ Tried(m)' = attempts[m] + 1 /\ attempts[m] \in Nat
      /\ status'[m] = "pending"
  BY <1>1, <1>2 DEF Tried, MailTypes
<1>7. Tried(m)' + 1 <= Limit'
  <2>1. CASE status[m] = "new"
    <3>1. attempts[m] = 0
      BY <2>1 DEF MailInv, RowsFit
    <3> QED BY <1>4, <1>6, <3>1, MailNumbers
  <2>2. CASE status[m] = "failed"
    <3>1. Tried(m) <= Limit
      BY DEF MailInv, RowsFit
    <3>2. Limit' = Limit + 2
      BY <1>1, <1>2, <2>2, MailNumbers DEF Limit
    <3> QED BY <1>4, <1>6, <3>1, <3>2
  <2> QED BY <1>1, <2>1, <2>2
<1>8. RowsFit'
  <2>1. ASSUME NEW n \in Mail, n # m
        PROVE  /\ status'[n] = "new" => attempts'[n] = 0 /\ n \notin button'
               /\ Tried(n)' <= Limit'
               /\ status'[n] = "pending" => Tried(n)' + 1 <= Limit'
    <3>1. /\ status[n] = "new" => attempts[n] = 0
          /\ Tried(n) <= Limit /\ (status[n] = "pending" => Tried(n) + 1 <= Limit)
      BY DEF MailInv, RowsFit
    <3> QED BY <1>1, <1>4, <1>5, <2>1, <3>1
  <2> QED BY <1>4, <1>6, <1>7, <2>1 DEF RowsFit
<1>9. ListedOnce' /\ ListedFit'
  <2> SUFFICES ASSUME NEW i \in DOMAIN listed', NEW n \in Mail, listed'[i][1] = n
               PROVE  /\ status'[n] \in {"pending", "sent"}
                      /\ Tried(n)' <= listed'[i][2] + 1
                      /\ Tried(n)' + 1 <= Limit'
    BY <1>1 DEF ListedFit, MailInv, ListedOnce
  <2>1. status[n] \in {"pending", "sent"} /\ Tried(n) <= listed[i][2] + 1 /\ Tried(n) + 1 <= Limit
    BY <1>1 DEF MailInv, ListedFit
  <2>2. n # m
    BY <1>1, <2>1
  <2> QED BY <1>1, <1>4, <1>5, <2>1, <2>2
<1>10. Mailer!WaitingHasFile'
  <2>1. CASE status[m] = "failed"
    BY <1>1, <1>2, <2>1 DEF Mailer!WaitingHasFile
  <2>2. CASE status[m] = "new"
    <3>1. \A n \in Attached : status'[n] = status[n]
      BY <1>1, <1>5, <2>2, MailNumbers
    <3> QED BY <1>1, <2>2, <3>1 DEF MailInv, Mailer!WaitingHasFile
  <2> QED BY <1>1, <2>1, <2>2
<1> QED BY <1>3, <1>8, <1>9, <1>10 DEF MailInv

\* The request's try ends: what was under way is now counted.
LEMMA ButtonEnds ==
    ASSUME MailInv, NEW m \in button, button' = {}, attempts' = [attempts EXCEPT ![m] = @ + 1],
           UNCHANGED <<listed, worker, retries>>,
           MailTypes', status'[m] = status[m] \/ status'[m] = "sent",
           \A n \in Mail \ {m} : status'[n] = status[n]
    PROVE  ListedOnce' /\ RowsFit' /\ ListedFit'
<1>1. MailTypes /\ m \in Mail /\ Limit' = Limit /\ Limit \in Nat
  BY MailNumbers DEF MailInv, MailTypes, Limit
<1>2. ASSUME NEW n \in Mail PROVE Tried(n)' = Tried(n) /\ Tried(n) \in Nat /\ (n # m => attempts'[n] = attempts[n])
  BY <1>1 DEF Tried, MailTypes
<1>3. status[m] # "new" /\ status'[m] # "new"
  BY <1>1 DEF MailInv, RowsFit
<1>4. RowsFit'
  <2> SUFFICES ASSUME NEW n \in Mail
               PROVE  /\ status'[n] = "new" => attempts'[n] = 0 /\ n \notin button'
                      /\ Tried(n)' <= Limit'
                      /\ status'[n] = "pending" => Tried(n)' + 1 <= Limit'
    BY DEF RowsFit
  <2>1. /\ status[n] = "new" => attempts[n] = 0
        /\ Tried(n) <= Limit /\ (status[n] = "pending" => Tried(n) + 1 <= Limit)
    BY DEF MailInv, RowsFit
  <2>2. CASE n = m
    BY <1>1, <1>2, <1>3, <2>1, <2>2
  <2>3. CASE n # m
    BY <1>1, <1>2, <2>1, <2>3
  <2> QED BY <2>2, <2>3
<1>5. ListedFit' /\ ListedOnce'
  <2> SUFFICES ASSUME NEW i \in DOMAIN listed', NEW n \in Mail, listed'[i][1] = n
               PROVE  /\ status'[n] \in {"pending", "sent"}
                      /\ Tried(n)' <= listed'[i][2] + 1
                      /\ Tried(n)' + 1 <= Limit'
    BY DEF ListedFit, MailInv, ListedOnce
  <2>1. status[n] \in {"pending", "sent"} /\ Tried(n) <= listed[i][2] + 1 /\ Tried(n) + 1 <= Limit
    BY DEF MailInv, ListedFit
  <2>2. status'[n] \in {"pending", "sent"}
    BY <2>1
  <2> QED BY <1>1, <1>2, <2>1, <2>2
<1> QED BY <1>4, <1>5

LEMMA ButtonDeliversKeeps == ASSUME MailInv, NEW m \in Mail, Mailer!ButtonDelivers(m) PROVE MailInv'
<1> DEFINE st == [status EXCEPT ![m] = "sent"]
<1>1. /\ m \in button /\ status' = st /\ file' = Mailer!Released(st, m) /\ button' = {}
      /\ attempts' = [attempts EXCEPT ![m] = @ + 1]
      /\ UNCHANGED <<due, listed, worker, retries>>
  BY DEF Mailer!ButtonDelivers, Mailer!pass
<1>2. MailTypes
  BY DEF MailInv
<1>3. /\ st \in [Mail -> {"new", "pending", "sent", "failed"}] /\ st[m] = "sent"
      /\ \A n \in Mail \ {m} : st[n] = status[n]
  BY <1>2 DEF MailTypes
<1> HIDE DEF st
<1>4. Mailer!WaitingHasFile' /\ file' \in {"none", "kept", "deleted"}
  BY <1>1, <1>3, ReleaseKeeps
<1>5. attempts' \in [Mail -> Nat]
  BY <1>1, <1>2 DEF MailTypes
<1>6. MailTypes'
  BY <1>1, <1>2, <1>3, <1>4, <1>5 DEF MailTypes
<1>7. ListedOnce' /\ RowsFit' /\ ListedFit'
  BY <1>1, <1>3, <1>6, ButtonEnds
<1> QED BY <1>4, <1>6, <1>7 DEF MailInv

LEMMA ButtonFailsKeeps == ASSUME MailInv, NEW m \in Mail, Mailer!ButtonFails(m) PROVE MailInv'
<1>1. /\ m \in button /\ button' = {} /\ attempts' = [attempts EXCEPT ![m] = @ + 1]
      /\ due' = [due EXCEPT ![m] = FALSE]
      /\ UNCHANGED <<status, file, listed, worker, retries>>
  BY DEF Mailer!ButtonFails, Mailer!pass
<1>2. MailTypes
  BY DEF MailInv
<1>3. attempts' \in [Mail -> Nat] /\ due' \in [Mail -> BOOLEAN]
  BY <1>1, <1>2 DEF MailTypes
<1>4. MailTypes'
  BY <1>1, <1>2, <1>3 DEF MailTypes
<1>5. ListedOnce' /\ RowsFit' /\ ListedFit'
  BY <1>1, <1>4, ButtonEnds
<1>6. Mailer!WaitingHasFile'
  BY <1>1 DEF MailInv, Mailer!WaitingHasFile
<1> QED BY <1>4, <1>5, <1>6 DEF MailInv

LEMMA BackoffKeeps == ASSUME MailInv, NEW m \in Mail, Mailer!Backoff(m) PROVE MailInv'
<1>1. /\ due' = [due EXCEPT ![m] = TRUE]
      /\ UNCHANGED <<status, attempts, file, listed, worker, button, retries>>
  BY DEF Mailer!Backoff, Mailer!pass
<1>2. due' \in [Mail -> BOOLEAN]
  BY <1>1 DEF MailInv, MailTypes
<1> QED BY <1>1, <1>2 DEF MailInv, MailTypes, ListedOnce, RowsFit, ListedFit, Tried, Limit,
                          Mailer!WaitingHasFile

LEMMA CrashKeeps == ASSUME MailInv, Mailer!Crash PROVE MailInv'
<1>1. /\ listed' = <<>> /\ worker' = FALSE /\ button' = {}
      /\ UNCHANGED <<status, attempts, due, file, retries>>
  BY DEF Mailer!Crash, Mailer!row
<1>2. MailTypes
  BY DEF MailInv
<1>3. MailTypes'
  <2>1. button' \subseteq Mail /\ (\A m, n \in button' : m = n) /\ listed' \in Seq(Mail \X Nat)
    BY <1>1
  <2>2. worker' \in BOOLEAN /\ (worker' <=> listed' # <<>>)
    BY <1>1
  <2> QED BY <1>1, <1>2, <2>1, <2>2 DEF MailTypes
<1>4. DOMAIN listed' = {}
  BY <1>1
<1>5. RowsFit'
  <2> SUFFICES ASSUME NEW m \in Mail
               PROVE  /\ status'[m] = "new" => attempts'[m] = 0 /\ m \notin button'
                      /\ Tried(m)' <= Limit'
                      /\ status'[m] = "pending" => Tried(m)' + 1 <= Limit'
    BY DEF RowsFit
  <2>1. Limit' = Limit /\ Limit \in Nat
    BY <1>1, <1>2, MailNumbers DEF Limit, MailTypes
  <2>2. Tried(m) \in Nat /\ Tried(m)' \in Nat /\ Tried(m)' <= Tried(m)
    BY <1>1, <1>2 DEF Tried, MailTypes
  <2>3. /\ status[m] = "new" => attempts[m] = 0
        /\ Tried(m) <= Limit /\ (status[m] = "pending" => Tried(m) + 1 <= Limit)
    BY DEF MailInv, RowsFit
  <2> QED BY <1>1, <2>1, <2>2, <2>3
<1>6. Mailer!WaitingHasFile'
  BY <1>1 DEF MailInv, Mailer!WaitingHasFile
<1> QED BY <1>3, <1>4, <1>5, <1>6 DEF MailInv, ListedOnce, ListedFit

LEMMA MailStep == ASSUME MailInv, Mailer!Next PROVE MailInv'
<1>1. CASE Mailer!EnqueueNotice
  <2>1. PICK m \in Mail \ Attached : Mailer!Enqueue({m})
    BY <1>1 DEF Mailer!EnqueueNotice
  <2>2. {m} \in SUBSET Mail /\ {m} \cap Attached = {}
    BY <2>1
  <2> QED BY <2>1, <2>2, EnqueueKeeps
<1>2. CASE Mailer!EnqueueBackup
  <2>1. Attached \in SUBSET Mail
    BY MailNumbers
  <2> QED BY <1>2, <2>1, EnqueueKeeps DEF Mailer!EnqueueBackup
<1> QED BY <1>1, <1>2, PassKeeps, WorkerDeliversKeeps, WorkerFailsKeeps, CrashKeeps, ButtonPresses,
           BackoffKeeps, ButtonDeliversKeeps, ButtonFailsKeeps DEF Mailer!Next

\* What of this the module promises.
LEMMA MailSafe == ASSUME MailInv PROVE Mailer!TypeOK /\ Mailer!WaitingHasFile
<1>1. ASSUME NEW m \in Mail PROVE attempts[m] \in 0 .. (MaxAttempts + 2 * MaxRetries + 1)
  <2>1. attempts[m] \in Nat /\ attempts[m] <= Tried(m) /\ Tried(m) <= Limit
    BY DEF MailInv, MailTypes, RowsFit, Tried
  <2>2. Limit \in Nat /\ Limit <= MaxAttempts + 2 * MaxRetries + 1 /\ Tried(m) \in Nat
    BY MailNumbers DEF MailInv, MailTypes, Limit, Tried
  <2> QED BY <2>1, <2>2, MailNumbers
<1>2. attempts \in [Mail -> 0 .. (MaxAttempts + 2 * MaxRetries + 1)]
  BY <1>1 DEF MailInv, MailTypes
<1>3. Mailer!Cardinality(button) <= 1
  <2>1. CASE button = {}
    BY <2>1, FS_EmptySet, MailCount
  <2>2. CASE button # {}
    <3>1. PICK m \in button : button = {m}
      BY <2>2 DEF MailInv, MailTypes
    <3> QED BY <3>1, FS_Singleton, MailCount
  <2> QED BY <2>1, <2>2
<1> QED BY <1>2, <1>3 DEF MailInv, MailTypes, Mailer!TypeOK

-----------------------------------------------------------------------------
(* Alerts: every message of an escalation is behind its stage, and the tick*)
(* under way holds only stages that come next.                             *)

Stage == {Alarm!Email, Alarm!Sms}
Due == (DOMAIN opened) \X Stage

NoticesInv ==
    /\ raised \subseteq Alarm!Alert
    /\ queue \in Seq(raised) /\ aInbox \in Seq(raised) /\ Len(aInbox) <= Keep
    /\ seen \subseteq raised

Once(s) == \A i, j \in DOMAIN s : s[i] = s[j] => i = j

DigestInv ==
    /\ digest \in Seq(Trade) /\ flushing \in Seq(Trade) /\ Len(digest) <= Fold
    /\ Once(digest) /\ Alarm!NothingSkipped

StagesTyped ==
    /\ now \in 0 .. MaxTime
    /\ DOMAIN opened \subseteq Critical \cap raised /\ opened \in [DOMAIN opened -> 0 .. MaxTime]
    /\ stage \in [DOMAIN opened -> 0 .. Alarm!Sms]
    /\ acked \subseteq DOMAIN opened
    /\ messages \in Seq(Due) /\ rows \in Seq(Due) /\ sending \in Due \cup {Alarm!NoMessage}

\* What went out is not ahead of the stage.
SentFit ==
    \A i \in DOMAIN messages : \A e \in DOMAIN opened : messages[i][1] = e => messages[i][2] <= stage[e]

\* What is being sent is the stage, and newer than all that went out.
SendingFit ==
    sending # Alarm!NoMessage =>
        \A e \in DOMAIN opened : sending[1] = e =>
            /\ sending[2] = stage[e]
            /\ \A i \in DOMAIN messages : messages[i][1] = e => messages[i][2] < sending[2]

\* What the tick has left to send comes after the stage, one row for each escalation.
RowsDue ==
    /\ rows # <<>> => sending # Alarm!NoMessage
    /\ \A i \in DOMAIN rows : \A e \in DOMAIN opened : rows[i][1] = e =>
         stage[e] < rows[i][2] /\ (sending # Alarm!NoMessage => sending[1] # e)
    /\ \A i, j \in DOMAIN rows : rows[i][1] = rows[j][1] => i = j

StagesInv == StagesTyped /\ SentFit /\ SendingFit /\ RowsDue /\ Alarm!StagesOnce

AlarmInv == NoticesInv /\ DigestInv /\ StagesInv

\* What the constants give.
LEMMA AlarmNumbers ==
    /\ EmailAt \in Nat /\ SmsAt \in Nat /\ Keep \in Nat /\ Keep > 0 /\ Fold \in Nat /\ Fold > 0
    /\ Shown \in Nat /\ Shown > 0
    /\ MaxTime \in Nat /\ IsFiniteSet(Critical)
    /\ Alarm!Email = 1 /\ Alarm!Sms = 2 /\ Stage = {1, 2} /\ Alarm!NoMessage = <<>>
BY AlarmAssumption DEF Alarm!AlertsAssumption, Alarm!Email, Alarm!Sms, Stage, Alarm!NoMessage

\* A pair is not the empty sequence that stands for no message.
LEMMA DueIs ==
    ASSUME NEW D, NEW p \in D \X Stage
    PROVE  /\ p # Alarm!NoMessage /\ p[1] \in D /\ p[2] \in {1, 2}
           /\ p = <<p[1], p[2]>>
<1>1. p = <<p[1], p[2]>> /\ p[1] \in D /\ p[2] \in Stage
  OBVIOUS
<1>2. p # <<>>
  BY <1>1
<1> QED BY <1>1, <1>2, AlarmNumbers

LEMMA AlarmInit == ASSUME Alarm!Init PROVE AlarmInv
<1>1. /\ raised = {} /\ queue = <<>> /\ aInbox = <<>> /\ seen = {} /\ digest = <<>> /\ flushing = <<>>
      /\ told = {} /\ counted = {} /\ dropped = {} /\ opened = <<>> /\ stage = <<>> /\ acked = {} /\ rows = <<>>
      /\ sending = Alarm!NoMessage /\ messages = <<>> /\ now = 0
  BY DEF Alarm!Init
<1>2. DOMAIN opened = {} /\ DOMAIN rows = {} /\ DOMAIN messages = {}
  BY <1>1
<1>3. NoticesInv
  BY <1>1, AlarmNumbers DEF NoticesInv
<1>4. DigestInv
  <2>1. Alarm!ToSet(digest) = {} /\ Alarm!ToSet(flushing) = {}
    BY <1>1 DEF Alarm!ToSet
  <2>2. Alarm!NothingSkipped
    BY <1>1, <2>1 DEF Alarm!NothingSkipped
  <2>3. Len(digest) = 0 /\ Once(digest)
    BY <1>1 DEF Once
  <2> QED BY <1>1, <2>2, <2>3, AlarmNumbers DEF DigestInv
<1>5. StagesTyped
  <2>1. now \in 0 .. MaxTime
    BY <1>1, AlarmNumbers
  <2>2. opened \in [DOMAIN opened -> 0 .. MaxTime] /\ stage \in [DOMAIN opened -> 0 .. Alarm!Sms]
    BY <1>1, <1>2
  <2>3. messages \in Seq(Due) /\ rows \in Seq(Due)
    BY <1>1
  <2> QED BY <1>1, <1>2, <2>1, <2>2, <2>3 DEF StagesTyped
<1>6. SentFit /\ SendingFit /\ RowsDue /\ Alarm!StagesOnce
  BY <1>1, <1>2 DEF SentFit, SendingFit, RowsDue, Alarm!StagesOnce
<1> QED BY <1>3, <1>4, <1>5, <1>6 DEF AlarmInv, StagesInv

\* The parts read what they name, and nothing else.
LEMMA NoticesStay ==
    ASSUME NoticesInv, UNCHANGED <<raised, queue, aInbox, seen>> PROVE NoticesInv'
BY DEF NoticesInv

LEMMA DigestStays ==
    ASSUME DigestInv, UNCHANGED <<raised, digest, flushing, told, counted, dropped>> PROVE DigestInv'
BY DEF DigestInv, Once, Alarm!NothingSkipped, Alarm!ToSet

LEMMA StagesStay ==
    ASSUME StagesInv, UNCHANGED <<opened, stage, rows, sending, messages>>,
           now' \in 0 .. MaxTime, acked' \subseteq DOMAIN opened, raised \subseteq raised'
    PROVE  StagesInv'
BY DEF StagesInv, StagesTyped, SentFit, SendingFit, RowsDue, Alarm!StagesOnce, Due

LEMMA AlarmStutter == ASSUME AlarmInv, UNCHANGED AlarmVars PROVE AlarmInv'
BY NoticesStay, DigestStays, StagesStay DEF AlarmInv, AlarmVars, StagesInv, StagesTyped

\* What a sequence holds.
LEMMA AppendHolds ==
    ASSUME NEW S, NEW s \in Seq(S), NEW x \in S
    PROVE  Append(s, x) \in Seq(S) /\ Len(Append(s, x)) = Len(s) + 1
           /\ Alarm!ToSet(Append(s, x)) = Alarm!ToSet(s) \cup {x}
<1>1. /\ Append(s, x) \in Seq(S) /\ Len(Append(s, x)) = Len(s) + 1
      /\ \A i \in 1 .. Len(s) : Append(s, x)[i] = s[i]
      /\ Append(s, x)[Len(s) + 1] = x /\ Len(s) \in Nat
  BY AppendProperties
<1>2. DOMAIN s = 1 .. Len(s) /\ DOMAIN Append(s, x) = 1 .. Len(s) + 1
  BY <1>1
<1>3. Len(s) + 1 \in DOMAIN Append(s, x) /\ \A i \in DOMAIN s : i \in DOMAIN Append(s, x)
  BY <1>1, <1>2
<1>4. \A i \in DOMAIN Append(s, x) : i \in DOMAIN s \/ i = Len(s) + 1
  BY <1>1, <1>2
<1> QED BY <1>1, <1>2, <1>3, <1>4 DEF Alarm!ToSet

LEMMA TailHolds ==
    ASSUME NEW S, NEW s \in Seq(S), s # <<>>
    PROVE  Tail(s) \in Seq(S) /\ Len(Tail(s)) = Len(s) - 1 /\ Len(s) > 0 /\ Head(s) \in S
           /\ Alarm!ToSet(s) = {Head(s)} \cup Alarm!ToSet(Tail(s))
<1>1. /\ Head(s) \in S /\ Head(s) = s[1] /\ Tail(s) \in Seq(S) /\ Len(Tail(s)) = Len(s) - 1
      /\ Len(s) \in Nat /\ Len(s) > 0
      /\ \A i \in 1 .. Len(Tail(s)) : Tail(s)[i] = s[i + 1]
  BY HeadTailProperties
<1>2. DOMAIN s = 1 .. Len(s) /\ DOMAIN Tail(s) = 1 .. Len(s) - 1
  BY <1>1
<1>3. ASSUME NEW i \in DOMAIN s PROVE i = 1 \/ \E j \in DOMAIN Tail(s) : Tail(s)[j] = s[i]
  <2>1. CASE i # 1
    <3>1. i - 1 \in DOMAIN Tail(s)
      BY <1>1, <1>2, <2>1
    <3>2. Tail(s)[i - 1] = s[i]
      BY <1>1, <1>2, <2>1, <3>1
    <3> QED BY <3>1, <3>2
  <2> QED BY <2>1
<1>4. \A j \in DOMAIN Tail(s) : j + 1 \in DOMAIN s /\ Tail(s)[j] = s[j + 1]
  BY <1>1, <1>2
<1>5. 1 \in DOMAIN s
  BY <1>1, <1>2
<1> QED BY <1>1, <1>3, <1>4, <1>5 DEF Alarm!ToSet

LEMMA AppendOnce ==
    ASSUME NEW S, NEW s \in Seq(S), NEW x \in S, Once(s), x \notin Alarm!ToSet(s)
    PROVE  Once(Append(s, x))
<1>1. /\ \A i \in 1 .. Len(s) : Append(s, x)[i] = s[i]
      /\ Append(s, x)[Len(s) + 1] = x /\ Len(s) \in Nat
      /\ DOMAIN s = 1 .. Len(s) /\ DOMAIN Append(s, x) = 1 .. Len(s) + 1
  BY AppendProperties
<1>2. \A i \in 1 .. Len(s) : s[i] # x
  BY <1>1 DEF Alarm!ToSet
<1>3. \A i \in DOMAIN Append(s, x) : i \in 1 .. Len(s) \/ i = Len(s) + 1
  BY <1>1
<1> QED BY <1>1, <1>2, <1>3 DEF Once

LEMMA TailOnce ==
    ASSUME NEW S, NEW s \in Seq(S), s # <<>>, Once(s)
    PROVE  Once(Tail(s)) /\ Head(s) \notin Alarm!ToSet(Tail(s))
<1>1. /\ Head(s) = s[1] /\ Len(Tail(s)) = Len(s) - 1 /\ Len(s) \in Nat /\ Len(s) > 0
      /\ \A i \in 1 .. Len(Tail(s)) : Tail(s)[i] = s[i + 1]
  BY HeadTailProperties
<1>2. DOMAIN s = 1 .. Len(s) /\ DOMAIN Tail(s) = 1 .. Len(s) - 1
  BY <1>1, HeadTailProperties
<1>3. \A i \in DOMAIN Tail(s) : i \in Int /\ i + 1 \in DOMAIN s /\ i + 1 # 1 /\ Tail(s)[i] = s[i + 1]
  BY <1>1, <1>2
<1>4. 1 \in DOMAIN s
  BY <1>1, <1>2
<1> QED BY <1>1, <1>3, <1>4 DEF Once, Alarm!ToSet

LEMMA HoldsSubset == ASSUME NEW S, NEW s \in Seq(S) PROVE Alarm!ToSet(s) \subseteq S
BY DEF Alarm!ToSet

LEMMA BeginKeeps ==
    ASSUME AlarmInv, NEW a \in Alarm!Alert, a \notin raised, Alarm!Begin(a) PROVE AlarmInv'
<1>1. /\ a \notin raised /\ raised' = raised \cup {a} /\ queue' = Append(queue, a)
      /\ IF a \in Trade /\ folding
         THEN digest' = Alarm!Folded(a) /\ dropped' = dropped \cup Alarm!Overflow /\ UNCHANGED told
         ELSE /\ told' = IF Alarm!Allowed(a) THEN told \cup {a} ELSE told
              /\ dropped' = IF Alarm!Allowed(a) THEN dropped ELSE dropped \cup {a}
              /\ UNCHANGED digest
      /\ Alarm!Opened(a)
      /\ UNCHANGED <<aInbox, seen, flushing, counted, acked, rows, sending, messages, now>>
  BY DEF Alarm!Begin
<1>2. NoticesInv'
  <2>1. /\ queue \in Seq(raised') /\ aInbox \in Seq(raised') /\ a \in raised'
    BY <1>1, SeqMonotonic DEF AlarmInv, NoticesInv
  <2>2. queue' \in Seq(raised')
    BY <1>1, <2>1, AppendHolds
  <2> QED BY <1>1, <2>1, <2>2 DEF AlarmInv, NoticesInv
<1>3. DigestInv'
  <2>1. /\ digest \in Seq(Trade) /\ flushing \in Seq(Trade) /\ Len(digest) <= Fold
        /\ Once(digest) /\ Alarm!NothingSkipped
    BY DEF AlarmInv, DigestInv
  <2>a. a \notin told \cup counted \cup dropped \cup Alarm!ToSet(digest) \cup Alarm!ToSet(flushing)
    BY <1>1, <2>1 DEF Alarm!NothingSkipped
  <2>b. Alarm!ToSet(flushing)' = Alarm!ToSet(flushing)
    BY <1>1 DEF Alarm!ToSet
  <2>2. CASE a \in Trade /\ folding
    <3>1. digest' = Alarm!Folded(a) /\ dropped' = dropped \cup Alarm!Overflow /\ told' = told
      BY <1>1, <2>2
    <3>2. CASE Len(digest) < Fold
      <4>1. digest' = Append(digest, a) /\ dropped' = dropped
        BY <3>1, <3>2 DEF Alarm!Folded, Alarm!Overflow
      <4>2. digest' \in Seq(Trade) /\ Len(digest') = Len(digest) + 1
            /\ Alarm!ToSet(digest') = Alarm!ToSet(digest) \cup {a}
        BY <2>1, <2>2, <4>1, AppendHolds
      <4>3. Len(digest) \in Nat /\ Len(digest') <= Fold
        BY <2>1, <3>2, <4>2, AlarmNumbers
      <4>4. Once(digest')
        BY <2>1, <2>2, <2>a, <4>1, AppendOnce
      <4>5. Alarm!ToSet(digest)' = Alarm!ToSet(digest) \cup {a}
        BY <4>2 DEF Alarm!ToSet
      <4>6. Alarm!NothingSkipped'
        BY <1>1, <2>1, <2>a, <2>b, <3>1, <4>1, <4>5 DEF Alarm!NothingSkipped
      <4>7. digest' \in Seq(Trade) /\ flushing' \in Seq(Trade) /\ Len(digest') <= Fold
        BY <1>1, <2>1, <4>2, <4>3
      <4>8. Once(digest)'
        BY <4>4 DEF Once
      <4> QED BY <4>6, <4>7, <4>8 DEF DigestInv
    <3>3. CASE ~(Len(digest) < Fold)
      <4>1. digest' = Append(Tail(digest), a) /\ dropped' = dropped \cup {Head(digest)}
        BY <3>1, <3>3 DEF Alarm!Folded, Alarm!Overflow
      <4>2. digest # <<>>
        BY <2>1, <3>3, AlarmNumbers
      <4>3. /\ Tail(digest) \in Seq(Trade) /\ Len(Tail(digest)) = Len(digest) - 1
            /\ Alarm!ToSet(digest) = {Head(digest)} \cup Alarm!ToSet(Tail(digest))
            /\ Head(digest) \notin Alarm!ToSet(Tail(digest)) /\ Once(Tail(digest))
        BY <2>1, <4>2, TailHolds, TailOnce
      <4>4. digest' \in Seq(Trade) /\ Len(digest') = Len(Tail(digest)) + 1
            /\ Alarm!ToSet(digest') = Alarm!ToSet(Tail(digest)) \cup {a} /\ Once(digest')
        <5> DEFINE t == Tail(digest)
        <5>1. t \in Seq(Trade) /\ a \in Trade /\ digest' = Append(t, a) /\ Once(t)
              /\ a \notin Alarm!ToSet(t)
          BY <2>2, <2>a, <4>1, <4>3
        <5> HIDE DEF t
        <5>2. /\ digest' \in Seq(Trade) /\ Len(digest') = Len(t) + 1
              /\ Alarm!ToSet(digest') = Alarm!ToSet(t) \cup {a} /\ Once(digest')
          BY <5>1, AppendHolds, AppendOnce
        <5> QED BY <5>2 DEF t
      <4>5. Len(digest) \in Nat /\ Len(digest') <= Fold
        BY <2>1, <4>3, <4>4, AlarmNumbers
      <4>6. Alarm!ToSet(digest)' = Alarm!ToSet(Tail(digest)) \cup {a} /\ Once(digest)'
        BY <4>4 DEF Alarm!ToSet, Once
      <4>7. Alarm!NothingSkipped'
        BY <1>1, <2>1, <2>a, <2>b, <3>1, <4>1, <4>3, <4>6 DEF Alarm!NothingSkipped
      <4> QED BY <1>1, <2>1, <4>4, <4>5, <4>6, <4>7 DEF DigestInv
    <3> QED BY <3>2, <3>3
  <2>3. CASE ~(a \in Trade /\ folding)
    <3>1. /\ digest' = digest
          /\ \/ told' = told \cup {a} /\ dropped' = dropped
             \/ told' = told /\ dropped' = dropped \cup {a}
      BY <1>1, <2>3, Zenon
    <3>2. Alarm!ToSet(digest)' = Alarm!ToSet(digest) /\ Once(digest)'
      BY <2>1, <3>1 DEF Alarm!ToSet, Once
    <3>3. Alarm!NothingSkipped'
      BY <1>1, <2>1, <2>a, <2>b, <3>1, <3>2 DEF Alarm!NothingSkipped
    <3> QED BY <1>1, <2>1, <3>1, <3>2, <3>3 DEF DigestInv
  <2> QED BY <2>2, <2>3
<1>4. StagesInv'
  <2>1. CASE a \notin Critical
    <3>1. UNCHANGED <<opened, stage>>
      BY <1>1, <2>1 DEF Alarm!Opened
    <3> QED BY <1>1, <3>1, StagesStay DEF AlarmInv, StagesInv, StagesTyped
  <2>2. CASE a \in Critical
    <3>1. /\ opened' = [e \in DOMAIN opened \cup {a} |-> IF e = a THEN now ELSE opened[e]]
          /\ stage' = [e \in DOMAIN opened' |-> IF e = a THEN 0 ELSE stage[e]]
      BY <1>1, <2>2 DEF Alarm!Opened
    <3>2. /\ a \notin DOMAIN opened /\ DOMAIN opened' = DOMAIN opened \cup {a}
          /\ stage'[a] = 0 /\ \A e \in DOMAIN opened : stage'[e] = stage[e]
      BY <1>1, <3>1 DEF AlarmInv, StagesInv, StagesTyped
    <3>3. /\ Due \subseteq Due'
          /\ messages \in Seq(Due) /\ rows \in Seq(Due) /\ sending \in Due \cup {Alarm!NoMessage}
      <4>1. Due' = (DOMAIN opened') \X Stage
        BY DEF Due, Stage, Alarm!Email, Alarm!Sms
      <4>2. ASSUME NEW p \in Due PROVE p \in Due'
        <5>1. p[1] \in DOMAIN opened /\ p[2] \in Stage /\ p = <<p[1], p[2]>>
          BY DueIs, AlarmNumbers DEF Due
        <5> QED BY <3>2, <4>1, <5>1
      <4> QED BY <4>2 DEF AlarmInv, StagesInv, StagesTyped
    <3>4. /\ \A i \in DOMAIN messages : messages[i][1] \in DOMAIN opened
          /\ \A i \in DOMAIN rows : rows[i][1] \in DOMAIN opened
          /\ sending # Alarm!NoMessage => sending[1] \in DOMAIN opened
      <4>1. /\ \A i \in DOMAIN messages : messages[i] \in Due
            /\ \A i \in DOMAIN rows : rows[i] \in Due
        BY <3>3
      <4>2. \A p \in Due : p[1] \in DOMAIN opened
        BY DueIs DEF Due
      <4> QED BY <3>3, <4>1, <4>2
    <3>5. StagesTyped'
      <4>1. /\ messages' \in Seq(Due') /\ rows' \in Seq(Due')
        BY <1>1, <3>3, SeqMonotonic
      <4>2. sending' \in Due' \cup {Alarm!NoMessage}
        BY <1>1, <3>3
      <4>3. opened' \in [DOMAIN opened' -> 0 .. MaxTime] /\ stage' \in [DOMAIN opened' -> 0 .. Alarm!Sms]
        BY <3>1, <3>2, AlarmNumbers DEF AlarmInv, StagesInv, StagesTyped
      <4>4. DOMAIN opened' \subseteq Critical \cap raised' /\ acked' \subseteq DOMAIN opened'
            /\ now' \in 0 .. MaxTime
        BY <1>1, <2>2, <3>2 DEF AlarmInv, StagesInv, StagesTyped
      <4> QED BY <4>1, <4>2, <4>3, <4>4 DEF StagesTyped
    <3>6. SentFit'
      BY <1>1, <3>2, <3>4 DEF AlarmInv, StagesInv, SentFit
    <3>7. SendingFit'
      BY <1>1, <3>2, <3>4 DEF AlarmInv, StagesInv, SendingFit
    <3>8. RowsDue'
      BY <1>1, <3>2, <3>4 DEF AlarmInv, StagesInv, RowsDue
    <3>9. Alarm!StagesOnce'
      BY <1>1 DEF AlarmInv, StagesInv, Alarm!StagesOnce
    <3> QED BY <3>5, <3>6, <3>7, <3>8, <3>9 DEF StagesInv
  <2> QED BY <2>1, <2>2
<1> QED BY <1>2, <1>3, <1>4 DEF AlarmInv

\* The row that goes is one of them.
LEMMA DoomedIs ==
    ASSUME NEW all \in Seq(Alarm!Alert), Len(all) > 0
    PROVE  Alarm!Doomed(all) \in 1 .. Len(all)
<1> DEFINE R == {p \in Nat \X Nat : p[1] < p[2]}
           read == {i \in DOMAIN all : all[i] \in seen}
<1>1. IsWellFoundedOn(R, Nat)
  BY NatLessThanWellFounded DEF OpToRel
<1>2. \A x, y \in Nat : y < x => <<y, x>> \in R
  OBVIOUS
<1>3. read \subseteq Nat /\ read \subseteq 1 .. Len(all) /\ 1 \in 1 .. Len(all)
  OBVIOUS
<1>4. Alarm!Doomed(all) = IF read # {} THEN Alarm!Min(read) ELSE 1
  BY DEF Alarm!Doomed
<1> HIDE DEF R, read
<1>5. ASSUME read # {} PROVE Alarm!Min(read) \in read
  <2>1. PICK x \in read : \A y \in read : <<y, x>> \notin R
    BY <1>1, <1>3, <1>5, WFMin
  <2>2. \A y \in read : x <= y
    <3> TAKE y \in read
    <3>1. x \in Nat /\ y \in Nat
      BY <1>3
    <3>2. ~(y < x)
      BY <1>2, <2>1, <3>1
    <3> QED BY <3>1, <3>2
  <2> QED BY <2>2 DEF Alarm!Min
<1> QED BY <1>3, <1>4, <1>5

LEMMA RemoveHolds ==
    ASSUME NEW S, NEW s \in Seq(S), NEW i \in 1 .. Len(s)
    PROVE  Alarm!RemoveAt(s, i) \in Seq(S) /\ Len(Alarm!RemoveAt(s, i)) = Len(s) - 1
<1> DEFINE a == SubSeq(s, 1, i - 1)
           b == SubSeq(s, i + 1, Len(s))
<1>1. a \in Seq(S) /\ Len(a) = i - 1
  OBVIOUS
<1>2. b \in Seq(S) /\ Len(b) = Len(s) - i
  OBVIOUS
<1>3. Alarm!RemoveAt(s, i) = a \o b
  BY DEF Alarm!RemoveAt
<1> HIDE DEF a, b
<1>4. a \o b \in Seq(S) /\ Len(a \o b) = Len(a) + Len(b)
  BY <1>1, <1>2, ConcatProperties
<1> QED BY <1>1, <1>2, <1>3, <1>4

LEMMA InboxKeeps == ASSUME AlarmInv, Alarm!InboxWrites PROVE AlarmInv'
<1> DEFINE all == Append(aInbox, Head(queue))
<1>1. /\ queue # <<>> /\ queue' = Tail(queue)
      /\ aInbox' = IF Len(all) <= Keep THEN all ELSE Alarm!RemoveAt(all, Alarm!Doomed(all))
      /\ UNCHANGED <<raised, seen>> /\ UNCHANGED <<digest, flushing, told, counted, dropped>>
      /\ UNCHANGED <<opened, stage, acked, rows, sending, messages, now>>
  BY DEF Alarm!InboxWrites, Alarm!channel, Alarm!esc
<1>2. /\ raised \subseteq Alarm!Alert /\ queue \in Seq(raised) /\ aInbox \in Seq(raised)
      /\ Len(aInbox) <= Keep /\ Len(aInbox) \in Nat
  BY DEF AlarmInv, NoticesInv
<1>3. queue' \in Seq(raised) /\ Head(queue) \in raised
  BY <1>1, <1>2, TailHolds
<1>4. all \in Seq(raised) /\ Len(all) = Len(aInbox) + 1
  BY <1>2, <1>3, AppendHolds
<1> HIDE DEF all
<1>5. all \in Seq(Alarm!Alert)
  BY <1>2, <1>4, SeqMonotonic
<1>6. aInbox' \in Seq(raised) /\ Len(aInbox') <= Keep
  <2>1. CASE Len(all) <= Keep
    BY <1>1, <1>4, <2>1
  <2>2. CASE ~(Len(all) <= Keep)
    <3>1. Alarm!Doomed(all) \in 1 .. Len(all)
      BY <1>2, <1>4, <1>5, DoomedIs
    <3>2. aInbox' \in Seq(raised) /\ Len(aInbox') = Len(all) - 1
      BY <1>1, <1>4, <2>2, <3>1, RemoveHolds
    <3> QED BY <1>2, <1>4, <3>2, AlarmNumbers
  <2> QED BY <2>1, <2>2
<1>7. NoticesInv'
  BY <1>1, <1>3, <1>6 DEF AlarmInv, NoticesInv
<1>8. DigestInv'
  BY <1>1, DigestStays DEF AlarmInv
<1>9. StagesInv'
  BY <1>1, StagesStay DEF AlarmInv, StagesInv, StagesTyped
<1> QED BY <1>7, <1>8, <1>9 DEF AlarmInv

\* A message names some of the alerts it is sent for.
LEMMA LinesAre ==
    ASSUME flushing \in Seq(Trade), flushing # <<>>, NEW n \in 1 .. Shown
    PROVE  Alarm!Lines(n) \subseteq Alarm!ToSet(flushing) /\ Alarm!Lines(n) # {}
<1>1. Alarm!Lines(n) \subseteq Alarm!ToSet(flushing)
  BY DEF Alarm!Lines, Alarm!ToSet
<1>2. Len(flushing) \in Nat /\ Len(flushing) > 0 /\ DOMAIN flushing = 1 .. Len(flushing)
  OBVIOUS
<1>3. Alarm!Older \in Nat /\ Alarm!Older < Len(flushing)
  BY <1>2, AlarmNumbers DEF Alarm!Older
<1>4. /\ Alarm!Older + 1 \in DOMAIN flushing /\ Alarm!Older < Alarm!Older + 1
      /\ Alarm!Older + 1 <= Alarm!Older + n
  BY <1>2, <1>3, AlarmNumbers
<1> QED BY <1>1, <1>4 DEF Alarm!Lines

\* Reading, the digest's messages, the quiet hours.
LEMMA ChannelKeeps ==
    ASSUME AlarmInv,
           Alarm!MarkRead \/ Alarm!FlushBegins \/ Alarm!FlushEnds \/ Alarm!QuietChanges
    PROVE  AlarmInv'
<1>1. /\ UNCHANGED <<raised, queue, aInbox>> 
      /\ UNCHANGED <<opened, stage, acked, rows, sending, messages, now>>
  BY DEF Alarm!MarkRead, Alarm!FlushBegins, Alarm!FlushEnds, Alarm!QuietChanges, Alarm!esc, Alarm!notices
<1>2. StagesInv'
  BY <1>1, StagesStay DEF AlarmInv, StagesInv, StagesTyped
<1>3. CASE Alarm!MarkRead
  <2>1. /\ UNCHANGED <<digest, flushing, told, counted, dropped>>
        /\ \E s \in {{a} : a \in Alarm!ToSet(aInbox)} \cup {Alarm!ToSet(aInbox)} : seen' = seen \cup s
    BY <1>3 DEF Alarm!MarkRead, Alarm!channel
  <2>2. Alarm!ToSet(aInbox) \subseteq raised
    BY HoldsSubset DEF AlarmInv, NoticesInv
  <2>3. seen' \subseteq raised
    BY <2>1, <2>2 DEF AlarmInv, NoticesInv
  <2>4. NoticesInv'
    BY <1>1, <2>3 DEF AlarmInv, NoticesInv
  <2> QED BY <1>1, <1>2, <2>1, <2>4, DigestStays DEF AlarmInv
<1>4. CASE Alarm!FlushBegins \/ Alarm!FlushEnds \/ Alarm!QuietChanges
  <2>1. NoticesInv'
    <3>1. seen' = seen
      BY <1>4 DEF Alarm!FlushBegins, Alarm!FlushEnds, Alarm!QuietChanges, Alarm!notices
    <3> QED BY <1>1, <3>1, NoticesStay DEF AlarmInv
  <2>2. /\ digest \in Seq(Trade) /\ flushing \in Seq(Trade) /\ Len(digest) <= Fold
        /\ Once(digest) /\ Alarm!NothingSkipped
    BY DEF AlarmInv, DigestInv
  <2>3. Alarm!ToSet(<<>>) = {} /\ <<>> \in Seq(Trade) /\ Len(<<>>) <= Fold /\ Once(<<>>)
    BY AlarmNumbers DEF Alarm!ToSet, Once
  <2>4. CASE Alarm!FlushBegins
    <3>1. flushing = <<>> /\ flushing' = digest /\ digest' = <<>> /\ UNCHANGED <<told, counted, dropped>>
      BY <2>4 DEF Alarm!FlushBegins
    <3>2. /\ Alarm!ToSet(digest)' = {} /\ Alarm!ToSet(flushing)' = Alarm!ToSet(digest)
          /\ Alarm!ToSet(flushing) = {} /\ Once(digest)'
      BY <2>3, <3>1 DEF Alarm!ToSet, Once
    <3>3. Alarm!NothingSkipped'
      BY <1>1, <2>2, <3>1, <3>2 DEF Alarm!NothingSkipped
    <3>4. DigestInv'
      BY <2>2, <2>3, <3>1, <3>2, <3>3 DEF DigestInv
    <3> QED BY <1>2, <2>1, <3>4 DEF AlarmInv
  <2>5. CASE Alarm!FlushEnds
    <3>1. flushing' = <<>> /\ digest' = digest
      BY <2>5 DEF Alarm!FlushEnds
    <3>2. /\ Alarm!ToSet(digest)' = Alarm!ToSet(digest) /\ Alarm!ToSet(flushing)' = {} /\ Once(digest)'
      BY <2>2, <2>3, <3>1 DEF Alarm!ToSet, Once
    <3>3. Alarm!ToSet(flushing) \subseteq Trade
      BY <2>2, HoldsSubset
    <3>4. \/ told' = told /\ counted' = counted /\ dropped' = dropped \cup Alarm!ToSet(flushing)
          \/ \E n \in 1 .. Shown :
                told' = told \cup Alarm!Lines(n) /\ dropped' = dropped
                /\ counted' = counted \cup (Alarm!ToSet(flushing) \ Alarm!Lines(n))
      BY <2>5 DEF Alarm!FlushEnds
    <3>5. Alarm!NothingSkipped'
      <4>1. CASE told' = told /\ counted' = counted /\ dropped' = dropped \cup Alarm!ToSet(flushing)
        BY <1>1, <2>2, <3>2, <4>1 DEF Alarm!NothingSkipped
      <4>2. CASE ~(told' = told /\ counted' = counted /\ dropped' = dropped \cup Alarm!ToSet(flushing))
        <5>1. PICK n \in 1 .. Shown :
                told' = told \cup Alarm!Lines(n) /\ dropped' = dropped
                /\ counted' = counted \cup (Alarm!ToSet(flushing) \ Alarm!Lines(n))
          BY <3>4, <4>2
        <5>2. /\ Alarm!Lines(n) \subseteq Alarm!ToSet(flushing) /\ Alarm!Lines(n) # {}
          BY <2>2, <2>5, LinesAre DEF Alarm!FlushEnds
        <5> HIDE DEF Alarm!Lines
        <5> QED BY <1>1, <2>2, <3>2, <3>3, <5>1, <5>2 DEF Alarm!NothingSkipped
      <4> QED BY <4>1, <4>2
    <3>6. DigestInv'
      BY <2>2, <2>3, <3>1, <3>2, <3>5 DEF DigestInv
    <3> QED BY <1>2, <2>1, <3>6 DEF AlarmInv
  <2>6. CASE Alarm!QuietChanges
    <3>1. UNCHANGED <<digest, flushing, told, counted, dropped>>
      BY <2>6 DEF Alarm!QuietChanges, Alarm!channel
    <3> QED BY <1>1, <1>2, <2>1, <3>1, DigestStays DEF AlarmInv
  <2> QED BY <1>4, <2>4, <2>5, <2>6
<1> QED BY <1>3, <1>4

\* The instance counts as the library does.
LEMMA AlarmCount == ASSUME NEW S PROVE Alarm!Cardinality(S) = Cardinality(S)
BY Zenon DEF Cardinality, Alarm!Cardinality

\* A finite set as a sequence has its elements, each once.
LEMMA AlarmSequence ==
    ASSUME NEW S, IsFiniteSet(S)
    PROVE  /\ Alarm!SetToSeq(S) \in Seq(S)
           /\ \A i, j \in DOMAIN Alarm!SetToSeq(S) :
                Alarm!SetToSeq(S)[i] = Alarm!SetToSeq(S)[j] => i = j
<1>1. Cardinality(S) \in Nat /\ ExistsBijection(1 .. Cardinality(S), S)
  BY FS_CardinalityType
<1>2. PICK g \in [1 .. Cardinality(S) -> S] :
        \A a, b \in 1 .. Cardinality(S) : g[a] = g[b] => a = b
  BY <1>1 DEF ExistsBijection, Bijection, Injection, IsInjective
<1>3. Alarm!IsInjective(g)
  BY <1>2 DEF Alarm!IsInjective
<1>4. /\ Alarm!SetToSeq(S) \in [1 .. Cardinality(S) -> S]
      /\ Alarm!IsInjective(Alarm!SetToSeq(S))
  <2>1. \E f \in [1 .. Alarm!Cardinality(S) -> S] : Alarm!IsInjective(f)
    BY <1>2, <1>3, AlarmCount
  <2>2. /\ Alarm!SetToSeq(S) \in [1 .. Alarm!Cardinality(S) -> S]
        /\ Alarm!IsInjective(Alarm!SetToSeq(S))
    BY <2>1 DEF Alarm!SetToSeq
  <2> QED BY <2>2, AlarmCount
<1>5. \A i, j \in DOMAIN Alarm!SetToSeq(S) :
         Alarm!SetToSeq(S)[i] = Alarm!SetToSeq(S)[j] => i = j
  BY <1>4 DEF Alarm!IsInjective
<1> QED BY <1>1, <1>4, <1>5

\* The sends left, each of a stage that comes next, go on with the first of them.
LEMMA SendsKeep ==
    ASSUME StagesTyped, UNCHANGED <<opened, acked, raised, now>>,
           NEW q \in Seq(Due), Alarm!Sends(q),
           \A i \in DOMAIN q : \A e \in DOMAIN opened : q[i][1] = e => stage[e] < q[i][2],
           \A i, j \in DOMAIN q : q[i][1] = q[j][1] => i = j,
           messages' \in Seq(Due),
           \A i \in DOMAIN messages' : \A e \in DOMAIN opened :
             messages'[i][1] = e => messages'[i][2] <= stage[e],
           Alarm!StagesOnce'
    PROVE  StagesInv'
<1>0. Due' = Due /\ DOMAIN opened' = DOMAIN opened
  BY DEF Due, Stage, Alarm!Email, Alarm!Sms
<1>1. CASE q = <<>>
  <2>1. sending' = Alarm!NoMessage /\ rows' = <<>> /\ stage' = stage
    BY <1>1 DEF Alarm!Sends
  <2>2. rows' \in Seq(Due) /\ DOMAIN rows' = {}
    BY <2>1
  <2>3. StagesTyped'
    BY <1>0, <2>1, <2>2 DEF StagesTyped
  <2> QED BY <1>0, <2>1, <2>2, <2>3 DEF StagesInv, SentFit, SendingFit, RowsDue
<1>2. CASE q # <<>>
  <2>1. /\ sending' = Head(q) /\ rows' = Tail(q)
        /\ stage' = [stage EXCEPT ![Head(q)[1]] = Head(q)[2]]
    BY <1>2 DEF Alarm!Sends
  <2>2. /\ Head(q) \in Due /\ Head(q) = q[1] /\ 1 \in DOMAIN q /\ Tail(q) \in Seq(Due)
        /\ \A i \in DOMAIN Tail(q) : i + 1 \in DOMAIN q /\ Tail(q)[i] = q[i + 1] /\ i + 1 # 1 /\ i \in Nat
    <3>1. /\ Head(q) \in Due /\ Tail(q) \in Seq(Due) /\ Len(Tail(q)) = Len(q) - 1
          /\ \A i \in 1 .. Len(Tail(q)) : Tail(q)[i] = q[i + 1]
      BY <1>2, HeadTailProperties
    <3>2. Len(q) \in Nat /\ Len(q) > 0 /\ DOMAIN q = 1 .. Len(q) /\ Head(q) = q[1]
      BY <1>2
    <3>3. DOMAIN Tail(q) = 1 .. Len(q) - 1
      BY <3>1
    <3> QED BY <3>1, <3>2, <3>3
  <2>3. PICK e \in DOMAIN opened, s \in {1, 2} : Head(q) = <<e, s>>
    BY <2>2, AlarmNumbers DEF Due
  <2>4. /\ sending' # Alarm!NoMessage /\ sending'[1] = e /\ sending'[2] = s /\ stage[e] < s
    <3>1. sending' \in (DOMAIN opened) \X Stage
      BY <2>1, <2>2 DEF Due
    <3>2. sending' # Alarm!NoMessage
      BY <3>1, DueIs
    <3> QED BY <2>1, <2>2, <2>3, <3>2
  <2>5. /\ stage' \in [DOMAIN opened -> 0 .. Alarm!Sms] /\ stage'[e] = s
        /\ \A f \in DOMAIN opened : f # e => stage'[f] = stage[f]
    BY <2>1, <2>3, AlarmNumbers DEF StagesTyped
  <2>6. stage \in [DOMAIN opened -> 0 .. 2]
    BY AlarmNumbers DEF StagesTyped
  <2>7. StagesTyped'
    BY <1>0, <2>1, <2>2, <2>5 DEF StagesTyped
  <2>8. SentFit'
    <3> SUFFICES ASSUME NEW i \in DOMAIN messages', NEW f \in DOMAIN opened, messages'[i][1] = f
                 PROVE  messages'[i][2] <= stage'[f]
      BY <1>0 DEF SentFit
    <3>0. messages'[i] \in Due
      OBVIOUS
    <3>1. messages'[i][2] <= stage[f] /\ messages'[i] \in (DOMAIN opened) \X Stage
      BY <3>0 DEF Due
    <3>2. messages'[i][2] \in {1, 2} /\ stage[f] \in 0 .. 2
      BY <2>6, <3>1, DueIs
    <3>3. CASE f = e
      BY <2>4, <2>5, <3>1, <3>2, <3>3
    <3>4. CASE f # e
      BY <2>5, <3>1, <3>4
    <3> QED BY <3>3, <3>4
  <2>9. SendingFit'
    <3> SUFFICES ASSUME NEW f \in DOMAIN opened, sending'[1] = f
                 PROVE  /\ sending'[2] = stage'[f]
                        /\ \A i \in DOMAIN messages' : messages'[i][1] = f => messages'[i][2] < sending'[2]
      BY <1>0 DEF SendingFit
    <3>1. f = e
      BY <2>4
    <3>2. ASSUME NEW i \in DOMAIN messages', messages'[i][1] = f PROVE messages'[i][2] < sending'[2]
      <4>0. messages'[i] \in Due
        OBVIOUS
      <4>1. messages'[i][2] <= stage[f] /\ messages'[i] \in (DOMAIN opened) \X Stage
        BY <3>2, <4>0 DEF Due
      <4>2. messages'[i][2] \in {1, 2} /\ stage[f] \in 0 .. 2
        BY <2>6, <4>1, DueIs
      <4> QED BY <2>4, <3>1, <4>1, <4>2
    <3> QED BY <2>4, <2>5, <3>1, <3>2
  <2>10. RowsDue'
    <3>1. ASSUME NEW i \in DOMAIN rows', NEW f \in DOMAIN opened, rows'[i][1] = f
          PROVE  stage'[f] < rows'[i][2] /\ sending'[1] # f
      <4>1. i + 1 \in DOMAIN q /\ rows'[i] = q[i + 1] /\ i + 1 # 1
        BY <2>1, <2>2
      <4>2. f # e
        BY <2>2, <2>3, <3>1, <4>1
      <4> QED BY <2>4, <2>5, <3>1, <4>1, <4>2
    <3>2. ASSUME NEW i \in DOMAIN rows', NEW j \in DOMAIN rows', rows'[i][1] = rows'[j][1] PROVE i = j
      <4>1. i + 1 \in DOMAIN q /\ rows'[i] = q[i + 1] /\ j + 1 \in DOMAIN q /\ rows'[j] = q[j + 1]
            /\ i \in Nat /\ j \in Nat
        BY <2>1, <2>2
      <4>2. i + 1 = j + 1
        BY <3>2, <4>1
      <4> QED BY <4>1, <4>2
    <3> QED BY <1>0, <2>4, <3>1, <3>2 DEF RowsDue
  <2> QED BY <2>7, <2>8, <2>9, <2>10 DEF StagesInv
<1> QED BY <1>1, <1>2

LEMMA TickKeeps == ASSUME StagesInv, Alarm!TickBegins, raised' = raised PROVE StagesInv'
<1> DEFINE timely == {e \in Alarm!Open : Alarm!NextStage(e) # 0}
           S == {<<e, Alarm!NextStage(e)>> : e \in timely}
<1>1. /\ Alarm!Sends(Alarm!SetToSeq(S)) /\ UNCHANGED <<opened, acked, messages, now>>
  BY DEF Alarm!TickBegins
<1>2. StagesTyped
  BY DEF StagesInv
<1>3. ASSUME NEW e \in timely
      PROVE  e \in DOMAIN opened /\ Alarm!NextStage(e) \in {1, 2} /\ stage[e] < Alarm!NextStage(e)
  <2>1. e \in DOMAIN opened /\ stage[e] \in 0 .. 2
    BY <1>2, AlarmNumbers DEF Alarm!Open, StagesTyped
  <2>2. \/ Alarm!NextStage(e) = 1 /\ stage[e] < 1
        \/ Alarm!NextStage(e) = 2 /\ stage[e] < 2
    BY AlarmNumbers DEF Alarm!NextStage
  <2> QED BY <2>1, <2>2
<1>4. timely \subseteq DOMAIN opened /\ IsFiniteSet(timely)
  <2>1. timely \subseteq Critical
    BY <1>2, <1>3 DEF StagesTyped
  <2> QED BY <1>3, <2>1, AlarmNumbers, FS_Subset
<1>5. IsFiniteSet(S)
  <2> DEFINE f == [e \in timely |-> <<e, Alarm!NextStage(e)>>]
  <2>1. f \in Surjection(timely, S)
    BY DEF Surjection
  <2> QED BY <1>4, <2>1, FS_Surjection
<1>6. S \subseteq Due
  BY <1>3, AlarmNumbers DEF Due
<1>7. ASSUME NEW p \in S PROVE p[1] \in timely /\ p = <<p[1], Alarm!NextStage(p[1])>>
  OBVIOUS
<1> DEFINE q == Alarm!SetToSeq(S)
<1>8. q \in Seq(S) /\ \A i, j \in DOMAIN q : q[i] = q[j] => i = j
  BY <1>5, AlarmSequence
<1> HIDE DEF q, S, timely
<1>9. q \in Seq(Due)
  BY <1>6, <1>8, SeqMonotonic
<1>10. \A i \in DOMAIN q : q[i] \in S
  BY <1>8
<1>11. \A i \in DOMAIN q : \A e \in DOMAIN opened : q[i][1] = e => stage[e] < q[i][2]
  BY <1>3, <1>7, <1>10
<1>12. \A i, j \in DOMAIN q : q[i][1] = q[j][1] => i = j
  BY <1>7, <1>8, <1>10
<1>13. Alarm!Sends(q)
  BY <1>1 DEF q
<1>14. messages' \in Seq(Due) /\ Alarm!StagesOnce'
  BY <1>1 DEF StagesInv, StagesTyped, Alarm!StagesOnce
<1>15. \A i \in DOMAIN messages' : \A e \in DOMAIN opened : messages'[i][1] = e => messages'[i][2] <= stage[e]
  BY <1>1 DEF StagesInv, SentFit
<1> QED BY <1>1, <1>2, <1>9, <1>11, <1>12, <1>13, <1>14, <1>15, SendsKeep

LEMMA SentKeeps == ASSUME StagesInv, Alarm!StageSent, raised' = raised PROVE StagesInv'
<1>1. /\ sending # Alarm!NoMessage /\ messages' = Append(messages, sending) /\ Alarm!Sends(rows)
      /\ UNCHANGED <<opened, acked, now>>
  BY DEF Alarm!StageSent
<1>2. /\ StagesTyped /\ messages \in Seq(Due) /\ rows \in Seq(Due) /\ sending \in Due
  BY <1>1 DEF StagesInv, StagesTyped
<1>3. PICK e \in DOMAIN opened, s \in {1, 2} : sending = <<e, s>>
  BY <1>2, AlarmNumbers DEF Due
<1>4. s = stage[e] /\ \A i \in DOMAIN messages : messages[i][1] = e => messages[i][2] < s
  BY <1>1, <1>3 DEF StagesInv, SendingFit
<1>5. /\ messages' \in Seq(Due) /\ Len(messages') = Len(messages) + 1 /\ Len(messages) \in Nat
      /\ DOMAIN messages = 1 .. Len(messages) /\ DOMAIN messages' = 1 .. Len(messages) + 1
      /\ \A i \in DOMAIN messages : messages'[i] = messages[i]
      /\ messages'[Len(messages) + 1] = sending
  BY <1>1, <1>2, AppendProperties
<1>6. ASSUME NEW i \in DOMAIN messages', i \notin DOMAIN messages PROVE messages'[i] = <<e, s>> /\ i = Len(messages) + 1
  BY <1>3, <1>5, <1>6
<1>7. ASSUME NEW i \in DOMAIN messages', NEW f \in DOMAIN opened, messages'[i][1] = f
      PROVE  messages'[i][2] <= stage[f]
  <2>1. CASE i \in DOMAIN messages
    BY <1>5, <1>7, <2>1 DEF StagesInv, SentFit
  <2>2. CASE i \notin DOMAIN messages
    BY <1>3, <1>4, <1>6, <1>7, <2>2
  <2> QED BY <2>1, <2>2
<1>8. Alarm!StagesOnce'
  <2> SUFFICES ASSUME NEW i \in DOMAIN messages', NEW j \in DOMAIN messages', i < j,
                      messages'[i][1] = messages'[j][1]
               PROVE  messages'[i][2] < messages'[j][2]
    BY DEF Alarm!StagesOnce
  <2>1. i \in DOMAIN messages
    BY <1>5
  <2>2. CASE j \in DOMAIN messages
    BY <1>5, <2>1, <2>2 DEF StagesInv, Alarm!StagesOnce
  <2>3. CASE j \notin DOMAIN messages
    BY <1>4, <1>5, <1>6, <2>1, <2>3
  <2> QED BY <2>2, <2>3
<1>9. \A i \in DOMAIN rows : \A f \in DOMAIN opened : rows[i][1] = f => stage[f] < rows[i][2]
  BY DEF StagesInv, RowsDue
<1>10. \A i, j \in DOMAIN rows : rows[i][1] = rows[j][1] => i = j
  BY DEF StagesInv, RowsDue
<1> QED BY <1>1, <1>2, <1>5, <1>7, <1>8, <1>9, <1>10, SendsKeep

LEMMA RestartKeeps == ASSUME AlarmInv, Alarm!Restart PROVE AlarmInv'
<1>1. /\ queue' = <<>> /\ digest' = <<>> /\ flushing' = <<>>
      /\ dropped' = dropped \cup Alarm!ToSet(digest) \cup Alarm!ToSet(flushing)
      /\ rows' = <<>> /\ sending' = Alarm!NoMessage
      /\ UNCHANGED <<raised, aInbox, seen, told, counted, opened, stage, acked, messages, now>>
  BY DEF Alarm!Restart
<1>2. NoticesInv'
  BY <1>1 DEF AlarmInv, NoticesInv
<1>3. DigestInv'
  <2>1. Alarm!ToSet(<<>>) = {} /\ <<>> \in Seq(Trade) /\ Len(<<>>) <= Fold /\ Once(<<>>)
    BY AlarmNumbers DEF Alarm!ToSet, Once
  <2>2. Alarm!ToSet(digest)' = {} /\ Alarm!ToSet(flushing)' = {} /\ Once(digest)'
    BY <1>1, <2>1 DEF Alarm!ToSet, Once
  <2>3. Alarm!NothingSkipped'
    BY <1>1, <2>2 DEF AlarmInv, DigestInv, Alarm!NothingSkipped
  <2> QED BY <1>1, <2>1, <2>2, <2>3 DEF DigestInv
<1>4. StagesInv'
  <2>1. rows' \in Seq(Due) /\ DOMAIN rows' = {} /\ Due' = Due
    BY <1>1 DEF Due, Stage, Alarm!Email, Alarm!Sms
  <2>2. StagesTyped'
    BY <1>1, <2>1 DEF AlarmInv, StagesInv, StagesTyped
  <2> QED BY <1>1, <2>1, <2>2 DEF AlarmInv, StagesInv, SentFit, SendingFit, RowsDue, Alarm!StagesOnce
<1> QED BY <1>2, <1>3, <1>4 DEF AlarmInv

LEMMA AlarmStep == ASSUME AlarmInv, Alarm!Next PROVE AlarmInv'
<1>1. CASE Alarm!TickBegins \/ Alarm!StageSent
  <2>1. /\ UNCHANGED <<raised, queue, aInbox, seen>> /\ UNCHANGED <<digest, flushing, told, counted, dropped>>
    BY <1>1 DEF Alarm!TickBegins, Alarm!StageSent, Alarm!notices, Alarm!channel
  <2> QED BY <1>1, <2>1, NoticesStay, DigestStays, TickKeeps, SentKeeps DEF AlarmInv
<1>2. ASSUME NEW a \in Critical, Alarm!Acknowledge(a) PROVE AlarmInv'
  <2>1. /\ UNCHANGED <<raised, queue, aInbox, seen>> /\ UNCHANGED <<digest, flushing, told, counted, dropped>>
        /\ UNCHANGED <<opened, stage, rows, sending, messages, now>>
        /\ a \in DOMAIN opened /\ acked' = acked \cup {a}
    BY <1>2 DEF Alarm!Acknowledge, Alarm!notices, Alarm!channel, Alarm!Open
  <2> QED BY <2>1, NoticesStay, DigestStays, StagesStay DEF AlarmInv, StagesInv, StagesTyped
<1>3. CASE Alarm!Clock
  <2>1. /\ UNCHANGED <<raised, queue, aInbox, seen>> /\ UNCHANGED <<digest, flushing, told, counted, dropped>>
        /\ UNCHANGED <<opened, stage, acked, rows, sending, messages>>
        /\ now < MaxTime /\ now' = now + 1
    BY <1>3 DEF Alarm!Clock, Alarm!notices, Alarm!channel, Alarm!esc
  <2>2. now' \in 0 .. MaxTime
    BY <2>1, AlarmNumbers DEF AlarmInv, StagesInv, StagesTyped
  <2> QED BY <2>1, <2>2, NoticesStay, DigestStays, StagesStay DEF AlarmInv, StagesInv, StagesTyped
<1>4. ASSUME NEW s \in {Critical, Trade, Warn}, s \ raised # {}, Alarm!Begin(Alarm!Upcoming(s))
      PROVE  AlarmInv'
  <2>1. Alarm!Upcoming(s) \in s \ raised
    BY <1>4 DEF Alarm!Upcoming
  <2>2. s \subseteq Alarm!Alert
    BY <1>4 DEF Alarm!Alert
  <2> QED BY <1>4, <2>1, <2>2, BeginKeeps
<1> QED BY <1>1, <1>2, <1>3, <1>4, InboxKeeps, ChannelKeeps, RestartKeeps DEF Alarm!Next

\* What of this the module promises.
LEMMA AlarmSafe ==
    ASSUME AlarmInv PROVE Alarm!TypeOK /\ Alarm!StagesOnce /\ Alarm!NothingSkipped
<1>1. /\ Alarm!ToSet(queue) \subseteq raised /\ Alarm!ToSet(aInbox) \subseteq raised
      /\ Alarm!ToSet(digest) \subseteq Trade /\ Alarm!ToSet(flushing) \subseteq Trade
  BY HoldsSubset DEF AlarmInv, NoticesInv, DigestInv
<1>2. told \cup counted \cup dropped \subseteq raised
  BY DEF AlarmInv, DigestInv, Alarm!NothingSkipped
<1>3. sending = Alarm!NoMessage \/ sending \in (DOMAIN opened) \X {Alarm!Email, Alarm!Sms}
  BY DEF AlarmInv, StagesInv, StagesTyped, Due, Stage
<1>4. \A e \in DOMAIN opened : opened[e] \in 0 .. MaxTime /\ stage[e] \in 0 .. Alarm!Sms
  BY DEF AlarmInv, StagesInv, StagesTyped
<1>5. DOMAIN stage = DOMAIN opened /\ DOMAIN opened \subseteq Critical /\ acked \subseteq DOMAIN opened
  BY DEF AlarmInv, StagesInv, StagesTyped
<1> QED BY <1>1, <1>2, <1>3, <1>4, <1>5 DEF AlarmInv, NoticesInv, DigestInv, StagesInv, Alarm!TypeOK

-----------------------------------------------------------------------------
(* PlatformProgress: each behaviour is one part's.                         *)

ProgressInv ==
    /\ part \in Parts
    /\ part = "Discord" => DiscordInv
    /\ part = "Alarm" => AlarmInv
    /\ part = "Mailer" => MailInv
    /\ part = "Roll" => RollInv

LEMMA ProgressInit == ASSUME Init PROVE ProgressInv
BY DiscordInit, AlarmInit, MailInit, RollInit DEF Init, ProgressInv

LEMMA ProgressStep == ASSUME ProgressInv, [Next]_vars PROVE ProgressInv'
<1>1. CASE RunDiscord
  BY <1>1, DiscordStep DEF RunDiscord, ProgressInv
<1>2. CASE RunAlarm
  BY <1>2, AlarmStep DEF RunAlarm, ProgressInv
<1>3. CASE RunMailer
  BY <1>3, MailStep DEF RunMailer, ProgressInv
<1>4. CASE RunRoll
  BY <1>4, RollStep DEF RunRoll, ProgressInv
<1>5. CASE UNCHANGED vars
  BY <1>5, DiscordStutter, AlarmStutter, MailStutter, RollStutter DEF vars, ProgressInv
<1> QED BY <1>1, <1>2, <1>3, <1>4, <1>5 DEF Next

\* Each service keeps the invariant of its part: what was handed on was marked, every
\* stage message is behind its escalation, tries are within the retries, the map is
\* the user's.
THEOREM ProgressInvariant == Spec => []ProgressInv
BY ProgressInit, ProgressStep, PTL DEF Spec

\* Every part keeps the types of its module, the bounds on the inbox, the digest and
\* the tries of a mail among them (app/alerts.py, app/mailer.py).
THEOREM TypesCorrect == Spec => []TypeOK
<1>1. ASSUME ProgressInv PROVE TypeOK
  BY <1>1, DiscordSafe, AlarmSafe, MailSafe, RollSafe DEF ProgressInv, TypeOK
<1> QED BY <1>1, ProgressInvariant, PTL

\* One signal per content until it is forgotten, a stage message sent once and in order
\* whatever restarts, an alert told, counted, dropped or waiting and never two of these, a waiting mail keeps its attachment, and the symbol
\* map stays the user's.
THEOREM PlatformIsSafe == Spec => []PlatformSafe
<1>1. ASSUME ProgressInv PROVE PlatformSafe
  BY <1>1, DiscordSafe, AlarmSafe, MailSafe, RollSafe
     DEF ProgressInv, PlatformSafe, OncePerContent, StagesOnce, WaitingHasFile, MapIsUsers
<1> QED BY <1>1, ProgressInvariant, PTL
=============================================================================
