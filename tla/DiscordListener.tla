--------------------------- MODULE DiscordListener ---------------------------
(***************************************************************************)
(* The Discord signals of one workspace: the listener and its supervisor    *)
(* (discord_signals/listener.py), the pipeline that turns an embed into a   *)
(* signal (parser.py, pipeline.py, dispatcher.py) and the routes that       *)
(* change its configuration (routes.py, routers/users.py).                  *)
(*                                                                          *)
(* The gateway raises one event per post and per edit of a message; every   *)
(* event is handled by a task of its own, so events overtake each other.    *)
(***************************************************************************)
EXTENDS Integers, FiniteSets

CONSTANTS Message,
          MaxEvents, MaxSaves, MaxFaults

VARIABLES on, token,     \* settings discord_enabled, discord_user_token (0: none)
          watched,       \* the channel is enabled
          dry,           \* settings discord_dry_run
          target,        \* the webhook the channel points to is enabled
          entitled,      \* the area's feature discord_signals
          supervisor,    \* "check", "run", "backoff"
          client,        \* _current_token: the login the client runs with (0: none)
          closing,       \* client.close() was called
          posted,        \* content of every message, "none" before it is posted
          inbox,         \* events on their way: [n, msg, content]
          events,        \* events so far
          recent,        \* _recent: embeds already handled
          ready,         \* signals about to be dispatched: [n, msg, content, life]
          accepted,      \* history: the signals handed to the signal engine
          lives,         \* history: how often an embed was forgotten
          heard,         \* history: the login the listener last read that it should run (0: none)
          saves, faults

settings == <<on, token, watched, dry, target, entitled, heard>>
gateway  == <<posted, inbox, events>>
handled  == <<recent, ready, accepted, lives>>
vars == <<settings, supervisor, client, closing, gateway, handled, saves, faults>>

Token   == 1..2
Content == {"buy", "moved", "closed", "other"}
Embed   == Message \X Content

(* parse_embed by the title, then _webhook_action; "none" is recorded as
   unrecognised. *)
Action == [c \in Content |-> CASE c = "buy" -> "buy" [] c = "moved" -> "set_sl_tp"
                               [] c = "closed" -> "close_all" [] OTHER -> "none"]

(* The login a listener that reads these settings runs with. *)
Login(enabled, login) == IF enabled THEN login ELSE 0

Init ==
  /\ on \in BOOLEAN /\ token \in {0} \union Token /\ heard = Login(on, token)
  /\ watched = TRUE /\ dry = FALSE /\ target = TRUE /\ entitled = TRUE
  /\ supervisor = "check" /\ client = 0 /\ closing = FALSE
  /\ posted = [m \in Message |-> "none"] /\ inbox = {} /\ events = 0
  /\ recent = {} /\ ready = {} /\ accepted = {}
  /\ lives = [x \in Embed |-> 0]
  /\ saves = 0 /\ faults = 0

(***************************************************************************)
(* The configuration.  save_config stores it and calls apply_config, which  *)
(* closes the client when the listener is off or the token is another.      *)
(***************************************************************************)
CloseWhenOff(enabled, login) == closing \/ (client # 0 /\ (~enabled \/ login = 0))
ApplyConfig(enabled, login) ==
  closing \/ (client # 0 /\ (~enabled \/ login = 0 \/ login # client))

Save(enabled, login) ==
  /\ saves < MaxSaves
  /\ saves' = saves + 1
  /\ on' = enabled /\ token' = login
  /\ heard' = Login(enabled, login)
  /\ closing' = ApplyConfig(enabled, login)
  /\ UNCHANGED <<watched, dry, target, entitled, supervisor, client, gateway, handled, faults>>

(* The settings are put back to an earlier version, these two with them: nobody
   calls apply_config, and only a supervisor between two clients reads them. *)
RestoreSettings(enabled, login) ==
  /\ saves < MaxSaves
  /\ saves' = saves + 1
  /\ on' = enabled /\ token' = login
  /\ heard' = IF supervisor = "run" THEN heard ELSE Login(enabled, login)
  /\ UNCHANGED <<watched, dry, target, entitled, supervisor, client, closing, gateway,
                 handled, faults>>

(* The channel, the dry run and the webhook are read by each event. *)
Edit ==
  /\ saves < MaxSaves
  /\ saves' = saves + 1
  /\ \/ watched' = ~watched /\ UNCHANGED <<dry, target>>
     \/ dry' = ~dry /\ UNCHANGED <<watched, target>>
     \/ target' = ~target /\ UNCHANGED <<watched, dry>>
  /\ UNCHANGED <<on, token, heard, entitled, supervisor, client, closing, gateway, handled, faults>>

(* api_set_user_feature stores the flag and calls start(), which does nothing
   while the supervisor lives. *)
SetFeature ==
  /\ saves < MaxSaves
  /\ saves' = saves + 1
  /\ entitled' = ~entitled
  /\ UNCHANGED <<on, token, heard, watched, dry, target, supervisor, client, closing, gateway,
                 handled, faults>>

(***************************************************************************)
(* The supervisor: one pass of its loop up to the client's start, the end   *)
(* of the client, the back-off.                                             *)
(***************************************************************************)
Wanted == entitled /\ on /\ token # 0

Check ==
  /\ supervisor = "check"
  /\ Wanted
  /\ supervisor' = "run"
  /\ client' = token
  /\ UNCHANGED <<settings, closing, gateway, handled, saves, faults>>

(* start() returns when the client was closed, or raises on a hard failure;
   events it raised before are still handled. *)
ClientEnds ==
  /\ supervisor = "run"
  /\ closing \/ faults < MaxFaults
  /\ faults' = IF closing THEN faults ELSE faults + 1
  /\ client' = 0 /\ closing' = FALSE
  /\ supervisor' = "backoff" /\ heard' = Login(on, token)
  /\ UNCHANGED <<on, token, watched, dry, target, entitled, gateway, handled, saves>>

BackedOff ==
  /\ supervisor = "backoff"
  /\ supervisor' = "check"
  /\ UNCHANGED <<settings, client, closing, gateway, handled, saves, faults>>

(***************************************************************************)
(* Messages: posted once, then edited, perhaps with nothing new in them.    *)
(***************************************************************************)
Connected == client # 0 /\ ~closing

Publish(m, content) ==
  /\ events < MaxEvents
  /\ posted' = [posted EXCEPT ![m] = content]
  /\ events' = events + 1
  /\ inbox' = IF Connected THEN inbox \union {[n |-> events', msg |-> m, content |-> content]}
              ELSE inbox
  /\ UNCHANGED <<settings, supervisor, client, closing, handled, saves, faults>>

EmbedOf(e)   == <<e.msg, e.content>>
DuplicateOfMessage(e) == FALSE
Duplicate(e) == EmbedOf(e) \in recent

(* The channel is watched, the embed was not handled before. *)
New(e) == watched /\ ~Duplicate(e)

(* What process_embed hands to the dispatcher. *)
Signals(e) ==
  IF New(e) /\ Action[e.content] # "none" /\ ~dry
  THEN {[n |-> e.n, msg |-> e.msg, content |-> e.content, life |-> lives[EmbedOf(e)]]} ELSE {}

(* _handle_message up to the dispatch: no await, so the embed is marked and
   the settings are read in one step. *)
Handle(e) ==
  /\ e \in inbox
  /\ inbox' = inbox \ {e}
  /\ recent' = IF watched THEN recent \union {EmbedOf(e)} ELSE recent
  /\ ready' = ready \union Signals(e)
  /\ UNCHANGED <<settings, supervisor, client, closing, posted, events, accepted, lives, saves, faults>>

(* _dispatch_local: the webhook is looked up when its turn comes. *)
Dispatch(e) ==
  /\ e \in ready
  /\ ready' = ready \ {e}
  /\ accepted' = IF target THEN accepted \union {e} ELSE accepted
  /\ UNCHANGED <<settings, supervisor, client, closing, gateway, recent, lives, saves, faults>>

(* An hour after an embed was handled it counts as new. *)
Forget(x) ==
  /\ faults < MaxFaults
  /\ faults' = faults + 1
  /\ x \in recent
  /\ recent' = recent \ {x}
  /\ lives' = [lives EXCEPT ![x] = @ + 1]
  /\ UNCHANGED <<settings, supervisor, client, closing, gateway, ready, accepted, saves>>

(* A new process: nothing of the listener survives. *)
Restart ==
  /\ faults < MaxFaults
  /\ faults' = faults + 1
  /\ supervisor' = "check" /\ client' = 0 /\ closing' = FALSE
  /\ heard' = Login(on, token)
  /\ inbox' = {} /\ recent' = {} /\ ready' = {}
  /\ lives' = [x \in Embed |-> lives[x] + 1]
  /\ UNCHANGED <<on, token, watched, dry, target, entitled, posted, events, accepted, saves>>

Supervise == Check \/ ClientEnds \/ BackedOff

Next ==
  \/ \E enabled \in BOOLEAN, login \in {0} \union Token :
       Save(enabled, login) \/ RestoreSettings(enabled, login)
  \/ Edit \/ SetFeature
  \/ Supervise
  \/ \E m \in Message, c \in Content : Publish(m, c)
  \/ \E e \in inbox : Handle(e)
  \/ \E e \in ready : Dispatch(e)
  \/ \E x \in recent : Forget(x)
  \/ Restart

Spec     == Init /\ [][Next]_vars
FairSpec == Spec /\ WF_vars(Check) /\ WF_vars(BackedOff) /\ WF_vars(closing /\ ClientEnds)

-----------------------------------------------------------------------------
(* Every variable keeps its type; a client exists exactly while the
   supervisor runs one. *)
TypeOK ==
  /\ on \in BOOLEAN /\ token \in {0} \union Token
  /\ supervisor \in {"check", "run", "backoff"}
  /\ (client # 0) = (supervisor = "run")
  /\ closing => client # 0
  /\ heard \in {0} \union Token
  /\ \A e \in inbox \union ready \union accepted : e.msg \in Message /\ e.content \in Content

(* A message and its edits give one signal per content until the content is
   forgotten, an hour after it was handled or with the process: a post that is
   edited to attach a picture is not traded twice (listener._is_duplicate). *)
OncePerContent ==
  \A e, f \in accepted \union ready :
    EmbedOf(e) = EmbedOf(f) /\ e.life = f.life => e = f

(* The listener ends up running the login it heard of last, or none when what
   it heard is "off": from apply_config with every save of its own page, and
   from the settings themselves each time a client ends, whatever the
   supervisor was doing when they changed. *)
FollowsSettings ==
  /\ <>[](entitled /\ heard # 0 => client = heard)
  /\ <>[](heard = 0 => client = 0)

(* Not so: "Enabling/disabling the listener or changing the user token calls
   apply_config" (listener.py:17); a restore of the settings does not
   (routers/ops.py:109), and the client runs on. *)
FollowsRestores ==
  /\ <>[](Wanted => client = token)
  /\ <>[](~on \/ token = 0 => client = 0)

(* "the listener supervisor stays idle for their area regardless of their own
   settings, so the entitlement is enforced on the backend" (CHANGELOG.md,
   4.2.0): without the entitlement the listener ends up disconnected. *)
EntitlementHolds == <>[](~entitled => client = 0)
=============================================================================
