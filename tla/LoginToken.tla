----------------------------- MODULE LoginToken -----------------------------
(***************************************************************************)
(* A Tradovate login: the entry stored in the settings and the session     *)
(* objects that trade with it (tradovate.py, TradovateSession and          *)
(* SessionManager).  The session renews its token and hands the new one to *)
(* the history writer's thread to store; a discovery of the login's        *)
(* accounts writes the session's own copy of them back; the user pastes    *)
(* tokens and edits the accounts (routers/accounts.py); the health loop    *)
(* brings session and settings together (health.py).                       *)
(*                                                                         *)
(* A token is a number, the order in which it came to be; the accounts of  *)
(* an entry, with their switches and risk limits, are the number of the    *)
(* user's edit they come from.                                             *)
(***************************************************************************)
EXTENDS Naturals, Sequences, SequencesExt

CONSTANTS
    MaxTokens,     \* tokens renewed or pasted
    MaxEdits,      \* edits of the login's accounts
    MaxConnects,   \* discoveries of its accounts
    MaxForms,      \* saves of the login's form
    MaxCrashes     \* restarts of the process

MaxObjects == 1 + MaxEdits + MaxConnects + MaxForms + MaxCrashes
Object == 1 .. MaxObjects

VARIABLES
    cfg,          \* the stored entry: tok, acc
    cur,          \* the session object the manager holds
    sess,         \* its copies: tok, acc, and fp, the accounts of its fingerprint
    renewing,     \* objects with a renewal in flight
    listing,      \* objects that await the broker's account list
    form,         \* an edit of the login that awaits its gateway check: what it read
    writes,       \* renewed tokens the history writer has to store
    minted, edits, connects, forms, crashes

vars == <<cfg, cur, sess, renewing, listing, form, writes, minted, edits, connects, forms, crashes>>
budget == <<minted, edits, connects, forms, crashes>>

NoForm == [tok |-> -1, acc |-> -1]

TypeOK ==
    /\ cfg \in [tok : 0 .. MaxTokens, acc : 0 .. MaxEdits]
    /\ cur \in Object
    /\ sess \in [Object -> [tok : 0 .. MaxTokens, acc : 0 .. MaxEdits, fp : 0 .. MaxEdits]]
    /\ renewing \subseteq Object /\ listing \subseteq Object
    /\ form \in {NoForm} \cup [tok : 0 .. MaxTokens, acc : 0 .. MaxEdits]
    /\ writes \in Seq(1 .. MaxTokens) /\ Len(writes) <= MaxTokens
    /\ minted \in 0 .. MaxTokens /\ edits \in 0 .. MaxEdits
    /\ connects \in 0 .. MaxConnects /\ forms \in 0 .. MaxForms /\ crashes \in 0 .. MaxCrashes
    /\ (renewing \cup listing) \subseteq 1 .. cur

Built(entry) == [tok |-> entry.tok, acc |-> entry.acc, fp |-> entry.acc]

Init ==
    /\ cfg = [tok |-> 0, acc |-> 0]
    /\ cur = 1 /\ sess = [o \in Object |-> Built(cfg)]
    /\ renewing = {} /\ listing = {} /\ form = NoForm /\ writes = <<>>
    /\ minted = 0 /\ edits = 0 /\ connects = 0 /\ forms = 0 /\ crashes = 0
------------------------------------------------------------------------------
\* Fault: a login that changed keeps its session.
ReloadKeeps(entry) ==
    /\ sess' = [sess EXCEPT ![cur].tok = entry.tok]
    /\ UNCHANGED cur

\* SessionManager.reload: an unchanged login keeps its session, which adopts the
\* entry's token; a changed one is built anew from the entry.
Reload(entry) ==
    IF sess[cur].fp = entry.acc
      THEN /\ sess' = [sess EXCEPT ![cur].tok = entry.tok]
           /\ UNCHANGED cur
      ELSE /\ cur < MaxObjects
           /\ cur' = cur + 1
           /\ sess' = [sess EXCEPT ![cur + 1] = Built(entry)]

\* The health loop.
Health ==
    /\ Reload(cfg)
    /\ UNCHANGED <<cfg, renewing, listing, form, writes, budget>>

\* proactive_refresh, and _get_token of a request near the expiry: one renewal of
\* a session at a time.
Renew ==
    /\ minted < MaxTokens /\ cur \notin renewing
    /\ renewing' = renewing \cup {cur}
    /\ UNCHANGED <<cfg, cur, sess, listing, form, writes, budget>>

\* _store_token: the session uses it at once; the settings get it in the history
\* writer's thread.
Renewed(o) ==
    /\ o \in renewing
    /\ renewing' = renewing \ {o}
    /\ \/ UNCHANGED <<sess, writes, minted>>
       \/ /\ minted < MaxTokens
          /\ minted' = minted + 1
          /\ sess' = [sess EXCEPT ![o].tok = minted']
          /\ writes' = Append(writes, minted')
    /\ UNCHANGED <<cfg, cur, listing, form, edits, connects, forms, crashes>>

\* update_token_account: the fields it was handed, the others as they are stored.
WriteToken ==
    /\ writes # <<>>
    /\ cfg' = [cfg EXCEPT !.tok = Head(writes)]
    /\ writes' = Tail(writes)
    /\ UNCHANGED <<cur, sess, renewing, listing, form, budget>>

\* The user pastes a fresh token.
Paste ==
    /\ minted < MaxTokens
    /\ minted' = minted + 1
    /\ cfg' = [cfg EXCEPT !.tok = minted']
    /\ Reload(cfg')
    /\ UNCHANGED <<renewing, listing, form, writes, edits, connects, forms, crashes>>

\* The user switches an account or sets its risk limits.
EditAccounts ==
    /\ edits < MaxEdits
    /\ edits' = edits + 1
    /\ cfg' = [cfg EXCEPT !.acc = edits']
    /\ Reload(cfg')
    /\ UNCHANGED <<renewing, listing, form, writes, minted, connects, forms, crashes>>

\* The login form keeps the token (masked) and the accounts it read before it
\* awaited the check of a custom gateway.
OpenForm ==
    /\ form = NoForm /\ forms < MaxForms
    /\ form' = cfg /\ forms' = forms + 1
    /\ UNCHANGED <<cfg, cur, sess, renewing, listing, writes, minted, edits, connects, crashes>>

SaveForm ==
    /\ form # NoForm
    /\ cfg' = form /\ form' = NoForm
    /\ Reload(cfg')
    /\ UNCHANGED <<renewing, listing, writes, budget>>

\* Connect & Verify, with the list of accounts awaited.
Connect ==
    /\ connects < MaxConnects /\ cur \notin listing
    /\ connects' = connects + 1
    /\ listing' = listing \cup {cur}
    /\ UNCHANGED <<cfg, cur, sess, renewing, form, writes, minted, edits, forms, crashes>>

\* _merge_accounts keeps the switches of the session's own copy, which is stored.
Listed(o) ==
    /\ o \in listing
    /\ listing' = listing \ {o}
    /\ \/ UNCHANGED <<cfg, sess>>
       \/ /\ cfg' = [cfg EXCEPT !.acc = sess[o].acc]
          /\ sess' = [sess EXCEPT ![o].fp = cfg'.acc]
    /\ UNCHANGED <<cur, renewing, form, writes, budget>>

Restart ==
    /\ crashes < MaxCrashes /\ cur < MaxObjects
    /\ crashes' = crashes + 1
    /\ cur' = cur + 1 /\ sess' = [sess EXCEPT ![cur + 1] = Built(cfg)]
    /\ renewing' = {} /\ listing' = {} /\ form' = NoForm /\ writes' = <<>>
    /\ UNCHANGED <<cfg, minted, edits, connects, forms>>

Next ==
    \/ Health \/ Renew \/ WriteToken \/ Paste \/ EditAccounts
    \/ OpenForm \/ SaveForm \/ Connect \/ Restart
    \/ \E o \in Object : Renewed(o) \/ Listed(o)

Spec == Init /\ [][Next]_vars

\* The health loop and the writer's thread keep running, and every request of a
\* session is answered or given up.
FairSpec ==
    /\ Spec
    /\ WF_vars(Health) /\ WF_vars(WriteToken) /\ WF_vars(SaveForm)
    /\ \A o \in Object : WF_vars(Renewed(o)) /\ WF_vars(Listed(o))
------------------------------------------------------------------------------
(* Properties                                                              *)

\* However renewals, pastes, edits, discoveries and restarts interleave, the
\* session and the settings come to agree: on the token it trades with and on the
\* accounts that may trade.
Agreed ==
    <>[](sess[cur].tok = cfg.tok /\ sess[cur].acc = cfg.acc)

\* "per-account settings survive a re-discovery" (tradovate.py): the stored
\* switches and risk limits are those the user saved last.
SettingsSurvive == cfg.acc = edits
==============================================================================
