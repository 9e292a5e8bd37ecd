---------------------------- MODULE WindowSessions ----------------------------
(***************************************************************************)
(* Who is logged in, in which window, and under which key secrets are      *)
(* written: auth/functions/session.go, auth/handlers/auth_handler.go, the  *)
(* AuthContext of every window, DetachModule's offer of the session to the *)
(* window it opens, and the one session key of types.go.                   *)
(*                                                                         *)
(* A window detached from another claims a session of its own from the     *)
(* offer when it mounts.  Calls, their answers and the auth:changed event  *)
(* reach the windows independently, so a logout, a closing window and an   *)
(* expiry fall between any two steps of a login or a claim.                *)
(***************************************************************************)
EXTENDS Integers, FiniteSets

CONSTANTS
    Windows,  \* names of windows, never reused
    Main,     \* the main window, open from the start
    Users,
    Tokens,   \* random tokens, each issued once (bounds the runs)
    NoToken,
    NoUser,
    MaxClears \* clearSession calls outstanding when another is asked for (bounds the runs)

ASSUME MainAssumption == Main \in Windows
ASSUME NoneAssumption == NoToken \notin Tokens /\ NoUser \notin Users
ASSUME BoundAssumption == MaxClears \in Nat

VARIABLES
    owner,       \* the user each token was issued to, NoUser before
    valid,       \* the tokens in the manager's sessions
    offers,      \* windowOffers
    window,      \* the life of each window
    call,        \* the login or claim under way for each window
    held,        \* tokenRef of each window
    clears,      \* calls of clearSession on their way in each window
    sessionKey,  \* the user whose password gave the key of types.go
    secrets,     \* <<user, user whose key encrypts>> of the secrets written
    entitled,    \* users who logged in in a window or in its opener (history)
    leaving      \* what each window held at the last logout (history)

vars == <<owner, valid, offers, window, call, held, clears, sessionKey,
          secrets, entitled, leaving>>

NoCall == [pc |-> "none", token |-> NoToken, user |-> NoUser]

Calls == [pc : {"none", "key", "create", "claim", "check", "grant",
                "answer", "tell"},
          token : Tokens \cup {NoToken}, user : Users \cup {NoUser}]

Init ==
    /\ owner = [t \in Tokens |-> NoUser]
    /\ valid = {}
    /\ offers = [w \in Windows |-> NoToken]
    /\ window = [w \in Windows |-> IF w = Main THEN "open" ELSE "unborn"]
    /\ call = [w \in Windows |-> NoCall]
    /\ held = [w \in Windows |-> NoToken]
    /\ clears = [w \in Windows |-> 0]
    /\ sessionKey = NoUser
    /\ secrets = {}
    /\ entitled = [w \in Windows |-> {}]
    /\ leaving = [w \in Windows |-> NoToken]

-----------------------------------------------------------------------------
(***************************************************************************)
(* The manager of session.go.                                              *)
(***************************************************************************)

\* Create, whose token is the answer of the call.
Create(w, t, u) ==
    /\ owner[t] = NoUser
    /\ owner' = [owner EXCEPT ![t] = u]
    /\ valid' = valid \cup {t}
    /\ call' = [call EXCEPT ![w] = [pc |-> "answer", token |-> t, user |-> u]]

\* The time to live runs out: Validate or the garbage collector deletes the session.
Expire(t) ==
    /\ t \in valid
    /\ valid' = valid \ {t}
    /\ UNCHANGED <<owner, offers, window, call, held, clears, sessionKey,
                   secrets, entitled, leaving>>

-----------------------------------------------------------------------------
(***************************************************************************)
(* Login with the right password: the key first, then the session.         *)
(***************************************************************************)
BeginLogin(w, u) ==
    /\ window[w] = "open"
    /\ held[w] = NoToken
    /\ call[w] = NoCall
    /\ call' = [call EXCEPT ![w] = [NoCall EXCEPT !.pc = "key", !.user = u]]
    /\ entitled' = [entitled EXCEPT ![w] = @ \cup {u}]
    /\ UNCHANGED <<owner, valid, offers, window, held, clears, sessionKey,
                   secrets, leaving>>

SetSessionKey(w) ==
    /\ call[w].pc = "key"
    /\ sessionKey' = call[w].user
    /\ call' = [call EXCEPT ![w].pc = "create"]
    /\ UNCHANGED <<owner, valid, offers, window, held, clears, secrets,
                   entitled, leaving>>

LoginCreates(w, t) ==
    /\ call[w].pc = "create"
    /\ Create(w, t, call[w].user)
    /\ UNCHANGED <<offers, window, held, clears, sessionKey, secrets,
                   entitled, leaving>>

\* applySession: nothing tells whether a logout came first.
Answer(w) ==
    /\ call[w].pc = "answer"
    /\ held' = IF window[w] = "open" THEN [held EXCEPT ![w] = call[w].token] ELSE held
    /\ call' = [call EXCEPT ![w] = NoCall]
    /\ UNCHANGED <<owner, valid, offers, window, clears, sessionKey, secrets,
                   entitled, leaving>>

-----------------------------------------------------------------------------
(***************************************************************************)
(* A window opens with an offer and claims it (ClaimForWindow).            *)
(***************************************************************************)

\* OfferToWindow validates before it stores; the claim validates again.
Detach(w, n) ==
    /\ window[w] = "open"
    /\ held[w] \in valid
    /\ window[n] = "unborn"
    /\ offers' = [offers EXCEPT ![n] = held[w]]
    /\ window' = [window EXCEPT ![n] = "opening"]
    /\ entitled' = [entitled EXCEPT ![n] = {owner[held[w]]}]
    /\ UNCHANGED <<owner, valid, call, held, clears, sessionKey, secrets, leaving>>

\* AuthProvider mounts: it listens to auth:changed from now on.
Mount(n) ==
    /\ window[n] = "opening"
    /\ window' = [window EXCEPT ![n] = "open"]
    /\ call' = [call EXCEPT ![n] = [NoCall EXCEPT !.pc = "claim"]]
    /\ UNCHANGED <<owner, valid, offers, held, clears, sessionKey, secrets,
                   entitled, leaving>>

\* The offer is taken in one critical section and validated in another.
ClaimTakes(n) ==
    /\ call[n].pc = "claim"
    /\ offers' = [offers EXCEPT ![n] = NoToken]
    /\ call' = [call EXCEPT ![n] = IF offers[n] = NoToken THEN NoCall
                                   ELSE [NoCall EXCEPT !.pc = "check", !.token = offers[n]]]
    /\ UNCHANGED <<owner, valid, window, held, clears, sessionKey, secrets,
                   entitled, leaving>>

\* Mutant: the window is handed the very token it was offered.
ClaimAnswersOrigin(n) ==
    /\ call[n].pc = "check"
    /\ call' = [call EXCEPT ![n] =
                  IF call[n].token \in valid
                  THEN [call[n] EXCEPT !.pc = "answer"] ELSE NoCall]
    /\ UNCHANGED <<owner, valid, offers, window, held, clears, sessionKey,
                   secrets, entitled, leaving>>

ClaimChecks(n) ==
    /\ call[n].pc = "check"
    /\ call' = [call EXCEPT ![n] =
                  IF call[n].token \in valid
                  THEN [NoCall EXCEPT !.pc = "grant", !.user = owner[call[n].token]]
                  ELSE NoCall]
    /\ UNCHANGED <<owner, valid, offers, window, held, clears, sessionKey,
                   secrets, entitled, leaving>>

\* Mutant: the user of the offered session is not kept.
ClaimGrantsNobody(n, t) ==
    /\ call[n].pc = "grant"
    /\ Create(n, t, call[n].token)
    /\ UNCHANGED <<offers, window, held, clears, sessionKey, secrets,
                   entitled, leaving>>

\* Mutant: the session is created for whoever logged in last.
ClaimGrantsLast(n, t) ==
    /\ call[n].pc = "grant"
    /\ Create(n, t, sessionKey)
    /\ UNCHANGED <<offers, window, held, clears, sessionKey, secrets,
                   entitled, leaving>>

ClaimGrants(n, t) ==
    /\ call[n].pc = "grant"
    /\ Create(n, t, call[n].user)
    /\ UNCHANGED <<offers, window, held, clears, sessionKey, secrets,
                   entitled, leaving>>

\* The user cannot be read: the new session is destroyed.
ClaimFails(n, t) ==
    /\ call[n].pc = "grant"
    /\ owner[t] = NoUser
    /\ owner' = [owner EXCEPT ![t] = call[n].user]
    /\ call' = [call EXCEPT ![n] = NoCall]
    /\ UNCHANGED <<valid, offers, window, held, clears, sessionKey, secrets,
                   entitled, leaving>>

\* Mutant: closing a window leaves its offer.
CloseKeepingOffer(w) ==
    /\ w # Main
    /\ window[w] \in {"opening", "open"}
    /\ window' = [window EXCEPT ![w] = "closed"]
    /\ held' = [held EXCEPT ![w] = NoToken]
    /\ clears' = [clears EXCEPT ![w] = 0]
    /\ UNCHANGED <<owner, valid, offers, call, sessionKey, secrets, entitled, leaving>>

\* RevokeWindowOffer; a call under way goes on without its window.
CloseWindow(w) ==
    /\ w # Main
    /\ window[w] \in {"opening", "open"}
    /\ window' = [window EXCEPT ![w] = "closed"]
    /\ offers' = [offers EXCEPT ![w] = NoToken]
    /\ held' = [held EXCEPT ![w] = NoToken]
    /\ clears' = [clears EXCEPT ![w] = 0]
    /\ UNCHANGED <<owner, valid, call, sessionKey, secrets, entitled, leaving>>

-----------------------------------------------------------------------------
(***************************************************************************)
(* Logout destroys the session of the window that asks, then tells all.    *)
(* clearSession is called by the event, by the window that asked once its  *)
(* call returns, and by a ping that was refused; each forgets whatever     *)
(* session the window has by then.                                         *)
(***************************************************************************)
Quiet == \A w \in Windows : clears[w] < MaxClears

LogoutDestroys(w) ==
    /\ Quiet
    /\ window[w] = "open"
    /\ held[w] # NoToken
    /\ call[w] = NoCall
    /\ valid' = valid \ {held[w]}
    /\ call' = [call EXCEPT ![w].pc = "tell"]
    /\ UNCHANGED <<owner, offers, window, held, clears, sessionKey, secrets,
                   entitled, leaving>>

\* Mutant: only the main window is told.
TellMain(v) == IF v = Main THEN 1 ELSE 0

\* Broadcast reaches the windows that listen.
Broadcast(v) == IF window[v] = "open" THEN 1 ELSE 0

\* The finally of the logout that asked.
Returned(v, w) == IF v = w /\ window[w] = "open" THEN 1 ELSE 0

LogoutTells(w) ==
    /\ call[w].pc = "tell"
    /\ clears' = [v \in Windows |-> clears[v] + Broadcast(v) + Returned(v, w)]
    /\ call' = [call EXCEPT ![w] = NoCall]
    /\ leaving' = held
    /\ UNCHANGED <<owner, valid, offers, window, held, sessionKey, secrets, entitled>>

\* pingSession is told that the token is not valid any more.
PingRefused(w) ==
    /\ Quiet
    /\ held[w] \notin valid \cup {NoToken}
    /\ clears' = [clears EXCEPT ![w] = @ + 1]
    /\ UNCHANGED <<owner, valid, offers, window, call, held, sessionKey, secrets,
                   entitled, leaving>>

ClearSession(w) ==
    /\ clears[w] > 0
    /\ clears' = [clears EXCEPT ![w] = @ - 1]
    /\ held' = [held EXCEPT ![w] = NoToken]
    /\ UNCHANGED <<owner, valid, offers, window, call, sessionKey, secrets,
                   entitled, leaving>>

\* EncryptedString.Value takes the one key there is.
SaveSecret(w) ==
    /\ held[w] \in valid
    /\ secrets' = secrets \cup {<<owner[held[w]], sessionKey>>}
    /\ UNCHANGED <<owner, valid, offers, window, call, held, clears, sessionKey,
                   entitled, leaving>>

-----------------------------------------------------------------------------
WindowStep(w) ==
    \/ \E u \in Users : BeginLogin(w, u)
    \/ SetSessionKey(w)
    \/ \E t \in Tokens : LoginCreates(w, t) \/ ClaimGrants(w, t) \/ ClaimFails(w, t)
    \/ Answer(w)
    \/ \E n \in Windows : Detach(w, n)
    \/ Mount(w) \/ ClaimTakes(w) \/ ClaimChecks(w) \/ CloseWindow(w)
    \/ LogoutDestroys(w) \/ LogoutTells(w) \/ PingRefused(w) \/ ClearSession(w)
    \/ SaveSecret(w)

Next ==
    \/ \E w \in Windows : WindowStep(w)
    \/ \E t \in Tokens : Expire(t)

Spec == Init /\ [][Next]_vars

-----------------------------------------------------------------------------
(***************************************************************************)
(* Type invariant.                                                         *)
(***************************************************************************)
TypeOK ==
    /\ owner \in [Tokens -> Users \cup {NoUser}]
    /\ valid \subseteq Tokens
    /\ offers \in [Windows -> Tokens \cup {NoToken}]
    /\ window \in [Windows -> {"unborn", "opening", "open", "closed"}]
    /\ call \in [Windows -> Calls]
    /\ held \in [Windows -> Tokens \cup {NoToken}]
    /\ clears \in [Windows -> Nat]
    /\ sessionKey \in Users \cup {NoUser}
    /\ secrets \subseteq Users \X (Users \cup {NoUser})
    /\ entitled \in [Windows -> SUBSET Users]
    /\ leaving \in [Windows -> Tokens \cup {NoToken}]

(***************************************************************************)
(* README.md: a detached window reuses the session of the one it came      *)
(* from.  Whoever logs out and in between the detach and the claim, a      *)
(* window never acts for a user who neither typed the password in it nor   *)
(* was logged in in the window that opened it.                             *)
(***************************************************************************)
OnlyEntitledUsers ==
    \A w \in Windows : held[w] # NoToken => owner[held[w]] \in entitled[w]

(***************************************************************************)
(* Two windows never share a token: the logout of one, which destroys its  *)
(* own token only, cannot end the session of another by accident.          *)
(***************************************************************************)
WindowsShareNoToken ==
    \A v, w \in Windows : v # w /\ held[v] # NoToken => held[v] # held[w]

(***************************************************************************)
(* What a window held when somebody's logout was announced it holds no     *)
(* longer, or a clearSession is on its way to make it forget.              *)
(***************************************************************************)
LogoutReachesHolders ==
    \A w \in Windows : leaving[w] # NoToken /\ held[w] = leaving[w] => clears[w] > 0

(***************************************************************************)
(* An offer waits only for a window that may still claim it: neither a     *)
(* window that was closed before it mounted nor one that has claimed       *)
(* leaves a session lying in windowOffers.                                 *)
(***************************************************************************)
NoOfferOutlivesItsWindow ==
    \A w \in Windows : offers[w] # NoToken =>
        window[w] = "opening" \/ (window[w] = "open" /\ call[w].pc = "claim")

(***************************************************************************)
(* docs/privacy.html: passwords and credentials are encrypted with a key   *)
(* derived from the password of the user's own account.                    *)
(***************************************************************************)
SecretsUnderOwnKey == \A s \in secrets : s[1] = s[2]
=============================================================================
