------------------------- MODULE WindowSessionsProofs -------------------------
(***************************************************************************)
(* The safety of WindowSessions, for any windows, users and tokens.        *)
(*                                                                         *)
(* Every token in play was issued to a user entitled in the window that    *)
(* has it, holds it in a call, or is offered it; a token goes to one       *)
(* window only, because each is issued once and its answer goes to the     *)
(* window that asked; and a window that is not open has nothing.           *)
(***************************************************************************)
EXTENDS WindowSessions, TLAPS

\* An offer is for a window that its user may act in.
OffersEntitled ==
    \A w \in Windows : offers[w] # NoToken => owner[offers[w]] \in entitled[w]

\* So is what a login or a claim has come to know.
CallsEntitled ==
    \A w \in Windows :
        /\ call[w].pc \in {"key", "create", "grant"} => call[w].user \in entitled[w]
        /\ call[w].pc \in {"check", "answer"} =>
              call[w].token # NoToken /\ owner[call[w].token] \in entitled[w]

\* A window that is not open holds nothing; until it mounts it has no call.
OnlyOpenHolds ==
    \A w \in Windows :
        /\ window[w] # "open" => held[w] = NoToken
        /\ window[w] \in {"unborn", "opening"} => call[w] = NoCall

\* The answer under way is in no window yet, and in no other answer.
AnswersAreFresh ==
    \A v, w \in Windows : call[w].pc = "answer" =>
        /\ held[v] # call[w].token
        /\ leaving[v] # call[w].token
        /\ v # w /\ call[v].pc = "answer" => call[v].token # call[w].token

\* What was held at a logout was issued.
LeavingIsIssued ==
    \A w \in Windows : leaving[w] # NoToken => owner[leaving[w]] # NoUser

IInv ==
    /\ TypeOK
    /\ OnlyEntitledUsers
    /\ WindowsShareNoToken
    /\ LogoutReachesHolders
    /\ NoOfferOutlivesItsWindow
    /\ OffersEntitled
    /\ CallsEntitled
    /\ OnlyOpenHolds
    /\ AnswersAreFresh
    /\ LeavingIsIssued

-----------------------------------------------------------------------------
(***************************************************************************)
(* Every action preserves the invariant: the first step of each lemma is   *)
(* about types, the second about the conjuncts the action does not touch   *)
(* or preserves on its own, the others need more than themselves.          *)
(***************************************************************************)

LEMMA BeginLoginSafe ==
    ASSUME IInv, NEW w \in Windows, NEW u \in Users, BeginLogin(w, u)
    PROVE  IInv'
<1>1. TypeOK'
  <2>1. call' \in [Windows -> Calls]
    <3>1. [NoCall EXCEPT !.pc = "key", !.user = u] \in Calls
      BY DEF Calls, NoCall
    <3> QED
      BY <3>1 DEF IInv, TypeOK, BeginLogin
  <2> QED
    BY <2>1 DEF IInv, TypeOK, BeginLogin
<1>2. OnlyEntitledUsers' /\ WindowsShareNoToken' /\ LogoutReachesHolders'
      /\ OffersEntitled' /\ OnlyOpenHolds' /\ AnswersAreFresh'
      /\ LeavingIsIssued'
  BY DEF IInv, OnlyEntitledUsers, WindowsShareNoToken, LogoutReachesHolders,
     OffersEntitled, OnlyOpenHolds, AnswersAreFresh, LeavingIsIssued,
     BeginLogin
<1>3. NoOfferOutlivesItsWindow'
  BY DEF IInv, NoOfferOutlivesItsWindow, BeginLogin, NoCall
<1>4. CallsEntitled'
  BY DEF IInv, CallsEntitled, BeginLogin, TypeOK
<1> QED
  BY <1>1, <1>2, <1>3, <1>4 DEF IInv

LEMMA SetSessionKeySafe ==
    ASSUME IInv, NEW w \in Windows, SetSessionKey(w)
    PROVE  IInv'
<1>1. TypeOK'
  BY DEF IInv, TypeOK, SetSessionKey, CallsEntitled, Calls
<1>2. OnlyEntitledUsers' /\ WindowsShareNoToken' /\ LogoutReachesHolders'
      /\ NoOfferOutlivesItsWindow' /\ OffersEntitled' /\ CallsEntitled'
      /\ AnswersAreFresh' /\ LeavingIsIssued'
  BY DEF IInv, OnlyEntitledUsers, WindowsShareNoToken, LogoutReachesHolders,
     NoOfferOutlivesItsWindow, OffersEntitled, CallsEntitled, AnswersAreFresh,
     LeavingIsIssued, SetSessionKey
<1>3. OnlyOpenHolds'
  BY DEF IInv, OnlyOpenHolds, SetSessionKey, NoCall
<1> QED
  BY <1>1, <1>2, <1>3 DEF IInv

LEMMA LoginCreatesSafe ==
    ASSUME IInv, NEW w \in Windows, NEW t \in Tokens, LoginCreates(w, t)
    PROVE  IInv'
<1>1. TypeOK'
  BY DEF IInv, TypeOK, LoginCreates, Calls, Create
<1>2. WindowsShareNoToken' /\ LogoutReachesHolders'
      /\ NoOfferOutlivesItsWindow' /\ LeavingIsIssued'
  BY DEF IInv, WindowsShareNoToken, LogoutReachesHolders,
     NoOfferOutlivesItsWindow, LeavingIsIssued, LoginCreates, Create
<1>3. OnlyEntitledUsers'
  BY NoneAssumption DEF IInv, OnlyEntitledUsers, LoginCreates, TypeOK, Create
<1>4. OffersEntitled'
  BY NoneAssumption DEF IInv, OffersEntitled, LoginCreates, TypeOK, Create
<1>5. CallsEntitled'
  BY NoneAssumption DEF IInv, CallsEntitled, LoginCreates, TypeOK, Create
<1>6. OnlyOpenHolds'
  BY DEF IInv, OnlyOpenHolds, LoginCreates, NoCall, Create
<1>7. AnswersAreFresh'
  BY NoneAssumption DEF IInv, AnswersAreFresh, LoginCreates,
     OnlyEntitledUsers, CallsEntitled, LeavingIsIssued, TypeOK, Create
<1> QED
  BY <1>1, <1>2, <1>3, <1>4, <1>5, <1>6, <1>7 DEF IInv

LEMMA ClaimGrantsSafe ==
    ASSUME IInv, NEW w \in Windows, NEW t \in Tokens, ClaimGrants(w, t)
    PROVE  IInv'
<1>1. TypeOK'
  BY DEF IInv, TypeOK, ClaimGrants, Calls, Create
<1>2. WindowsShareNoToken' /\ LogoutReachesHolders'
      /\ NoOfferOutlivesItsWindow' /\ LeavingIsIssued'
  BY DEF IInv, WindowsShareNoToken, LogoutReachesHolders,
     NoOfferOutlivesItsWindow, LeavingIsIssued, ClaimGrants, Create
<1>3. OnlyEntitledUsers'
  BY NoneAssumption DEF IInv, OnlyEntitledUsers, ClaimGrants, TypeOK, Create
<1>4. OffersEntitled'
  BY NoneAssumption DEF IInv, OffersEntitled, ClaimGrants, TypeOK, Create
<1>5. CallsEntitled'
  BY NoneAssumption DEF IInv, CallsEntitled, ClaimGrants, TypeOK, Create
<1>6. OnlyOpenHolds'
  BY DEF IInv, OnlyOpenHolds, ClaimGrants, NoCall, Create
<1>7. AnswersAreFresh'
  BY NoneAssumption DEF IInv, AnswersAreFresh, ClaimGrants, OnlyEntitledUsers,
     CallsEntitled, LeavingIsIssued, TypeOK, Create
<1> QED
  BY <1>1, <1>2, <1>3, <1>4, <1>5, <1>6, <1>7 DEF IInv

LEMMA ClaimFailsSafe ==
    ASSUME IInv, NEW w \in Windows, NEW t \in Tokens, ClaimFails(w, t)
    PROVE  IInv'
<1>1. TypeOK'
  BY DEF IInv, TypeOK, ClaimFails, Calls, NoCall
<1>2. WindowsShareNoToken' /\ LogoutReachesHolders'
      /\ NoOfferOutlivesItsWindow' /\ OnlyOpenHolds' /\ LeavingIsIssued'
  BY DEF IInv, WindowsShareNoToken, LogoutReachesHolders,
     NoOfferOutlivesItsWindow, OnlyOpenHolds, LeavingIsIssued, ClaimFails
<1>3. OnlyEntitledUsers'
  BY NoneAssumption DEF IInv, OnlyEntitledUsers, ClaimFails, TypeOK
<1>4. OffersEntitled'
  BY NoneAssumption DEF IInv, OffersEntitled, ClaimFails, TypeOK
<1>5. CallsEntitled'
  BY NoneAssumption DEF IInv, CallsEntitled, ClaimFails, TypeOK, NoCall
<1>6. AnswersAreFresh'
  BY DEF IInv, AnswersAreFresh, ClaimFails, NoCall
<1> QED
  BY <1>1, <1>2, <1>3, <1>4, <1>5, <1>6 DEF IInv

LEMMA AnswerSafe ==
    ASSUME IInv, NEW w \in Windows, Answer(w)
    PROVE  IInv'
<1>1. TypeOK'
  BY DEF IInv, TypeOK, Answer, Calls, NoCall
<1>2. NoOfferOutlivesItsWindow' /\ OffersEntitled' /\ OnlyOpenHolds'
      /\ LeavingIsIssued'
  BY DEF IInv, NoOfferOutlivesItsWindow, OffersEntitled, OnlyOpenHolds,
     LeavingIsIssued, Answer
<1>3. OnlyEntitledUsers'
  BY DEF IInv, OnlyEntitledUsers, Answer, CallsEntitled
<1>4. WindowsShareNoToken'
  BY DEF IInv, WindowsShareNoToken, Answer, AnswersAreFresh
<1>5. LogoutReachesHolders'
  BY DEF IInv, LogoutReachesHolders, Answer, AnswersAreFresh
<1>6. CallsEntitled'
  BY DEF IInv, CallsEntitled, Answer, NoCall
<1>7. AnswersAreFresh'
  BY DEF IInv, AnswersAreFresh, Answer, TypeOK, NoCall
<1> QED
  BY <1>1, <1>2, <1>3, <1>4, <1>5, <1>6, <1>7 DEF IInv

LEMMA DetachSafe ==
    ASSUME IInv, NEW w \in Windows, NEW n \in Windows, Detach(w, n)
    PROVE  IInv'
<1>1. TypeOK'
  BY NoneAssumption DEF IInv, TypeOK, Detach, OnlyEntitledUsers
<1>2. WindowsShareNoToken' /\ LogoutReachesHolders' /\ OnlyOpenHolds'
      /\ AnswersAreFresh' /\ LeavingIsIssued'
  BY DEF IInv, WindowsShareNoToken, LogoutReachesHolders, OnlyOpenHolds,
     AnswersAreFresh, LeavingIsIssued, Detach
<1>3. OnlyEntitledUsers'
  BY DEF IInv, OnlyEntitledUsers, Detach, OnlyOpenHolds
<1>4. NoOfferOutlivesItsWindow'
  BY DEF IInv, NoOfferOutlivesItsWindow, Detach, TypeOK
<1>5. OffersEntitled'
  BY DEF IInv, OffersEntitled, Detach, TypeOK
<1>6. CallsEntitled'
  BY DEF IInv, CallsEntitled, Detach, OnlyOpenHolds, NoCall
<1> QED
  BY <1>1, <1>2, <1>3, <1>4, <1>5, <1>6 DEF IInv

LEMMA MountSafe ==
    ASSUME IInv, NEW w \in Windows, Mount(w)
    PROVE  IInv'
<1>1. TypeOK'
  BY DEF IInv, TypeOK, Mount, Calls, NoCall
<1>2. OnlyEntitledUsers' /\ WindowsShareNoToken' /\ LogoutReachesHolders'
      /\ OffersEntitled' /\ CallsEntitled' /\ AnswersAreFresh'
      /\ LeavingIsIssued'
  BY DEF IInv, OnlyEntitledUsers, WindowsShareNoToken, LogoutReachesHolders,
     OffersEntitled, CallsEntitled, AnswersAreFresh, LeavingIsIssued, Mount
<1>3. NoOfferOutlivesItsWindow'
  BY DEF IInv, NoOfferOutlivesItsWindow, Mount, TypeOK
<1>4. OnlyOpenHolds'
  BY DEF IInv, OnlyOpenHolds, Mount, TypeOK
<1> QED
  BY <1>1, <1>2, <1>3, <1>4 DEF IInv

LEMMA ClaimTakesSafe ==
    ASSUME IInv, NEW w \in Windows, ClaimTakes(w)
    PROVE  IInv'
<1>1. TypeOK'
  <2>1. call' \in [Windows -> Calls]
    <3>1. offers[w] # NoToken =>
            [NoCall EXCEPT !.pc = "check", !.token = offers[w]] \in Calls
      BY DEF IInv, TypeOK, Calls, NoCall, ClaimTakes
    <3>2. NoCall \in Calls
      BY DEF Calls, NoCall
    <3> QED
      BY <3>1, <3>2 DEF IInv, TypeOK, ClaimTakes
  <2> QED
    BY <2>1 DEF IInv, TypeOK, ClaimTakes
<1>2. OnlyEntitledUsers' /\ WindowsShareNoToken' /\ LogoutReachesHolders'
      /\ OffersEntitled' /\ LeavingIsIssued'
  BY DEF IInv, OnlyEntitledUsers, WindowsShareNoToken, LogoutReachesHolders,
     OffersEntitled, LeavingIsIssued, ClaimTakes
<1>3. NoOfferOutlivesItsWindow'
  BY DEF IInv, NoOfferOutlivesItsWindow, ClaimTakes, TypeOK
<1>4. CallsEntitled'
  BY DEF IInv, CallsEntitled, ClaimTakes, OffersEntitled, NoCall
<1>5. OnlyOpenHolds'
  BY DEF IInv, OnlyOpenHolds, ClaimTakes, NoCall
<1>6. AnswersAreFresh'
  BY DEF IInv, AnswersAreFresh, ClaimTakes, NoCall
<1> QED
  BY <1>1, <1>2, <1>3, <1>4, <1>5, <1>6 DEF IInv

LEMMA ClaimChecksSafe ==
    ASSUME IInv, NEW w \in Windows, ClaimChecks(w)
    PROVE  IInv'
<1>1. TypeOK'
  <2>1. call' \in [Windows -> Calls]
    <3>1. call[w].token \in valid =>
            [NoCall EXCEPT !.pc = "grant", !.user = owner[call[w].token]] \in Calls
      BY DEF IInv, TypeOK, Calls, NoCall, ClaimChecks
    <3>2. NoCall \in Calls
      BY DEF Calls, NoCall
    <3> QED
      BY <3>1, <3>2 DEF IInv, TypeOK, ClaimChecks
  <2> QED
    BY <2>1 DEF IInv, TypeOK, ClaimChecks
<1>2. OnlyEntitledUsers' /\ WindowsShareNoToken' /\ LogoutReachesHolders'
      /\ NoOfferOutlivesItsWindow' /\ OffersEntitled' /\ LeavingIsIssued'
  BY DEF IInv, OnlyEntitledUsers, WindowsShareNoToken, LogoutReachesHolders,
     NoOfferOutlivesItsWindow, OffersEntitled, LeavingIsIssued, ClaimChecks
<1>3. CallsEntitled'
  BY DEF IInv, CallsEntitled, ClaimChecks, NoCall
<1>4. OnlyOpenHolds'
  BY DEF IInv, OnlyOpenHolds, ClaimChecks, NoCall
<1>5. AnswersAreFresh'
  BY DEF IInv, AnswersAreFresh, ClaimChecks, NoCall
<1> QED
  BY <1>1, <1>2, <1>3, <1>4, <1>5 DEF IInv

LEMMA CloseWindowSafe ==
    ASSUME IInv, NEW w \in Windows, CloseWindow(w)
    PROVE  IInv'
<1>1. TypeOK'
  BY DEF IInv, TypeOK, CloseWindow
<1>2. OnlyEntitledUsers' /\ WindowsShareNoToken' /\ OffersEntitled'
      /\ CallsEntitled' /\ LeavingIsIssued'
  BY DEF IInv, OnlyEntitledUsers, WindowsShareNoToken, OffersEntitled,
     CallsEntitled, LeavingIsIssued, CloseWindow
<1>3. LogoutReachesHolders'
  BY DEF IInv, LogoutReachesHolders, CloseWindow, TypeOK
<1>4. NoOfferOutlivesItsWindow'
  BY DEF IInv, NoOfferOutlivesItsWindow, CloseWindow, TypeOK
<1>5. OnlyOpenHolds'
  BY DEF IInv, OnlyOpenHolds, CloseWindow, TypeOK
<1>6. AnswersAreFresh'
  BY DEF IInv, AnswersAreFresh, CloseWindow, CallsEntitled
<1> QED
  BY <1>1, <1>2, <1>3, <1>4, <1>5, <1>6 DEF IInv

LEMMA LogoutDestroysSafe ==
    ASSUME IInv, NEW w \in Windows, LogoutDestroys(w)
    PROVE  IInv'
<1>1. TypeOK'
  BY DEF IInv, TypeOK, LogoutDestroys, Calls
<1>2. OnlyEntitledUsers' /\ WindowsShareNoToken' /\ LogoutReachesHolders'
      /\ OffersEntitled' /\ CallsEntitled' /\ OnlyOpenHolds'
      /\ AnswersAreFresh' /\ LeavingIsIssued'
  BY DEF IInv, OnlyEntitledUsers, WindowsShareNoToken, LogoutReachesHolders,
     OffersEntitled, CallsEntitled, OnlyOpenHolds, AnswersAreFresh,
     LeavingIsIssued, LogoutDestroys
<1>3. NoOfferOutlivesItsWindow'
  BY DEF IInv, NoOfferOutlivesItsWindow, LogoutDestroys, NoCall
<1> QED
  BY <1>1, <1>2, <1>3 DEF IInv

LEMMA LogoutTellsSafe ==
    ASSUME IInv, NEW w \in Windows, LogoutTells(w)
    PROVE  IInv'
<1>1. TypeOK'
  BY DEF IInv, TypeOK, LogoutTells, Calls, NoCall, Broadcast, Returned
<1>2. OnlyEntitledUsers' /\ WindowsShareNoToken'
      /\ NoOfferOutlivesItsWindow' /\ OffersEntitled' /\ OnlyOpenHolds'
  BY DEF IInv, OnlyEntitledUsers, WindowsShareNoToken,
     NoOfferOutlivesItsWindow, OffersEntitled, OnlyOpenHolds, LogoutTells
<1>3. LogoutReachesHolders'
  BY DEF IInv, LogoutReachesHolders, LogoutTells, OnlyOpenHolds, TypeOK,
     Broadcast, Returned
<1>4. CallsEntitled'
  BY DEF IInv, CallsEntitled, LogoutTells, NoCall
<1>5. AnswersAreFresh'
  BY DEF IInv, AnswersAreFresh, LogoutTells, NoCall
<1>6. LeavingIsIssued'
  BY NoneAssumption DEF IInv, LeavingIsIssued, LogoutTells, OnlyEntitledUsers,
     TypeOK
<1> QED
  BY <1>1, <1>2, <1>3, <1>4, <1>5, <1>6 DEF IInv

LEMMA PingRefusedSafe ==
    ASSUME IInv, NEW w \in Windows, PingRefused(w)
    PROVE  IInv'
<1>1. TypeOK'
  BY DEF IInv, TypeOK, PingRefused
<1>2. OnlyEntitledUsers' /\ WindowsShareNoToken'
      /\ NoOfferOutlivesItsWindow' /\ OffersEntitled' /\ CallsEntitled'
      /\ OnlyOpenHolds' /\ AnswersAreFresh' /\ LeavingIsIssued'
  BY DEF IInv, OnlyEntitledUsers, WindowsShareNoToken,
     NoOfferOutlivesItsWindow, OffersEntitled, CallsEntitled, OnlyOpenHolds,
     AnswersAreFresh, LeavingIsIssued, PingRefused
<1>3. LogoutReachesHolders'
  BY DEF IInv, LogoutReachesHolders, PingRefused, TypeOK
<1> QED
  BY <1>1, <1>2, <1>3 DEF IInv

LEMMA ClearSessionSafe ==
    ASSUME IInv, NEW w \in Windows, ClearSession(w)
    PROVE  IInv'
<1>1. TypeOK'
  BY DEF IInv, TypeOK, ClearSession
<1>2. OnlyEntitledUsers' /\ WindowsShareNoToken'
      /\ NoOfferOutlivesItsWindow' /\ OffersEntitled' /\ CallsEntitled'
      /\ OnlyOpenHolds' /\ LeavingIsIssued'
  BY DEF IInv, OnlyEntitledUsers, WindowsShareNoToken,
     NoOfferOutlivesItsWindow, OffersEntitled, CallsEntitled, OnlyOpenHolds,
     LeavingIsIssued, ClearSession
<1>3. LogoutReachesHolders'
  BY DEF IInv, LogoutReachesHolders, ClearSession, TypeOK
<1>4. AnswersAreFresh'
  BY DEF IInv, AnswersAreFresh, ClearSession, CallsEntitled
<1> QED
  BY <1>1, <1>2, <1>3, <1>4 DEF IInv

LEMMA SaveSecretSafe ==
    ASSUME IInv, NEW w \in Windows, SaveSecret(w)
    PROVE  IInv'
<1>1. TypeOK'
  BY NoneAssumption DEF IInv, TypeOK, SaveSecret, OnlyEntitledUsers
<1>2. OnlyEntitledUsers' /\ WindowsShareNoToken' /\ LogoutReachesHolders'
      /\ NoOfferOutlivesItsWindow' /\ OffersEntitled' /\ CallsEntitled'
      /\ OnlyOpenHolds' /\ AnswersAreFresh' /\ LeavingIsIssued'
  BY DEF IInv, OnlyEntitledUsers, WindowsShareNoToken, LogoutReachesHolders,
     NoOfferOutlivesItsWindow, OffersEntitled, CallsEntitled, OnlyOpenHolds,
     AnswersAreFresh, LeavingIsIssued, SaveSecret
<1> QED
  BY <1>1, <1>2 DEF IInv

LEMMA ExpireSafe ==
    ASSUME IInv, NEW t \in Tokens, Expire(t)
    PROVE  IInv'
<1>1. TypeOK'
  BY DEF IInv, TypeOK, Expire
<1>2. OnlyEntitledUsers' /\ WindowsShareNoToken' /\ LogoutReachesHolders'
      /\ NoOfferOutlivesItsWindow' /\ OffersEntitled' /\ CallsEntitled'
      /\ OnlyOpenHolds' /\ AnswersAreFresh' /\ LeavingIsIssued'
  BY DEF IInv, OnlyEntitledUsers, WindowsShareNoToken, LogoutReachesHolders,
     NoOfferOutlivesItsWindow, OffersEntitled, CallsEntitled, OnlyOpenHolds,
     AnswersAreFresh, LeavingIsIssued, Expire
<1> QED
  BY <1>1, <1>2 DEF IInv

LEMMA InitSafe == Init => IInv
<1> SUFFICES ASSUME Init PROVE IInv
  OBVIOUS
<1>1. TypeOK
  BY DEF Init, TypeOK, Calls, NoCall
<1>2. OnlyEntitledUsers /\ WindowsShareNoToken /\ LogoutReachesHolders
  BY DEF Init, OnlyEntitledUsers, WindowsShareNoToken, LogoutReachesHolders
<1>3. NoOfferOutlivesItsWindow /\ OffersEntitled
  BY DEF Init, NoOfferOutlivesItsWindow, OffersEntitled
<1>4. CallsEntitled /\ OnlyOpenHolds /\ AnswersAreFresh /\ LeavingIsIssued
  BY DEF Init, NoCall, CallsEntitled, OnlyOpenHolds, AnswersAreFresh, LeavingIsIssued
<1> QED
  BY <1>1, <1>2, <1>3, <1>4 DEF IInv

LEMMA NextSafe == IInv /\ [Next]_vars => IInv'
<1> SUFFICES ASSUME IInv, [Next]_vars PROVE IInv'
  OBVIOUS
<1>1. ASSUME NEW w \in Windows, WindowStep(w) PROVE IInv'
  BY <1>1, BeginLoginSafe, SetSessionKeySafe, LoginCreatesSafe, ClaimGrantsSafe,
     ClaimFailsSafe, AnswerSafe, DetachSafe, MountSafe, ClaimTakesSafe,
     ClaimChecksSafe, CloseWindowSafe, LogoutDestroysSafe, LogoutTellsSafe,
     PingRefusedSafe, ClearSessionSafe, SaveSecretSafe DEF WindowStep
<1>2. ASSUME NEW t \in Tokens, Expire(t) PROVE IInv'
  BY <1>2, ExpireSafe
<1>3. CASE UNCHANGED vars
  BY <1>3 DEF vars, IInv, TypeOK, OnlyEntitledUsers, WindowsShareNoToken,
              LogoutReachesHolders, NoOfferOutlivesItsWindow, OffersEntitled,
              CallsEntitled, OnlyOpenHolds, AnswersAreFresh, LeavingIsIssued
<1> QED
  BY <1>1, <1>2, <1>3 DEF Next

-----------------------------------------------------------------------------
(***************************************************************************)
(* The inductive invariant: in every reachable state, however logins,      *)
(* claims, logouts, expiries and closing windows interleave, tokens are    *)
(* where their users may act and in one place each.                        *)
(***************************************************************************)
THEOREM Invariant == Spec => []IInv
BY InitSafe, NextSafe, PTL DEF Spec

(***************************************************************************)
(* Every reachable state is well typed: in particular no session is ever   *)
(* created for, or a window opened by, a user who does not exist.          *)
(***************************************************************************)
THEOREM TypeCorrect == Spec => []TypeOK
BY Invariant, PTL DEF IInv

(***************************************************************************)
(* A window never acts for a user who neither logged in in it nor was      *)
(* logged in in the window that opened it.                                 *)
(***************************************************************************)
THEOREM OnlyEntitled == Spec => []OnlyEntitledUsers
BY Invariant, PTL DEF IInv

(***************************************************************************)
(* No two windows ever hold one token, so that the logout of one does not  *)
(* destroy the session of the other.                                       *)
(***************************************************************************)
THEOREM TokensAreNotShared == Spec => []WindowsShareNoToken
BY Invariant, PTL DEF IInv

(***************************************************************************)
(* A window that still holds what it held at a logout is going to be told. *)
(***************************************************************************)
THEOREM LogoutsReach == Spec => []LogoutReachesHolders
BY Invariant, PTL DEF IInv

(***************************************************************************)
(* An offer is there only for a window that may still claim it.            *)
(***************************************************************************)
THEOREM OffersAreClaimable == Spec => []NoOfferOutlivesItsWindow
BY Invariant, PTL DEF IInv

-----------------------------------------------------------------------------
(***************************************************************************)
(* One user at a time.  SecretsUnderOwnKey fails when a user logs in while *)
(* another is logged in, or about to be, in some window.  If nobody does,  *)
(* whoever is logged in is the one whose key types.go has, through every   *)
(* detach and claim, however late, and after every logout and expiry.      *)
(***************************************************************************)
LogsInAlone ==
    \A w \in Windows : call'[w].pc = "key" /\ call'[w] # call[w] =>
        /\ \A t \in valid : owner[t] = call'[w].user
        /\ \A v \in Windows : call[v].user \in {NoUser, call'[w].user}

OneByOneSpec == Init /\ [][Next /\ LogsInAlone]_vars

\* u is the user of all that is valid or under way, and has the key, but for
\* a login that has not set it yet.
BelongTo(u) ==
    /\ \A t \in valid : owner[t] = u /\ sessionKey = u
    /\ \A w \in Windows : call[w].user # NoUser =>
         call[w].user = u /\ (call[w].pc # "key" => sessionKey = u)

OneInv ==
    /\ IInv /\ SecretsUnderOwnKey
    /\ \A t \in valid : owner[t] # NoUser
    /\ \E u : BelongTo(u)

LEMMA InitOne == Init => OneInv
<1> SUFFICES ASSUME Init PROVE OneInv
  OBVIOUS
<1>1. BelongTo(NoUser)
  BY DEF Init, BelongTo, NoCall
<1> QED
  BY <1>1, InitSafe DEF Init, OneInv, SecretsUnderOwnKey

\* What is known of a login or a claim has a user.
LEMMA KnownUser ==
    ASSUME IInv, NEW w \in Windows, call[w].pc \in {"key", "create", "grant"}
    PROVE  call[w].user \in Users /\ call[w].user # NoUser
BY NoneAssumption DEF IInv, TypeOK, CallsEntitled

\* A session that is created belongs to whom the call is of.
LEMMA CreatedBelongs ==
    ASSUME IInv, NEW u, BelongTo(u), \A t \in valid : owner[t] # NoUser,
           NEW w \in Windows, call[w].pc \in {"create", "grant"}, NEW t \in Tokens,
           Create(w, t, call[w].user), sessionKey' = sessionKey
    PROVE  BelongTo(u)' /\ \A k \in valid' : owner'[k] # NoUser
<1>1. call[w].user = u /\ sessionKey = u /\ u # NoUser
  BY KnownUser DEF BelongTo
<1>2. /\ owner' = [owner EXCEPT ![t] = u] /\ valid' = valid \cup {t}
      /\ call' = [call EXCEPT ![w] = [pc |-> "answer", token |-> t, user |-> u]]
  BY <1>1 DEF Create
<1>3. \A k \in valid' : owner'[k] = u
  BY <1>2 DEF IInv, TypeOK, BelongTo
<1>4. \A v \in Windows : IF v = w THEN call'[v].user = u ELSE call'[v] = call[v]
  BY <1>2 DEF IInv, TypeOK
<1> QED
  BY <1>1, <1>3, <1>4 DEF BelongTo

LEMMA StepOne ==
    ASSUME OneInv, NEW w \in Windows, WindowStep(w), LogsInAlone
    PROVE  SecretsUnderOwnKey' /\ (\A t \in valid' : owner'[t] # NoUser) /\ \E u : BelongTo(u)'
<1>0. IInv /\ TypeOK /\ SecretsUnderOwnKey /\ \A t \in valid : owner[t] # NoUser
  BY DEF OneInv, IInv
<1>u. PICK u : BelongTo(u)
  BY DEF OneInv
\* The calls are only answered, dropped or asked.
<1> DEFINE Fewer == \A v \in Windows : call'[v] = call[v] \/ call'[v].user = NoUser
<1>1. ASSUME Fewer, secrets' = secrets, owner' = owner, sessionKey' = sessionKey, valid' \subseteq valid
      PROVE  SecretsUnderOwnKey' /\ (\A t \in valid' : owner'[t] # NoUser) /\ BelongTo(u)'
  BY <1>0, <1>u, <1>1 DEF BelongTo, SecretsUnderOwnKey
<1>2. ASSUME NEW x \in Users, BeginLogin(w, x)
      PROVE  SecretsUnderOwnKey' /\ (\A t \in valid' : owner'[t] # NoUser) /\ BelongTo(x)'
  <2>1. call' = [call EXCEPT ![w] = [NoCall EXCEPT !.pc = "key", !.user = x]] /\ call[w] = NoCall
        /\ UNCHANGED <<owner, valid, sessionKey, secrets>>
    BY <1>2 DEF BeginLogin
  <2>2. \A v \in Windows : IF v = w THEN call'[v].pc = "key" /\ call'[v].user = x ELSE call'[v] = call[v]
    BY <1>0, <2>1 DEF TypeOK, NoCall
  <2>3. (\A t \in valid : owner[t] = x) /\ \A v \in Windows : call[v].user \in {NoUser, x}
    <3>1. call'[w].pc = "key" /\ call'[w].user = x /\ call[w].pc = "none"
      BY <2>1, <2>2 DEF NoCall
    <3>2. call'[w] # call[w]
      BY <3>1
    <3> QED
      BY <3>1, <3>2 DEF LogsInAlone
  <2>4. BelongTo(x)'
    BY <1>0, <1>u, <2>1, <2>2, <2>3 DEF BelongTo
  <2> QED
    BY <1>0, <2>1, <2>4 DEF SecretsUnderOwnKey
<1>3. ASSUME SetSessionKey(w)
      PROVE  SecretsUnderOwnKey' /\ (\A t \in valid' : owner'[t] # NoUser) /\ BelongTo(u)'
  <2>1. call[w].user = u
    BY <1>0, <1>u, <1>3, KnownUser DEF SetSessionKey, BelongTo
  <2>2. sessionKey' = u /\ call' = [call EXCEPT ![w].pc = "create"] /\ UNCHANGED <<owner, valid, secrets>>
    BY <1>3, <2>1 DEF SetSessionKey
  <2>3. \A v \in Windows : call'[v].user = call[v].user
    BY <1>0, <2>2 DEF TypeOK, Calls
  <2> QED
    BY <1>0, <1>u, <2>2, <2>3 DEF BelongTo, SecretsUnderOwnKey
<1>4. ASSUME NEW t \in Tokens, LoginCreates(w, t) \/ ClaimGrants(w, t)
      PROVE  SecretsUnderOwnKey' /\ (\A k \in valid' : owner'[k] # NoUser) /\ BelongTo(u)'
  <2>1. Create(w, t, call[w].user) /\ call[w].pc \in {"create", "grant"} /\ sessionKey' = sessionKey /\ secrets' = secrets
    BY <1>4 DEF LoginCreates, ClaimGrants
  <2> QED
    BY <1>0, <1>u, <2>1, CreatedBelongs DEF SecretsUnderOwnKey
<1>5. ASSUME NEW t \in Tokens, ClaimFails(w, t)
      PROVE  SecretsUnderOwnKey' /\ (\A k \in valid' : owner'[k] # NoUser) /\ BelongTo(u)'
  <2>1. /\ owner[t] = NoUser /\ owner' = [owner EXCEPT ![t] = call[w].user]
        /\ call' = [call EXCEPT ![w] = NoCall] /\ UNCHANGED <<valid, sessionKey, secrets>>
    BY <1>5 DEF ClaimFails
  <2>2. \A k \in valid : owner'[k] = owner[k]
    BY <1>0, <2>1 DEF TypeOK
  <2>3. Fewer
    BY <1>0, <2>1 DEF TypeOK, NoCall
  <2> QED
    BY <1>0, <1>u, <2>1, <2>2, <2>3 DEF BelongTo, SecretsUnderOwnKey
<1>6. ASSUME ClaimChecks(w)
      PROVE  SecretsUnderOwnKey' /\ (\A t \in valid' : owner'[t] # NoUser) /\ BelongTo(u)'
  <2>1. UNCHANGED <<owner, valid, sessionKey, secrets>>
    BY <1>6 DEF ClaimChecks
  <2>2. CASE call[w].token \in valid
    <3>1. owner[call[w].token] = u /\ sessionKey = u
      BY <1>u, <2>2 DEF BelongTo
    <3>2. \A v \in Windows : IF v = w THEN call'[v].user = u ELSE call'[v] = call[v]
      BY <1>0, <1>6, <2>2, <3>1 DEF ClaimChecks, TypeOK, NoCall
    <3> QED
      BY <1>0, <1>u, <2>1, <3>1, <3>2 DEF BelongTo, SecretsUnderOwnKey
  <2>3. CASE call[w].token \notin valid
    <3>1. Fewer
      BY <1>0, <1>6, <2>3 DEF ClaimChecks, TypeOK, NoCall
    <3> QED
      BY <1>1, <2>1, <3>1
  <2> QED
    BY <2>2, <2>3
<1>7. CASE SaveSecret(w)
  <2>1. /\ held[w] \in valid /\ secrets' = secrets \cup {<<owner[held[w]], sessionKey>>}
        /\ UNCHANGED <<owner, valid, call, sessionKey>>
    BY <1>7 DEF SaveSecret
  <2>2. owner[held[w]] = sessionKey
    BY <1>u, <2>1 DEF BelongTo
  <2>3. SecretsUnderOwnKey'
    BY <1>0, <2>1, <2>2 DEF SecretsUnderOwnKey
  <2>4. BelongTo(u)'
    BY <1>u, <2>1 DEF BelongTo
  <2> QED
    BY <1>0, <2>1, <2>3, <2>4
<1>8. CASE Answer(w) \/ Mount(w) \/ ClaimTakes(w) \/ LogoutTells(w)
  <2>1. call \in [Windows -> Calls]
    BY <1>0 DEF TypeOK
  <2>2. Fewer
    <3>1. CASE Answer(w) \/ LogoutTells(w)
      BY <2>1, <3>1 DEF Answer, LogoutTells, NoCall
    <3>2. CASE Mount(w)
      BY <2>1, <3>2 DEF Mount, NoCall
    <3>3. CASE ClaimTakes(w)
      BY <2>1, <3>3 DEF ClaimTakes, NoCall
    <3> QED
      BY <1>8, <3>1, <3>2, <3>3
  <2> QED
    BY <1>1, <1>8, <2>2 DEF Answer, Mount, ClaimTakes, LogoutTells
<1>9. CASE LogoutDestroys(w)
  <2>1. Fewer
    BY <1>0, <1>9 DEF LogoutDestroys, TypeOK, NoCall
  <2> QED
    BY <1>1, <1>9, <2>1 DEF LogoutDestroys
<1>10. CASE CloseWindow(w) \/ PingRefused(w) \/ ClearSession(w) \/ \E n \in Windows : Detach(w, n)
  BY <1>1, <1>10 DEF CloseWindow, PingRefused, ClearSession, Detach
<1> QED
  BY <1>2, <1>3, <1>4, <1>5, <1>6, <1>7, <1>8, <1>9, <1>10 DEF WindowStep

(***************************************************************************)
(* docs/privacy.html: passwords and credentials are encrypted with a key   *)
(* derived from the password of the user's own account.  So they are,      *)
(* though types.go has one key for the process, as long as a user logs in  *)
(* only when no session of another is alive or about to be: no detach,     *)
(* claim, logout or expiry mixes two users up by itself.                   *)
(***************************************************************************)
THEOREM OneUserKeepsSecrets == OneByOneSpec => []SecretsUnderOwnKey
<1>1. OneInv /\ [Next /\ LogsInAlone]_vars => OneInv'
  <2> SUFFICES ASSUME OneInv, [Next /\ LogsInAlone]_vars PROVE OneInv'
    OBVIOUS
  <2>1. IInv'
    BY NextSafe DEF OneInv
  <2>2. ASSUME NEW w \in Windows, WindowStep(w), LogsInAlone PROVE OneInv'
    BY <2>1, <2>2, StepOne DEF OneInv
  <2>3. CASE UNCHANGED vars \/ \E t \in Tokens : Expire(t)
    <3>1. valid' \subseteq valid /\ UNCHANGED <<owner, call, sessionKey, secrets>>
      BY <2>3 DEF vars, Expire
    <3>2. \A u : BelongTo(u) => BelongTo(u)'
      BY <3>1 DEF BelongTo
    <3> QED
      BY <2>1, <3>1, <3>2 DEF OneInv, SecretsUnderOwnKey
  <2> QED
    BY <2>2, <2>3 DEF Next
<1>2. OneInv => SecretsUnderOwnKey
  BY DEF OneInv
<1> QED
  BY <1>1, <1>2, InitOne, PTL DEF OneByOneSpec
=============================================================================
