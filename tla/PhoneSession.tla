----------------------------- MODULE PhoneSession -----------------------------
(***************************************************************************)
(* The session of one phone: the interceptor that answers a 401 with a     *)
(* refresh of the tokens and repeats the request                           *)
(* (mobile/lib/data/remote/auth_interceptor.dart), login and logout of the *)
(* repository, and the rotation of refresh tokens on the server            *)
(* (modules/auth/service.py).                                              *)
(*                                                                         *)
(* A token is the number of the pair it was issued in.  Dart runs one      *)
(* callback at a time: between two awaits a handler is one step.  Calls of *)
(* the secure storage take effect in the order they are made.              *)
(***************************************************************************)
EXTENDS Naturals, Sequences, FiniteSets, FiniteSetsExt

CONSTANTS
    Requests,      \* HTTP requests of the app
    None,
    MaxPairs,      \* bound on the token pairs issued
    MaxKills       \* bound on how often the app is killed

ASSUME ConstantsAssumption ==
    MaxPairs \in Nat \ {0} /\ MaxKills \in Nat /\ None \notin Nat

Pairs == 1..MaxPairs
Token == Pairs \cup {None}

VARIABLES
    access,        \* stored access token
    refresh,       \* stored refresh token
    issued,        \* number of pairs the server has issued
    expired,       \* pairs whose access token has expired
    denied,        \* refresh tokens (jti) in the denylist
    presented,     \* how often each refresh token reached /auth/refresh
    req,           \* each request: where it is, and the token it carries
    refreshing,    \* _isRefreshing
    pending,       \* _pendingRequests
    call,          \* the onError call of each request, when it refreshes
    leaving,       \* logout(), with the token it read
    kills          \* times the app was killed

vars == <<access, refresh, issued, expired, denied, presented, req,
          refreshing, pending, call, leaving, kills>>

Server == <<issued, expired, denied, presented>>
Stored == <<access, refresh>>
Memory == <<refreshing, pending, call>>

NoCall == [pc |-> "none"]

\* gen is the refresh token sent, or the pair received; the loop over
\* _pendingRequests is at index k and began with n of them.
Calls ==
    {NoCall}
    \cup [pc : {"read"}]
    \cup [pc : {"post", "save", "own"}, gen : Pairs]
    \cup [pc : {"drain", "retry"}, gen : Pairs, k : Nat, n : Nat]

NoLeave == [pc |-> "none"]

\* "mute" is a request whose handler is never called.
Places == {"new", "sent", "refused", "parked", "leading", "done", "failed", "mute"}

Init ==
    /\ access = 1 /\ refresh = 1 /\ issued = 1
    /\ expired = {} /\ denied = {}
    /\ presented = [g \in Pairs |-> 0]
    /\ req = [r \in Requests |-> [pc |-> "new", token |-> None]]
    /\ refreshing = FALSE
    /\ pending = <<>>
    /\ call = [r \in Requests |-> NoCall]
    /\ leaving = NoLeave
    /\ kills = 0

-----------------------------------------------------------------------------
(* Requests *)

Valid(g) == g # None /\ g \notin expired

\* onRequest: the stored token is attached, if there is one.
Send(r) ==
    /\ req[r].pc = "new"
    /\ req' = [req EXCEPT ![r] = [pc |-> "sent", token |-> access]]
    /\ UNCHANGED <<Server, Stored, Memory, leaving, kills>>

\* 401 without a valid access token; otherwise an answer, another error or
\* no connection, which all end the request.
Answer(r) ==
    /\ req[r].pc = "sent"
    /\ \/ ~Valid(req[r].token) /\ req' = [req EXCEPT ![r].pc = "refused"]
       \/ req' = [req EXCEPT ![r].pc = "done"]
    /\ UNCHANGED <<Server, Stored, Memory, leaving, kills>>

\* The lifetime of an access token ends.
Expire(g) ==
    /\ g \in 1..issued /\ g \notin expired
    /\ expired' = expired \cup {g}
    /\ UNCHANGED <<issued, denied, presented, Stored, req, Memory, leaving, kills>>

\* Mutated: every 401 refreshes.
MayRefreshAlways == TRUE

MayRefresh == ~refreshing

\* onError with a 401: the first one refreshes ...
OnErrorRefresh(r) ==
    /\ req[r].pc = "refused"
    /\ MayRefresh
    /\ refreshing' = TRUE
    /\ call' = [call EXCEPT ![r] = [pc |-> "read"]]
    /\ req' = [req EXCEPT ![r].pc = "leading"]
    /\ UNCHANGED <<Server, Stored, pending, leaving, kills>>

\* ... and the others wait.
OnErrorPark(r) ==
    /\ req[r].pc = "refused"
    /\ refreshing
    /\ pending' = Append(pending, r)
    /\ req' = [req EXCEPT ![r].pc = "parked"]
    /\ UNCHANGED <<Server, Stored, refreshing, call, leaving, kills>>

-----------------------------------------------------------------------------
(* The refresh *)

Ended(r) == req[r].pc \in {"done", "failed"}

\* Entries of the list whose handler was called before.
Stale == {j \in DOMAIN pending : Ended(pending[j])}

\* Mutated: _isRefreshing is reset only after a success.
StaysRefreshing == refreshing

AfterFailure == FALSE

\* _onLogout, _failPending and next.  Calling a handler twice is a
\* StateError: it leaves _failPending before the list is cleared, and the
\* request that leads is never answered.
GiveUp(r) ==
    LET told == IF Stale = {} THEN DOMAIN pending ELSE 1..(Min(Stale) - 1) IN
    /\ access' = None /\ refresh' = None
    /\ req' = [q \in Requests |->
        IF \E j \in told : pending[j] = q THEN [req[q] EXCEPT !.pc = "failed"]
        ELSE IF q = r
             THEN [req[q] EXCEPT !.pc = IF Stale = {} THEN "failed" ELSE "mute"]
             ELSE req[q]]
    /\ pending' = IF Stale = {} THEN <<>> ELSE pending
    /\ call' = [call EXCEPT ![r] = NoCall]
    /\ refreshing' = AfterFailure
    /\ UNCHANGED <<leaving, kills>>

HasRefresh == refresh # None

\* _performRefresh reads the refresh token.
ReadRefreshToken(r) ==
    /\ call[r].pc = "read"
    /\ \/ /\ HasRefresh
          /\ call' = [call EXCEPT ![r] = [pc |-> "post", gen |-> refresh]]
          /\ UNCHANGED <<Stored, req, refreshing, pending, leaving, kills>>
       \/ ~HasRefresh /\ GiveUp(r)
    /\ UNCHANGED Server

Present(g) == presented' = [presented EXCEPT ![g] = @ + 1]

\* refresh_tokens: the token is put on the denylist, then the user is
\* looked at and a pair issued; its answer arrives.
Rotate(r) ==
    LET g == call[r].gen IN
    /\ call[r].pc = "post"
    /\ g \notin denied /\ issued < MaxPairs
    /\ Present(g)
    /\ denied' = denied \cup {g}
    /\ issued' = issued + 1
    /\ call' = [call EXCEPT ![r] = [pc |-> "save", gen |-> issued + 1]]
    /\ UNCHANGED <<expired, Stored, req, refreshing, pending, leaving, kills>>

\* Every other end of the POST: the token is on the denylist or, with denied
\* growing, the user is blocked or the answer is lost; with nothing
\* changed, the server or its Redis was not reached.
RotateInVain(r) ==
    LET g == call[r].gen IN
    /\ call[r].pc = "post"
    /\ \/ Present(g) /\ denied' = denied \cup {g}
       \/ UNCHANGED <<presented, denied>>
    /\ GiveUp(r)
    /\ UNCHANGED <<issued, expired>>

\* saveTokens, and the loop over _pendingRequests begins.
SaveTokens(r) ==
    LET g == call[r].gen IN
    /\ call[r].pc = "save"
    /\ access' = g /\ refresh' = g
    /\ call' = [call EXCEPT ![r] =
        [pc |-> "drain", gen |-> g, k |-> 1, n |-> Len(pending)]]
    /\ UNCHANGED <<Server, req, refreshing, pending, leaving, kills>>

\* The iterator moves: a list that grew is a ConcurrentModificationError,
\* which the catch of onError takes for a failed refresh.
MoveNext(r) ==
    LET c == call[r] IN
    /\ c.pc = "drain"
    /\ \/ Len(pending) # c.n /\ GiveUp(r)
       \/ /\ Len(pending) = c.n
          /\ \/ /\ c.k <= c.n
                /\ call' = [call EXCEPT ![r].pc = "retry"]
                /\ UNCHANGED pending
             \/ /\ c.k > c.n
                /\ pending' = <<>>
                /\ call' = [call EXCEPT ![r] = [pc |-> "own", gen |-> c.gen]]
          /\ UNCHANGED <<Stored, req, refreshing, leaving, kills>>
    /\ UNCHANGED Server

\* The answer to a parked request that was repeated.  A failure goes to its
\* handler; a handler that was called before throws.
RetryPending(r) ==
    LET c == call[r]
        q == pending[c.k]
    IN
    /\ c.pc = "retry"
    /\ \/ Ended(q) /\ GiveUp(r)
       \/ /\ ~Ended(q)
          /\ \/ Valid(c.gen) /\ req' = [req EXCEPT ![q].pc = "done"]
             \/ req' = [req EXCEPT ![q].pc = "failed"]
          /\ call' = [call EXCEPT ![r].pc = "drain", ![r].k = c.k + 1]
          /\ UNCHANGED <<Stored, refreshing, pending, leaving, kills>>
    /\ UNCHANGED Server

\* The answer to the request itself: whatever is not a success, a refusal
\* by a rule of business or a lost connection too, ends in the catch.
RetryOwn(r) ==
    /\ call[r].pc = "own"
    /\ \/ /\ Valid(call[r].gen)
          /\ req' = [req EXCEPT ![r].pc = "done"]
          /\ call' = [call EXCEPT ![r] = NoCall]
          /\ refreshing' = FALSE
          /\ UNCHANGED <<Stored, pending, leaving, kills>>
       \/ GiveUp(r)
    /\ UNCHANGED Server

-----------------------------------------------------------------------------
(* Login, logout, the end of the process *)

\* The user logs in once no tokens are stored.
Login ==
    /\ access = None /\ refresh = None /\ leaving = NoLeave
    /\ issued < MaxPairs
    /\ issued' = issued + 1
    /\ access' = issued + 1 /\ refresh' = issued + 1
    /\ UNCHANGED <<expired, denied, presented, req, Memory, leaving, kills>>

\* logout() reads the refresh token, ...
Logout ==
    /\ leaving = NoLeave /\ refresh # None
    /\ leaving' = [pc |-> "post", gen |-> refresh]
    /\ UNCHANGED <<Server, Stored, req, Memory, kills>>

\* ... the server denies it, unless it is not reached, ...
LogoutPost ==
    /\ leaving.pc = "post"
    /\ denied' = denied \cup {leaving.gen} \/ denied' = denied
    /\ leaving' = [leaving EXCEPT !.pc = "clear"]
    /\ UNCHANGED <<issued, expired, presented, Stored, req, Memory, kills>>

\* ... and the stored tokens are deleted.
LogoutClear ==
    /\ leaving.pc = "clear"
    /\ access' = None /\ refresh' = None
    /\ leaving' = NoLeave
    /\ UNCHANGED <<Server, req, Memory, kills>>

\* The system ends the process: memory is gone, requests are not answered.
\* A POST under way may still reach the server, and of two writes of the
\* storage only the first may have happened.
Kill ==
    /\ kills < MaxKills
    /\ kills' = kills + 1
    /\ \E r \in Requests :
        \/ /\ call[r].pc = "post"
           /\ Present(call[r].gen) /\ denied' = denied \cup {call[r].gen}
           /\ UNCHANGED Stored
        \/ /\ call[r].pc = "save"
           /\ access' = call[r].gen
           /\ UNCHANGED <<presented, denied, refresh>>
        \/ UNCHANGED <<presented, denied, Stored>>
    /\ req' = [r \in Requests |-> IF req[r].pc = "new" \/ Ended(r)
                                  THEN req[r] ELSE [req[r] EXCEPT !.pc = "failed"]]
    /\ refreshing' = FALSE
    /\ pending' = <<>>
    /\ call' = [r \in Requests |-> NoCall]
    /\ leaving' = NoLeave
    /\ UNCHANGED <<issued, expired>>

-----------------------------------------------------------------------------
OnError(r) == OnErrorRefresh(r) \/ OnErrorPark(r)

Refresh(r) ==
    \/ ReadRefreshToken(r) \/ Rotate(r) \/ RotateInVain(r) \/ SaveTokens(r)
    \/ MoveNext(r) \/ RetryPending(r) \/ RetryOwn(r)

Next ==
    \/ \E r \in Requests : Send(r) \/ Answer(r) \/ OnError(r) \/ Refresh(r)
    \/ \E g \in Pairs : Expire(g)
    \/ Login \/ Logout \/ LogoutPost \/ LogoutClear
    \/ Kill

Spec == Init /\ [][Next]_vars

\* Callbacks run once their future completes, and the POST of a refresh has
\* timeouts of 10 seconds; repeated requests are taken to be answered.
FairSpec == Spec /\ \A r \in Requests : WF_vars(Refresh(r))

-----------------------------------------------------------------------------
(* Properties *)

TypeOK ==
    /\ access \in Token /\ refresh \in Token
    /\ issued \in Pairs
    /\ expired \subseteq Pairs /\ denied \subseteq Pairs
    /\ presented \in [Pairs -> Nat]
    /\ req \in [Requests -> [pc : Places, token : Token]]
    /\ refreshing \in BOOLEAN
    /\ pending \in Seq(Requests)
    /\ call \in [Requests -> Calls]
    /\ leaving \in {NoLeave} \cup [pc : {"post", "clear"}, gen : Pairs]
    /\ kills \in 0..MaxKills

\* A refresh token is used once: however many requests meet an expired
\* access token, and whether the answer to the refresh arrives or not, the
\* phone never sends a token it has sent before.  Only a killed app may, for
\* the POST it left under way.
TokenPresentedOnce == \A g \in Pairs : presented[g] <= 1 + kills

\* The rotated pair is not lost to requests that raced for it: the flag, and
\* every request parked behind it, belong to one call that is still going on.
FlagHasItsCall ==
    refreshing <=> \E r \in Requests : req[r].pc = "leading" /\ call[r] # NoCall

\* Every refresh ends, with new tokens or without: later requests are not
\* parked forever behind a flag nobody resets.
RefreshEnds == refreshing ~> ~refreshing

\* Class comment of the interceptor: the original request is sent again
\* after the refresh.  A request is parked only while one is under way.
NothingStranded == pending # <<>> => refreshing
===============================================================================
