-------------------------- MODULE PhoneSessionProofs --------------------------
(***************************************************************************)
(* Proofs about PhoneSession for any number of requests, token pairs and   *)
(* kills of the app.                                                       *)
(*                                                                         *)
(* One call of onError refreshes at a time (OneCall), so between the POST  *)
(* of a token and the write of its successor nobody else reads the stored  *)
(* one; and a refresh that fails deletes it.  Hence a stored token was not *)
(* presented before (Unspent), but for the POSTs a kill left under way.    *)
(***************************************************************************)
EXTENDS PhoneSession, SequenceTheorems, TLAPS

\* The flag belongs to one call, whose request leads; parked requests do not
\* lead, so an answer to one of them does not end the call.
OneCall ==
    /\ refreshing <=> \E r \in Requests : call[r].pc # "none"
    /\ \A r \in Requests : call[r].pc # "none" => req[r].pc = "leading"
    /\ \A r, q \in Requests : call[r].pc # "none" /\ call[q].pc # "none" => r = q
    /\ \A j \in DOMAIN pending : req[pending[j]].pc \in {"parked", "done", "failed"}
    /\ \A r \in Requests : /\ call[r].pc = "drain" => call[r].k # 0
                           /\ call[r].pc = "retry" => call[r].k \in DOMAIN pending

\* No token is presented before it is issued; the stored one, unless its
\* successor is about to be stored, and the ones in a call are unspent.
Unspent ==
    /\ \A g \in Pairs : g > issued => presented[g] = 0
    /\ refresh # None => refresh <= issued
    /\ refresh # None /\ (\A r \in Requests : call[r].pc # "save") =>
          presented[refresh] <= kills
    /\ \A r \in Requests : call[r].pc \in {"post", "save"} =>
          call[r].gen <= issued /\ presented[call[r].gen] <= kills

Inv == TypeOK /\ OneCall /\ Unspent /\ TokenPresentedOnce

\* What a call knows at each of its steps.
LEMMA CallKinds ==
  ASSUME TypeOK, NEW r \in Requests
  PROVE  /\ call[r] = NoCall <=> call[r].pc = "none"
         /\ call[r].pc \in {"post", "save", "own", "drain", "retry"} => call[r].gen \in Pairs
         /\ call[r].pc \in {"drain", "retry"} => call[r].k \in Nat /\ call[r].n \in Nat
  BY DEF TypeOK, Calls, NoCall

\* Who is parked is a request.
LEMMA PendingKnown ==
  ASSUME TypeOK
  PROVE  /\ DOMAIN pending = 1..Len(pending)
         /\ \A j \in DOMAIN pending : pending[j] \in Requests
  BY LenProperties, ElementOfSeq DEF TypeOK

LEMMA InitInv == Init => Inv
<1> SUFFICES ASSUME Init PROVE Inv
  OBVIOUS
<1>. USE DEF Init
<1>1. TypeOK
  <2>1. 1 \in Pairs
    BY ConstantsAssumption DEF Pairs
  <2>2. pending \in Seq(Requests)
    BY EmptySeq
  <2>3. req \in [Requests -> [pc : Places, token : Token]]
    BY DEF Places, Token
  <2>4. kills \in 0..MaxKills
    BY ConstantsAssumption
  <2>5. presented \in [Pairs -> Nat] /\ call \in [Requests -> Calls]
    BY DEF Calls
  <2>. QED  BY <2>1, <2>2, <2>3, <2>4, <2>5 DEF TypeOK, Token
<1>2. OneCall
  BY DEF OneCall, NoCall
<1>3. Unspent /\ TokenPresentedOnce
  BY ConstantsAssumption DEF Unspent, TokenPresentedOnce, NoCall, Pairs
<1>. QED  BY <1>1, <1>2, <1>3 DEF Inv

-----------------------------------------------------------------------------
(* Requests *)

LEMMA SendInv ==
  ASSUME Inv, NEW r \in Requests, Send(r) \/ Answer(r)
  PROVE  Inv'
<1>. USE DEF Inv
<1>1. /\ req[r].pc \in {"new", "sent"}
      /\ UNCHANGED <<Server, Stored, Memory, leaving, kills>>
  BY DEF Send, Answer
<1>2. PICK to \in {"sent", "refused", "done"}, k \in Token :
        req' = [req EXCEPT ![r] = [pc |-> to, token |-> k]]
  <2>1. req[r] = [pc |-> req[r].pc, token |-> req[r].token] /\ req[r].token \in Token
    BY DEF TypeOK
  <2>2. CASE Send(r)
    BY <2>2 DEF Send, TypeOK
  <2>3. CASE Answer(r)
    BY <2>1, <2>3 DEF Answer, TypeOK
  <2>. QED  BY <2>2, <2>3
<1>3. TypeOK'
  BY <1>1, <1>2 DEF TypeOK, Server, Stored, Memory, Places
<1>4. OneCall'
  <2>1. \A q \in Requests : req'[q].pc = IF q = r THEN to ELSE req[q].pc
    BY <1>2 DEF TypeOK
  <2>. QED  BY <1>1, <1>2, <2>1, PendingKnown DEF OneCall, Memory
<1>. QED  BY <1>1, <1>3, <1>4 DEF Unspent, TokenPresentedOnce, Server, Stored, Memory

LEMMA OnErrorRefreshInv ==
  ASSUME Inv, NEW r \in Requests, OnErrorRefresh(r)
  PROVE  Inv'
<1>. USE DEF Inv
<1>1. /\ req[r].pc = "refused" /\ refreshing = FALSE
      /\ refreshing' = TRUE
      /\ call' = [call EXCEPT ![r] = [pc |-> "read"]]
      /\ req' = [req EXCEPT ![r].pc = "leading"]
      /\ UNCHANGED <<Server, Stored, pending, leaving, kills>>
  BY DEF OnErrorRefresh, MayRefresh, TypeOK
<1>2. TypeOK'
  <2>1. call' \in [Requests -> Calls]
    BY <1>1 DEF TypeOK, Calls
  <2>2. req' \in [Requests -> [pc : Places, token : Token]]
    BY <1>1 DEF TypeOK, Places
  <2>. QED  BY <1>1, <2>1, <2>2 DEF TypeOK, Server, Stored
<1>3. \A q \in Requests : call[q].pc = "none"
  BY <1>1 DEF OneCall
<1>4. \A q \in Requests : /\ call'[q].pc = IF q = r THEN "read" ELSE "none"
                         /\ req'[q].pc = IF q = r THEN "leading" ELSE req[q].pc
  BY <1>1, <1>3 DEF TypeOK
<1>5. OneCall'
  BY <1>1, <1>4 DEF OneCall, TypeOK
<1>6. Unspent' /\ TokenPresentedOnce'
  BY <1>1, <1>3, <1>4 DEF Unspent, TokenPresentedOnce, Server, Stored
<1>. QED  BY <1>2, <1>5, <1>6

LEMMA OnErrorParkInv ==
  ASSUME Inv, NEW r \in Requests, OnErrorPark(r)
  PROVE  Inv'
<1>. USE DEF Inv
<1>1. /\ req[r].pc = "refused"
      /\ pending' = Append(pending, r)
      /\ req' = [req EXCEPT ![r].pc = "parked"]
      /\ UNCHANGED <<Server, Stored, refreshing, call, leaving, kills>>
  BY DEF OnErrorPark
<1>2. TypeOK'
  <2>1. pending' \in Seq(Requests)
    BY <1>1, AppendProperties DEF TypeOK
  <2>2. req' \in [Requests -> [pc : Places, token : Token]]
    BY <1>1 DEF TypeOK, Places
  <2>. QED  BY <1>1, <2>1, <2>2 DEF TypeOK, Server, Stored
<1>3. \A q \in Requests : req'[q].pc = IF q = r THEN "parked" ELSE req[q].pc
  BY <1>1 DEF TypeOK
<1>4. \A j \in DOMAIN pending' :
            \/ j \in DOMAIN pending /\ pending'[j] = pending[j]
            \/ pending'[j] = r
  <2>1. pending \in Seq(Requests) /\ DOMAIN pending' = 1..(Len(pending) + 1)
    BY <1>1, AppendProperties, LenProperties DEF TypeOK
  <2>2. \A j \in 1..Len(pending) : pending'[j] = pending[j]
    BY <1>1, <2>1, AppendProperties
  <2>3. pending'[Len(pending) + 1] = r
    BY <1>1, <2>1, AppendProperties
  <2>4. Len(pending) \in Nat
    BY <2>1, LenProperties
  <2>. QED  BY <2>1, <2>2, <2>3, <2>4, PendingKnown
<1>5. \A j \in DOMAIN pending : pending[j] \in Requests
  BY PendingKnown
<1>6. OneCall'
  BY <1>1, <1>3, <1>4, <1>5 DEF OneCall
<1>. QED  BY <1>1, <1>2, <1>6 DEF Unspent, TokenPresentedOnce, Server, Stored

-----------------------------------------------------------------------------
(* The refresh *)

\* A refresh that fails: no call is left and no token is stored.
LEMMA GiveUpInv ==
  ASSUME Inv, NEW r \in Requests, call[r].pc # "none", GiveUp(r),
         UNCHANGED <<issued, expired>>,
         denied' \subseteq Pairs,
         presented' \in [Pairs -> Nat],
         \A g \in Pairs : /\ presented'[g] <= 1 + kills
                          /\ g > issued => presented'[g] = 0
  PROVE  Inv'
<1>. USE DEF Inv
<1>1. /\ access' = None /\ refresh' = None
      /\ call' = [call EXCEPT ![r] = NoCall]
      /\ refreshing' = FALSE /\ UNCHANGED <<leaving, kills>>
      /\ pending' = pending \/ pending' = <<>>
  BY DEF GiveUp, AfterFailure
<1>2. ASSUME NEW q \in Requests
      PROVE  /\ req'[q] \in [pc : Places, token : Token]
             /\ q # r => req'[q].pc \in {"failed", req[q].pc}
  BY DEF GiveUp, TypeOK, Places
<1>8. req' \in [Requests -> [pc : Places, token : Token]]
  BY <1>2 DEF GiveUp
<1>3. \A q \in Requests : call'[q].pc = "none"
  BY <1>1 DEF OneCall, TypeOK, NoCall
<1>4. TypeOK'
  <2>1. pending' \in Seq(Requests)
    BY <1>1, EmptySeq DEF TypeOK
  <2>2. call' \in [Requests -> Calls]
    BY <1>1 DEF TypeOK, Calls
  <2>. QED  BY <1>1, <1>8, <2>1, <2>2 DEF TypeOK, Token
<1>5. \A j \in DOMAIN pending : pending[j] \in Requests /\ pending[j] # r
  BY PendingKnown DEF OneCall
<1>6. OneCall'
  BY <1>1, <1>2, <1>3, <1>5 DEF OneCall
<1>7. Unspent' /\ TokenPresentedOnce'
  BY <1>1, <1>3 DEF Unspent, TokenPresentedOnce
<1>. QED  BY <1>4, <1>6, <1>7

LEMMA ReadRefreshTokenInv ==
  ASSUME Inv, NEW r \in Requests, ReadRefreshToken(r)
  PROVE  Inv'
<1>. USE DEF Inv
<1>1. call[r].pc = "read" /\ UNCHANGED Server
  BY DEF ReadRefreshToken
<1>2. CASE GiveUp(r)
  BY <1>1, <1>2, GiveUpInv DEF Server, TypeOK, Unspent, TokenPresentedOnce
<1>3. CASE HasRefresh /\ ~GiveUp(r)
  <2>1. /\ refresh \in Pairs
        /\ call' = [call EXCEPT ![r] = [pc |-> "post", gen |-> refresh]]
        /\ UNCHANGED <<Stored, req, refreshing, pending, leaving, kills>>
    BY <1>3 DEF ReadRefreshToken, HasRefresh, TypeOK, Token
  <2>2. TypeOK'
    <3>1. call' \in [Requests -> Calls]
      BY <2>1 DEF TypeOK, Calls
    <3>. QED  BY <1>1, <2>1, <3>1 DEF TypeOK, Server, Stored
  <2>3. /\ call'[r].pc = "post" /\ call'[r].gen = refresh
        /\ \A q \in Requests \ {r} : call'[q] = call[q] /\ call[q].pc = "none"
    BY <1>1, <2>1 DEF TypeOK, OneCall
  <2>4. OneCall'
    BY <1>1, <2>1, <2>3 DEF OneCall
  <2>5. presented[refresh] <= kills /\ refresh <= issued
    <3>1. \A q \in Requests : call[q].pc # "save"
      BY <1>1, <2>3
    <3>. QED  BY <1>3, <3>1 DEF Unspent, HasRefresh
  <2>6. Unspent' /\ TokenPresentedOnce'
    BY <1>1, <2>1, <2>3, <2>5 DEF Unspent, TokenPresentedOnce, Server, Stored
  <2>. QED  BY <2>2, <2>4, <2>6
<1>. QED  BY <1>2, <1>3 DEF ReadRefreshToken

LEMMA RotateInv ==
  ASSUME Inv, NEW r \in Requests, Rotate(r)
  PROVE  Inv'
<1>. USE DEF Inv
<1>. DEFINE g == call[r].gen
            n == issued + 1
<1>1. /\ call[r].pc = "post"
      /\ n \in Pairs /\ g \in Pairs /\ g <= issued
      /\ presented[g] <= kills
  BY CallKinds, ConstantsAssumption DEF Rotate, Unspent, TypeOK, Pairs
<1>2. /\ presented' = [presented EXCEPT ![g] = @ + 1]
      /\ denied' = denied \cup {g}
      /\ issued' = n
      /\ call' = [call EXCEPT ![r] = [pc |-> "save", gen |-> n]]
      /\ UNCHANGED <<expired, Stored, req, refreshing, pending, leaving, kills>>
  BY DEF Rotate, Present
<1>3. issued \in Nat /\ n > issued /\ kills \in Nat
  BY ConstantsAssumption DEF TypeOK, Pairs
<1>4. presented[n] = 0
  BY <1>1, <1>3 DEF Unspent
<1>5. \A h \in Pairs : /\ presented[h] \in Nat
                       /\ presented'[h] = IF h = g THEN presented[h] + 1 ELSE presented[h]
  BY <1>1, <1>2 DEF TypeOK
<1>6. /\ call'[r].pc = "save" /\ call'[r].gen = n
      /\ \A q \in Requests \ {r} : call'[q] = call[q] /\ call[q].pc = "none"
  BY <1>1, <1>2 DEF TypeOK, OneCall
<1>. HIDE DEF g, n
<1>7. TypeOK'
  <2>1. call' \in [Requests -> Calls]
    BY <1>1, <1>2 DEF TypeOK, Calls
  <2>2. presented' \in [Pairs -> Nat]
    BY <1>1, <1>2 DEF TypeOK
  <2>. QED  BY <1>1, <1>2, <2>1, <2>2 DEF TypeOK, Stored
<1>8. OneCall'
  BY <1>1, <1>2, <1>6 DEF OneCall
<1>9. Unspent'
  <2>1. \A h \in Pairs : h > n => presented'[h] = 0
    BY <1>1, <1>3, <1>5 DEF Unspent, Pairs
  <2>2. refresh # None => refresh <= n
    BY <1>1, <1>3 DEF Unspent, TypeOK, Token, Pairs
  <2>3. presented'[n] <= kills
    <3>1. n # g /\ n \in Pairs
      BY <1>1, <1>3 DEF Pairs
    <3>. QED  BY <1>3, <1>4, <1>5, <3>1
  <2>4. n \in Nat
    BY <1>1 DEF Pairs
  <2>. QED  BY <1>2, <1>3, <1>6, <2>1, <2>2, <2>3, <2>4 DEF Unspent, Stored
<1>10. TokenPresentedOnce'
  BY <1>1, <1>2, <1>3, <1>5 DEF TokenPresentedOnce
<1>. QED  BY <1>7, <1>8, <1>9, <1>10

LEMMA RotateInVainInv ==
  ASSUME Inv, NEW r \in Requests, RotateInVain(r)
  PROVE  Inv'
<1>. USE DEF Inv
<1>. DEFINE g == call[r].gen
<1>1. /\ call[r].pc = "post"
      /\ g \in Pairs /\ g <= issued /\ presented[g] <= kills
  BY CallKinds DEF RotateInVain, Unspent
<1>2. /\ \/ presented' = [presented EXCEPT ![g] = @ + 1] /\ denied' = denied \cup {g}
         \/ UNCHANGED <<presented, denied>>
      /\ GiveUp(r) /\ UNCHANGED <<issued, expired>>
  BY DEF RotateInVain, Present
<1>. HIDE DEF g
<1>3. presented' \in [Pairs -> Nat] /\ denied' \subseteq Pairs
  BY <1>1, <1>2 DEF TypeOK
<1>4. issued \in Nat /\ kills \in Nat
  BY ConstantsAssumption DEF TypeOK, Pairs
<1>5. ASSUME NEW h \in Pairs
      PROVE  presented'[h] <= 1 + kills /\ (h > issued => presented'[h] = 0)
  <2>1. h \in Nat /\ presented[h] \in Nat /\ presented[h] <= 1 + kills
    BY DEF Pairs, TypeOK, TokenPresentedOnce
  <2>2. CASE h = g
    BY <1>1, <1>2, <1>4, <2>1, <2>2 DEF TypeOK
  <2>3. CASE h # g
    <3>1. presented'[h] = presented[h]
      BY <1>2, <2>3 DEF TypeOK
    <3>. QED  BY <2>1, <3>1 DEF Unspent
  <2>. QED  BY <2>2, <2>3
<1>. QED  BY <1>1, <1>2, <1>3, <1>5, GiveUpInv

LEMMA SaveTokensInv ==
  ASSUME Inv, NEW r \in Requests, SaveTokens(r)
  PROVE  Inv'
<1>. USE DEF Inv
<1>. DEFINE g == call[r].gen
<1>1. /\ call[r].pc = "save"
      /\ g \in Pairs /\ g <= issued /\ presented[g] <= kills
  BY CallKinds DEF SaveTokens, Unspent
<1>2. /\ access' = g /\ refresh' = g
      /\ call' = [call EXCEPT ![r] =
            [pc |-> "drain", gen |-> g, k |-> 1, n |-> Len(pending)]]
      /\ UNCHANGED <<Server, req, refreshing, pending, leaving, kills>>
  BY DEF SaveTokens
<1>. HIDE DEF g
<1>3. TypeOK'
  <2>1. call' \in [Requests -> Calls]
    BY <1>1, <1>2, LenProperties DEF TypeOK, Calls
  <2>. QED  BY <1>1, <1>2, <2>1 DEF TypeOK, Server, Token
<1>4. /\ call'[r].pc = "drain"
      /\ \A q \in Requests \ {r} : call'[q] = call[q] /\ call[q].pc = "none"
  BY <1>1, <1>2 DEF TypeOK, OneCall
<1>5. OneCall'
  BY <1>1, <1>2, <1>4 DEF OneCall
<1>6. Unspent' /\ TokenPresentedOnce'
  BY <1>1, <1>2, <1>4 DEF Unspent, TokenPresentedOnce, Server
<1>. QED  BY <1>3, <1>5, <1>6

\* A call goes on without touching tokens; req may change for parked requests.
LEMMA GoOnInv ==
  ASSUME Inv, NEW r \in Requests, NEW to \in Calls,
         call[r].pc \notin {"none", "save"}, to.pc \in {"drain", "retry", "own"},
         call' = [call EXCEPT ![r] = to],
         pending' \in {pending, <<>>},
         to.pc = "drain" => to.k # 0,
         to.pc = "retry" => to.k \in DOMAIN pending',
         req' \in [Requests -> [pc : Places, token : Token]],
         \A q \in Requests : \/ req'[q].pc = req[q].pc
                             \/ req'[q].pc \in {"done", "failed"} /\ req[q].pc # "leading",
         UNCHANGED <<Server, Stored, refreshing, leaving, kills>>
  PROVE  Inv'
<1>. USE DEF Inv
<1>1. TypeOK'
  <2>1. pending' \in Seq(Requests)
    BY EmptySeq DEF TypeOK
  <2>2. call' \in [Requests -> Calls]
    BY DEF TypeOK
  <2>. QED  BY <2>1, <2>2 DEF TypeOK, Server, Stored
<1>2. \A q \in Requests : call'[q] = IF q = r THEN to ELSE call[q]
  BY DEF TypeOK
<1>3. \A q \in Requests \ {r} : call[q].pc = "none"
  BY DEF OneCall
<1>4. OneCall'
  BY <1>2, <1>3, PendingKnown DEF OneCall
<1>5. Unspent' /\ TokenPresentedOnce'
  BY <1>2, <1>3 DEF Unspent, TokenPresentedOnce, Server, Stored
<1>. QED  BY <1>1, <1>4, <1>5

LEMMA GiveUpQuietly ==
  ASSUME Inv, NEW r \in Requests, call[r].pc # "none", GiveUp(r), UNCHANGED Server
  PROVE  Inv'
  BY GiveUpInv DEF Server, Inv, TypeOK, Unspent, TokenPresentedOnce

LEMMA MoveNextInv ==
  ASSUME Inv, NEW r \in Requests, MoveNext(r)
  PROVE  Inv'
<1>. DEFINE c == call[r]
<1>1. c.pc = "drain" /\ UNCHANGED Server
  BY DEF MoveNext
<1>2. /\ c \in Calls /\ c.gen \in Pairs /\ c.k \in Nat /\ c.n \in Nat
      /\ c = [pc |-> "drain", gen |-> c.gen, k |-> c.k, n |-> c.n]
  BY <1>1, CallKinds DEF Inv, TypeOK, Calls, NoCall
<1>3. CASE GiveUp(r)
  BY <1>1, <1>3, GiveUpQuietly
<1>4. CASE /\ Len(pending) = c.n /\ c.k <= c.n
           /\ call' = [call EXCEPT ![r].pc = "retry"]
           /\ UNCHANGED <<Stored, req, refreshing, pending, leaving, kills>>
  <2>. DEFINE next == [c EXCEPT !.pc = "retry"]
  <2>1. call' = [call EXCEPT ![r] = next]
    BY <1>4 DEF Inv, TypeOK
  <2>2. next \in Calls /\ next.pc = "retry" /\ next.k = c.k
    BY <1>2 DEF Calls
  <2>3. c.k \in DOMAIN pending'
    BY <1>1, <1>2, <1>4, PendingKnown DEF Inv, OneCall
  <2>. QED  BY <1>1, <1>4, <2>1, <2>2, <2>3, GoOnInv DEF Inv, TypeOK
<1>5. CASE /\ pending' = <<>>
           /\ call' = [call EXCEPT ![r] = [pc |-> "own", gen |-> c.gen]]
           /\ UNCHANGED <<Stored, req, refreshing, leaving, kills>>
  <2>1. [pc |-> "own", gen |-> c.gen] \in Calls
    BY <1>2 DEF Calls
  <2>. QED  BY <1>1, <1>5, <2>1, GoOnInv DEF Inv, TypeOK
<1>. QED  BY <1>3, <1>4, <1>5 DEF MoveNext

LEMMA RetryPendingInv ==
  ASSUME Inv, NEW r \in Requests, RetryPending(r)
  PROVE  Inv'
<1>. DEFINE c == call[r]
            q == pending[c.k]
            next == [pc |-> "drain", gen |-> c.gen, k |-> c.k + 1, n |-> c.n]
<1>1. c.pc = "retry" /\ UNCHANGED Server
  BY DEF RetryPending
<1>2. CASE GiveUp(r)
  BY <1>1, <1>2, GiveUpQuietly
<1>3. CASE ~GiveUp(r)
  <2>1. /\ c.gen \in Pairs /\ c.k \in Nat /\ c.n \in Nat
        /\ c = [pc |-> "retry", gen |-> c.gen, k |-> c.k, n |-> c.n]
    BY <1>1, CallKinds DEF Inv, TypeOK, Calls, NoCall
  <2>2. /\ ~Ended(q)
        /\ \/ req' = [req EXCEPT ![q].pc = "done"]
           \/ req' = [req EXCEPT ![q].pc = "failed"]
        /\ call' = [call EXCEPT ![r].pc = "drain", ![r].k = c.k + 1]
        /\ UNCHANGED <<Stored, refreshing, pending, leaving, kills>>
    BY <1>3 DEF RetryPending
  <2>3. call' = [call EXCEPT ![r] = next]
    BY <2>1, <2>2 DEF Inv, TypeOK
  <2>4. next \in Calls /\ next.k # 0
    BY <2>1 DEF Calls
  <2>7. q \in Requests /\ req[q].pc # "leading"
    BY <1>1, PendingKnown DEF Inv, OneCall
  <2>. HIDE DEF q
  <2>5. req' \in [Requests -> [pc : Places, token : Token]]
    <3>1. req[q] \in [pc : Places, token : Token] /\ {"done", "failed"} \subseteq Places
      BY <2>7 DEF Inv, TypeOK, Places
    <3>2. \A to \in Places : [req[q] EXCEPT !.pc = to] \in [pc : Places, token : Token]
      BY <3>1
    <3>. QED  BY <2>2, <2>7, <3>1, <3>2 DEF Inv, TypeOK
  <2>6. ASSUME NEW p \in Requests
        PROVE  \/ req'[p].pc = req[p].pc
               \/ req'[p].pc \in {"done", "failed"} /\ req[p].pc # "leading"
    BY <2>2, <2>7 DEF Inv, TypeOK
  <2>. QED  BY <1>1, <2>2, <2>3, <2>4, <2>5, <2>6, GoOnInv
<1>. QED  BY <1>2, <1>3

LEMMA RetryOwnInv ==
  ASSUME Inv, NEW r \in Requests, RetryOwn(r)
  PROVE  Inv'
<1>. USE DEF Inv
<1>1. call[r].pc = "own" /\ UNCHANGED Server
  BY DEF RetryOwn
<1>2. CASE GiveUp(r)
  BY <1>1, <1>2, GiveUpQuietly
<1>3. CASE /\ req' = [req EXCEPT ![r].pc = "done"]
           /\ call' = [call EXCEPT ![r] = NoCall]
           /\ refreshing' = FALSE
           /\ UNCHANGED <<Stored, pending, leaving, kills>>
  <2>1. TypeOK'
    <3>1. call' \in [Requests -> Calls]
      BY <1>3 DEF TypeOK, Calls
    <3>2. req' \in [Requests -> [pc : Places, token : Token]]
      BY <1>3 DEF TypeOK, Places
    <3>. QED  BY <1>1, <1>3, <3>1, <3>2 DEF TypeOK, Server, Stored
  <2>2. \A q \in Requests : /\ call'[q].pc = "none"
                            /\ req'[q].pc = IF q = r THEN "done" ELSE req[q].pc
    BY <1>1, <1>3 DEF TypeOK, OneCall, NoCall
  <2>3. OneCall'
    BY <1>3, <2>2, PendingKnown DEF OneCall
  <2>4. Unspent' /\ TokenPresentedOnce'
    BY <1>1, <1>3, <2>2 DEF Unspent, TokenPresentedOnce, Server, Stored, OneCall
  <2>. QED  BY <2>1, <2>3, <2>4
<1>. QED  BY <1>2, <1>3 DEF RetryOwn

-----------------------------------------------------------------------------
(* Login, logout, the end of the process *)

LEMMA LoginInv ==
  ASSUME Inv, Login
  PROVE  Inv'
<1>. USE DEF Inv
<1>. DEFINE n == issued + 1
<1>1. /\ n \in Pairs /\ issued \in Nat /\ kills \in Nat
      /\ issued' = n /\ access' = n /\ refresh' = n
      /\ UNCHANGED <<expired, denied, presented, req, Memory, leaving, kills>>
  BY ConstantsAssumption DEF Login, TypeOK, Pairs
<1>2. presented[n] = 0
  BY <1>1 DEF Unspent
<1>3. TypeOK'
  BY <1>1 DEF TypeOK, Token, Memory
<1>4. Unspent'
  <2>1. \A h \in Pairs : h > n => presented[h] = 0
    BY <1>1 DEF Unspent, Pairs
  <2>2. \A r \in Requests : call[r].pc \in {"post", "save"} => call[r].gen <= n
    BY <1>1, CallKinds DEF Unspent, Pairs
  <2>. QED  BY <1>1, <1>2, <2>1, <2>2 DEF Unspent, Memory
<1>. QED  BY <1>1, <1>3, <1>4 DEF OneCall, TokenPresentedOnce, Memory

LEMMA LogoutInv ==
  ASSUME Inv, Logout \/ LogoutPost \/ LogoutClear
  PROVE  Inv'
<1>. USE DEF Inv
<1>1. /\ access' \in {access, None} /\ refresh' \in {refresh, None}
      /\ UNCHANGED <<issued, expired, presented, req, Memory, kills>>
  BY DEF Logout, LogoutPost, LogoutClear, Server, Stored
<1>2. /\ denied' \subseteq Pairs
      /\ leaving' \in {NoLeave} \cup [pc : {"post", "clear"}, gen : Pairs]
  <2>1. CASE Logout
    BY <2>1 DEF Logout, TypeOK, Token, Server
  <2>2. CASE LogoutPost
    <3>1. leaving \in [pc : {"post", "clear"}, gen : Pairs]
      BY <2>2 DEF LogoutPost, TypeOK, NoLeave
    <3>. QED  BY <2>2, <3>1 DEF LogoutPost, TypeOK
  <2>3. CASE LogoutClear
    BY <2>3 DEF LogoutClear, TypeOK, Server
  <2>. QED  BY <2>1, <2>2, <2>3
<1>3. TypeOK'
  BY <1>1, <1>2 DEF TypeOK, Token, Memory
<1>. QED  BY <1>1, <1>3 DEF OneCall, Unspent, TokenPresentedOnce, Memory

\* A POST under way at the kill may arrive: one more for that token, which is
\* what the bound of TokenPresentedOnce allows.
LEMMA KillInv ==
  ASSUME Inv, Kill
  PROVE  Inv'
<1>. USE DEF Inv
<1>1. /\ kills < MaxKills /\ kills' = kills + 1 /\ kills \in Nat
      /\ refreshing' = FALSE /\ pending' = <<>> /\ leaving' = NoLeave
      /\ call' = [r \in Requests |-> NoCall]
      /\ UNCHANGED <<issued, expired, refresh>>
  BY DEF Kill, TypeOK, Stored
<1>2. req' \in [Requests -> [pc : Places, token : Token]]
  BY DEF Kill, TypeOK, Places
<1>3. PICK r \in Requests :
        \/ /\ call[r].pc = "post"
           /\ Present(call[r].gen) /\ denied' = denied \cup {call[r].gen}
           /\ UNCHANGED Stored
        \/ /\ call[r].pc = "save"
           /\ access' = call[r].gen
           /\ UNCHANGED <<presented, denied, refresh>>
        \/ UNCHANGED <<presented, denied, Stored>>
  BY DEF Kill
<1>4. /\ presented' \in [Pairs -> Nat] /\ denied' \subseteq Pairs /\ access' \in Token
      /\ \A g \in Pairs : /\ presented'[g] <= 1 + kills
                          /\ g > issued => presented'[g] = 0
  <2>1. \A g \in Pairs : presented[g] \in Nat /\ presented[g] <= 1 + kills
    BY DEF TypeOK, TokenPresentedOnce
  <2>2. CASE UNCHANGED <<presented, denied, Stored>>
    BY <2>1, <2>2 DEF TypeOK, Stored, Unspent
  <2>3. CASE call[r].pc = "save" /\ access' = call[r].gen /\ UNCHANGED <<presented, denied, refresh>>
    BY <2>1, <2>3, CallKinds DEF TypeOK, Token, Unspent
  <2>4. CASE /\ call[r].pc = "post"
             /\ Present(call[r].gen) /\ denied' = denied \cup {call[r].gen}
             /\ UNCHANGED Stored
    <3>. DEFINE g == call[r].gen
    <3>1. g \in Pairs /\ g <= issued /\ presented[g] <= kills
      BY <2>4, CallKinds DEF Unspent
    <3>2. presented' = [presented EXCEPT ![g] = @ + 1]
      BY <2>4 DEF Present
    <3>3. denied' = denied \cup {g} /\ UNCHANGED Stored
      BY <2>4
    <3>. HIDE DEF g
    <3>4. \A h \in Pairs : presented'[h] = IF h = g THEN presented[h] + 1 ELSE presented[h]
      BY <3>1, <3>2 DEF TypeOK
    <3>5. presented' \in [Pairs -> Nat]
      BY <3>1, <3>2 DEF TypeOK
    <3>6. \A h \in Pairs : h > issued => h # g
      BY <3>1 DEF Pairs, TypeOK
    <3>. QED  BY <1>1, <2>1, <3>1, <3>3, <3>4, <3>5, <3>6 DEF TypeOK, Unspent, Stored
  <2>. QED  BY <1>3, <2>2, <2>3, <2>4
<1>5. \A q \in Requests : call'[q].pc = "none"
  BY <1>1 DEF NoCall
<1>6. TypeOK'
  <2>1. call' \in [Requests -> Calls] /\ pending' \in Seq(Requests)
    BY <1>1, EmptySeq DEF Calls
  <2>2. kills' \in 0..MaxKills
    BY <1>1, ConstantsAssumption
  <2>. QED  BY <1>1, <1>2, <1>4, <2>1, <2>2 DEF TypeOK
<1>7. OneCall'
  BY <1>1, <1>5 DEF OneCall
<1>8. Unspent' /\ TokenPresentedOnce'
  BY <1>1, <1>4, <1>5 DEF Unspent, TokenPresentedOnce, TypeOK, Token
<1>. QED  BY <1>6, <1>7, <1>8

-----------------------------------------------------------------------------
(* The invariant, and what follows from it *)

LEMMA NextInv == Inv /\ [Next]_vars => Inv'
<1> SUFFICES ASSUME Inv, [Next]_vars PROVE Inv'
  OBVIOUS
<1>1. ASSUME NEW r \in Requests, Send(r) \/ Answer(r) PROVE Inv'
  BY <1>1, SendInv
<1>2. ASSUME NEW r \in Requests, OnError(r) PROVE Inv'
  BY <1>2, OnErrorRefreshInv, OnErrorParkInv DEF OnError
<1>3. ASSUME NEW r \in Requests, Refresh(r) PROVE Inv'
  BY <1>3, ReadRefreshTokenInv, RotateInv, RotateInVainInv, SaveTokensInv, MoveNextInv,
     RetryPendingInv, RetryOwnInv DEF Refresh
<1>4. ASSUME NEW g \in Pairs, Expire(g) PROVE Inv'
  BY <1>4 DEF Expire, Inv, TypeOK, OneCall, Unspent, TokenPresentedOnce, Stored, Memory
<1>5. CASE UNCHANGED vars
  BY <1>5 DEF vars, Inv, TypeOK, OneCall, Unspent, TokenPresentedOnce
<1>. QED
  BY <1>1, <1>2, <1>3, <1>4, <1>5, LoginInv, LogoutInv, KillInv DEF Next

\* The inductive invariant of the phone's session: one call at a time, and no
\* unspent token but the stored one and those in the call.
THEOREM Invariance == Spec => []Inv
  BY InitInv, NextInv, PTL DEF Spec

\* TypeOK: every reachable state is well formed.
THEOREM TypeCorrect == Spec => []TypeOK
  BY Invariance, PTL DEF Inv

\* TokenPresentedOnce: the phone presents a refresh token once, and once more
\* for each kill, however many requests meet an expired access token.
THEOREM PresentedOnce == Spec => []TokenPresentedOnce
  BY Invariance, PTL DEF Inv

LEMMA FlagIsItsCall == Inv => FlagHasItsCall
  BY CallKinds DEF Inv, OneCall, FlagHasItsCall

\* FlagHasItsCall: _isRefreshing is set while, and only while, one call of the
\* interceptor refreshes.
THEOREM FlagIsHeld == Spec => []FlagHasItsCall
  BY Invariance, FlagIsItsCall, PTL
===============================================================================
