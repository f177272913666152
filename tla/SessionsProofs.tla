---- MODULE SessionsProofs ----
(***************************************************************************)
(* Sessions keeps its types, and rotation leaves a sign-in at most one     *)
(* usable refresh token, for any number of pairs, requests and failures,   *)
(* as long as one API process serves them.                                 *)
(***************************************************************************)
EXTENDS Sessions, TLAPS

Rotating(c) == call[c].pc \in {"checked", "rotated"}

\* Tokens in use were issued, in a sign-in that was granted.
Issued ==
    /\ \A r \in Pairs : Held(r) => row[r].state # "none"
    /\ \A r \in Pairs : row[r].login <= logins

\* One process rotates one token at a time.
OneRotation == \A c, d \in Calls : Rotating(c) /\ Rotating(d) => c = d

\* What was checked still holds, and between the two commits the sign-in has no live token.
CheckedIsLive == \A c \in Calls : At(c, "checked") => Live(call[c].pair)
RotatedIsBare ==
    \A c \in Calls : At(c, "rotated") =>
        \A r \in Pairs : Live(r) => row[r].login # row[call[c].pair].login

Apart == OneRotation /\ CheckedIsLive /\ RotatedIsBare /\ OneLivePerLogin

IInv ==
    /\ TypeOK
    /\ Issued
    /\ OneProcess => Apart

\* A pair taken for a new row is held by nobody and has no live row.
LEMMA NewPairFresh ==
    FreshPairs # {} => NewPair \in Pairs /\ ~Live(NewPair) /\ ~Held(NewPair)
BY DEF NewPair, FreshPairs

\* Every step keeps the types.
LEMMA StepKeepsTypes ==
    ASSUME TypeOK, Issued, [Next]_vars
    PROVE  TypeOK'
<1> USE NoneAssumption, BoundsAssumption DEF TypeOK, Rows, Requests, Complete, Issued, Held
<1>1. ASSUME NEW c \in Calls, Fetch(c) PROVE TypeOK'
  BY <1>1 DEF Fetch, Begin, Call, At
<1>2. ASSUME NEW c \in Calls, Logout(c) PROVE TypeOK'
  BY <1>2 DEF Logout, Begin, Call, At
<1>3. ASSUME NEW c \in Calls, Serve(c) PROVE TypeOK'
  BY <1>3, SMTT(30) DEF Serve, Arrived, Goto, MayBeAuthorized, At
<1>4. ASSUME NEW c \in Calls, ServeLogout(c) PROVE TypeOK'
  BY <1>4 DEF ServeLogout, Arrived, Goto, MayBeAuthorized, Live, At
<1>5. ASSUME NEW c \in Calls, ServeLogin(c) PROVE TypeOK'
  BY NewPairFresh, <1>5 DEF ServeLogin, Arrived, Row, At
<1>6. ASSUME NEW c \in Calls, Deny(c) PROVE TypeOK'
  <2>1. row' \in [Pairs -> Rows]
        /\ \A r \in Pairs : row'[r].state # "none" => row'[r].user \in Users
    <3>1. CASE call[c].kind # "login" /\ MayBeAuthorized(c)
      <4>1. call[c].access \in Pairs
        BY <3>1 DEF MayBeAuthorized
      <4>2. row' = [row EXCEPT ![call[c].access].access = "expired"]
        BY <1>6, <3>1 DEF Deny
      <4>3. row' \in [Pairs -> Rows]
        BY <4>1, <4>2
      <4>4. \A r \in Pairs : row'[r].state = row[r].state /\ row'[r].user = row[r].user
        BY <4>1, <4>2
      <4>5. QED
        BY <4>3, <4>4
    <3>2. CASE ~(call[c].kind # "login" /\ MayBeAuthorized(c))
      <4>1. row' = row
        BY <1>6, <3>2 DEF Deny
      <4>2. QED
        BY <4>1
    <3>3. QED
      BY <3>1, <3>2
  <2>2. call' \in [Calls -> Requests]
    BY <1>6 DEF Deny, Arrived, Goto, MayBeAuthorized, At
  <2>3. \A d \in Calls : Complete(call'[d])
    BY <1>6 DEF Deny, Arrived, Goto, MayBeAuthorized, At
  <2>4. QED
    BY <1>6, <2>1, <2>2, <2>3 DEF Deny, Arrived, Goto, MayBeAuthorized, At
<1>7. ASSUME NEW c \in Calls, CheckRefresh(c) PROVE TypeOK'
  BY <1>7 DEF CheckRefresh, Goto, Live, At
<1>8. ASSUME NEW c \in Calls, RefuseRefresh(c) PROVE TypeOK'
  BY <1>8, SMTT(30), ZenonT(60) DEF RefuseRefresh, Goto, Live, At
<1>9. ASSUME NEW c \in Calls, Rotate(c) PROVE TypeOK'
  BY <1>9 DEF Rotate, Goto, At
<1>10. ASSUME NEW c \in Calls, Issue(c) PROVE TypeOK'
  BY NewPairFresh, <1>10 DEF Issue, Row, At
<1>11. ASSUME NEW c \in Calls, AskRefresh(c) PROVE TypeOK'
  BY <1>11, SMTT(30), ZenonT(60) DEF AskRefresh, At
<1>12. ASSUME NEW c \in Calls, NothingToAsk(c) PROVE TypeOK'
  BY <1>12 DEF NothingToAsk, Goto, At
<1>13. ASSUME NEW c \in Calls, Resend(c) PROVE TypeOK'
  <2>1. row' \in [Pairs -> Rows]
        /\ \A r \in Pairs : row'[r].state # "none" => row'[r].user \in Users
    BY <1>13 DEF Resend, At
  <2>2. call' \in [Calls -> Requests]
    <3>1. PICK m \in Requests : call' = [call EXCEPT ![c] = m]
      <4> DEFINE m == [call[c] EXCEPT !.pc = "resent",
                                    !.access = call[c].pair]
      <4>1. m \in Requests
        BY SMTT(30), ZenonT(60)
      <4>2. call' = [call EXCEPT ![c] = m]
        BY <1>13 DEF Resend
      <4>3. QED
        BY <4>1, <4>2
    <3>2. QED
      BY <3>1
  <2>3. \A d \in Calls : Complete(call'[d])
    BY <1>13, <2>2 DEF Resend, At
  <2>4. QED
    BY <1>13, <2>1, <2>2, <2>3 DEF Resend, At
<1>14. ASSUME NEW c \in Calls, Settle(c) PROVE TypeOK'
  BY <1>14 DEF Settle, Gone, NoCall, Call, At
<1>15. ASSUME NEW c \in Calls, ShowUser(c) PROVE TypeOK'
  BY <1>15 DEF ShowUser, Gone, NoCall, Call, At
<1>16. ASSUME NEW c \in Calls, SignedIn(c) PROVE TypeOK'
  BY <1>16 DEF SignedIn, Me, Call, At
<1>17. ASSUME NEW c \in Calls, SignedOut(c) PROVE TypeOK'
  BY <1>17 DEF SignedOut, Gone, NoCall, Call, At
<1>18. ASSUME NEW c \in Calls, Lose(c) PROVE TypeOK'
  BY <1>18 DEF Lose, Goto
<1>19. ASSUME NEW c \in Calls, Reload(c) PROVE TypeOK'
  BY <1>19 DEF Reload, Me, Call, NoCall
<1>20. ASSUME NEW c \in Calls, NEW u \in Users, Login(c, u) PROVE TypeOK'
  BY <1>20 DEF Login, Begin, Call, At
<1>21. CASE LogoutHere
  BY <1>21 DEF LogoutHere
<1>22. CASE AtRest \/ UNCHANGED vars
  BY <1>22 DEF AtRest, vars
<1>23. QED
  BY <1>1, <1>2, <1>3, <1>4, <1>5, <1>6, <1>7, <1>8, <1>9, <1>10, <1>11, <1>12, <1>13,
     <1>14, <1>15, <1>16, <1>17, <1>18, <1>19, <1>20, <1>21, <1>22 DEF Next, CallStep,
     Served, Answered

\* Every step leaves only issued pairs in use.
LEMMA StepKeepsIssued ==
    ASSUME TypeOK, Issued, [Next]_vars
    PROVE  Issued'
<1> USE NoneAssumption, BoundsAssumption DEF TypeOK, Rows, Requests, Complete, Issued, Held
<1>1. ASSUME NEW c \in Calls, Fetch(c) PROVE Issued'
  BY <1>1 DEF Fetch, Begin, Call, At
<1>2. ASSUME NEW c \in Calls, Logout(c) PROVE Issued'
  BY <1>2 DEF Logout, Begin, Call, At
<1>3. ASSUME NEW c \in Calls, Serve(c) PROVE Issued'
  BY <1>3 DEF Serve, Arrived, Goto, At
<1>4. ASSUME NEW c \in Calls, ServeLogout(c) PROVE Issued'
  BY <1>4 DEF ServeLogout, Arrived, Goto, Live, At
<1>5. ASSUME NEW c \in Calls, ServeLogin(c) PROVE Issued'
  BY NewPairFresh, <1>5 DEF ServeLogin, Arrived, Row, Live, At
<1>6. ASSUME NEW c \in Calls, Deny(c) PROVE Issued'
  BY <1>6 DEF Deny, Arrived, Goto, MayBeAuthorized, At
<1>7. ASSUME NEW c \in Calls, CheckRefresh(c) PROVE Issued'
  BY <1>7 DEF CheckRefresh, Goto, Live, At
<1>8. ASSUME NEW c \in Calls, RefuseRefresh(c) PROVE Issued'
  BY <1>8 DEF RefuseRefresh, Goto, Live, At
<1>9. ASSUME NEW c \in Calls, Rotate(c) PROVE Issued'
  BY <1>9 DEF Rotate, Goto, At
<1>10. ASSUME NEW c \in Calls, Issue(c) PROVE Issued'
  BY NewPairFresh, <1>10 DEF Issue, Row, Live, At
<1>11. ASSUME NEW c \in Calls, AskRefresh(c) PROVE Issued'
  BY <1>11 DEF AskRefresh, At
<1>12. ASSUME NEW c \in Calls, NothingToAsk(c) PROVE Issued'
  BY <1>12 DEF NothingToAsk, Goto, At
<1>13. ASSUME NEW c \in Calls, Resend(c) PROVE Issued'
  BY <1>13 DEF Resend, At
<1>14. ASSUME NEW c \in Calls, Settle(c) PROVE Issued'
  BY <1>14 DEF Settle, Gone, NoCall, Call, At
<1>15. ASSUME NEW c \in Calls, ShowUser(c) PROVE Issued'
  BY <1>15 DEF ShowUser, Gone, NoCall, Call, At
<1>16. ASSUME NEW c \in Calls, SignedIn(c) PROVE Issued'
  BY <1>16 DEF SignedIn, Me, Call, At
<1>17. ASSUME NEW c \in Calls, SignedOut(c) PROVE Issued'
  BY <1>17 DEF SignedOut, Gone, NoCall, Call, At
<1>18. ASSUME NEW c \in Calls, Lose(c) PROVE Issued'
  BY <1>18 DEF Lose, Goto
<1>19. ASSUME NEW c \in Calls, Reload(c) PROVE Issued'
  BY <1>19 DEF Reload, Me, Call, NoCall
<1>20. ASSUME NEW c \in Calls, NEW u \in Users, Login(c, u) PROVE Issued'
  BY <1>20 DEF Login, Begin, Call, At
<1>21. CASE LogoutHere
  BY <1>21 DEF LogoutHere
<1>22. CASE AtRest \/ UNCHANGED vars
  BY <1>22 DEF AtRest, vars
<1>23. QED
  BY <1>1, <1>2, <1>3, <1>4, <1>5, <1>6, <1>7, <1>8, <1>9, <1>10, <1>11, <1>12, <1>13,
     <1>14, <1>15, <1>16, <1>17, <1>18, <1>19, <1>20, <1>21, <1>22 DEF Next, CallStep,
     Served, Answered

\* Every step keeps the rotations of one process apart.
LEMMA StepKeepsRotation ==
    ASSUME TypeOK, Issued, OneProcess, Apart, [Next]_vars
    PROVE  Apart'
<1> USE NoneAssumption DEF TypeOK, Rows, Requests, Complete, Issued, Held, At, Live, Rotating,
       Admitted, Apart, OneRotation, CheckedIsLive, RotatedIsBare, OneLivePerLogin
<1>1. ASSUME NEW c \in Calls, Fetch(c) PROVE Apart'
  BY <1>1 DEF Fetch, Begin, Call, At
<1>2. ASSUME NEW c \in Calls, Logout(c) PROVE Apart'
  BY <1>2 DEF Logout, Begin, Call, At
<1>3. ASSUME NEW c \in Calls, Serve(c) PROVE Apart'
  BY <1>3 DEF Serve, Arrived, Goto, At
<1>4. ASSUME NEW c \in Calls, ServeLogout(c) PROVE Apart'
  BY <1>4 DEF ServeLogout, Arrived, Goto, Live, At
<1>5. ASSUME NEW c \in Calls, ServeLogin(c) PROVE Apart'
  BY NewPairFresh, <1>5 DEF ServeLogin, Arrived, Row, Live, At
<1>6. ASSUME NEW c \in Calls, Deny(c) PROVE Apart'
  BY <1>6 DEF Deny, Arrived, Goto, MayBeAuthorized, At
<1>7. ASSUME NEW c \in Calls, CheckRefresh(c) PROVE Apart'
  BY <1>7 DEF CheckRefresh, Goto, Live, At
<1>8. ASSUME NEW c \in Calls, RefuseRefresh(c) PROVE Apart'
  BY <1>8, SMTT(30), ZenonT(60) DEF RefuseRefresh, Goto, Live, At
<1>9. ASSUME NEW c \in Calls, Rotate(c) PROVE Apart'
  BY <1>9 DEF Rotate, Goto, At
<1>10. ASSUME NEW c \in Calls, Issue(c) PROVE Apart'
  BY NewPairFresh, <1>10 DEF Issue, Row, Live, At
<1>11. ASSUME NEW c \in Calls, AskRefresh(c) PROVE Apart'
  BY <1>11 DEF AskRefresh, At
<1>12. ASSUME NEW c \in Calls, NothingToAsk(c) PROVE Apart'
  BY <1>12 DEF NothingToAsk, Goto, At
<1>13. ASSUME NEW c \in Calls, Resend(c) PROVE Apart'
  BY <1>13 DEF Resend, At
<1>14. ASSUME NEW c \in Calls, Settle(c) PROVE Apart'
  BY <1>14 DEF Settle, Gone, NoCall, Call, At
<1>15. ASSUME NEW c \in Calls, ShowUser(c) PROVE Apart'
  BY <1>15 DEF ShowUser, Gone, NoCall, Call, At
<1>16. ASSUME NEW c \in Calls, SignedIn(c) PROVE Apart'
  BY <1>16 DEF SignedIn, Me, Call, At
<1>17. ASSUME NEW c \in Calls, SignedOut(c) PROVE Apart'
  BY <1>17 DEF SignedOut, Gone, NoCall, Call, At
<1>18. ASSUME NEW c \in Calls, Lose(c) PROVE Apart'
  BY <1>18 DEF Lose, Goto
<1>19. ASSUME NEW c \in Calls, Reload(c) PROVE Apart'
  BY <1>19 DEF Reload, Me, Call, NoCall
<1>20. ASSUME NEW c \in Calls, NEW u \in Users, Login(c, u) PROVE Apart'
  BY <1>20 DEF Login, Begin, Call, At
<1>21. CASE LogoutHere
  BY <1>21 DEF LogoutHere
<1>22. CASE AtRest \/ UNCHANGED vars
  BY <1>22 DEF AtRest, vars
<1>23. QED
  BY <1>1, <1>2, <1>3, <1>4, <1>5, <1>6, <1>7, <1>8, <1>9, <1>10, <1>11, <1>12, <1>13,
     <1>14, <1>15, <1>16, <1>17, <1>18, <1>19, <1>20, <1>21, <1>22 DEF Next, CallStep,
     Served, Answered

\* The browser opens on an empty table.
LEMMA InitEstablishes == Init => IInv
BY NoneAssumption, BoundsAssumption
DEF Init, IInv, Apart, TypeOK, Rows, Requests, Complete, Issued, Held, OneRotation,
    Rotating, CheckedIsLive, RotatedIsBare, OneLivePerLogin, At, Live, NoRow, Row, NoCall, Call

\* The inductive invariant: what a rotation has checked stays so until it commits.
THEOREM Invariance == Spec => []IInv
<1>1. IInv /\ [Next]_vars => IInv'
  <2> SUFFICES ASSUME IInv, [Next]_vars PROVE IInv'
    OBVIOUS
  <2>1. TypeOK' /\ Issued'
    BY StepKeepsTypes, StepKeepsIssued DEF IInv
  <2>2. CASE OneProcess
    BY <2>1, <2>2, StepKeepsRotation DEF IInv
  <2>3. CASE ~OneProcess
    BY <2>1, <2>3 DEF IInv
  <2>4. QED
    BY <2>2, <2>3
<1>2. QED
  BY <1>1, InitEstablishes, PTL DEF Spec

\* The types, and that whoever is about to use a token has one.
THEOREM SessionTypes == Spec => []TypeOK
<1>1. IInv => TypeOK
  BY DEF IInv
<1>2. QED
  BY <1>1, Invariance, PTL

\* With one API process, a sign-in has at most one refresh token that can still be used,
\* whatever requests, losses and reloads interleave.
THEOREM OneLiveToken == ASSUME OneProcess PROVE Spec => []OneLivePerLogin
<1>1. IInv => OneLivePerLogin
  BY DEF IInv, Apart
<1>2. QED
  BY <1>1, Invariance, PTL

----
\* A call that brings a new pair to the browser: a refresh that was granted, a login.
Bearing(c) == At(c, "granted") \/ (call[c].kind = "login" /\ At(c, "ok"))

\* Nobody else knows the pair it brings, so nobody can have revoked it.
GrantedIsNew ==
    \A c \in Calls : Bearing(c) =>
        LET r == call[c].pair IN
        /\ Live(r) /\ r # stored
        /\ \A d \in Calls : call[d].ends # r /\ (d # c => call[d].pair # r)

\* Who has no request in progress asks for nothing.
IdleIsQuiet == \A c \in Calls : At(c, "idle") => call[c].kind = "none"

\* Every step leaves new pairs known to their call alone.
LEMMA StepKeepsGranted ==
    ASSUME TypeOK, Issued, GrantedIsNew, [Next]_vars
    PROVE  GrantedIsNew'
<1> USE NoneAssumption DEF TypeOK, Rows, Requests, Complete, Issued, Held, At, Live, Bearing,
       GrantedIsNew
<1>1. ASSUME NEW c \in Calls, Fetch(c) PROVE GrantedIsNew'
  BY <1>1 DEF Fetch, Begin, Call
<1>2. ASSUME NEW c \in Calls, Logout(c) PROVE GrantedIsNew'
  BY <1>2 DEF Logout, Begin, Call
<1>3. ASSUME NEW c \in Calls, Serve(c) PROVE GrantedIsNew'
  BY <1>3 DEF Serve, Arrived, Goto
<1>4. ASSUME NEW c \in Calls, ServeLogout(c) PROVE GrantedIsNew'
  BY <1>4 DEF ServeLogout, Arrived, Goto
<1>5. ASSUME NEW c \in Calls, ServeLogin(c) PROVE GrantedIsNew'
  BY NewPairFresh, <1>5 DEF ServeLogin, Arrived, Row
<1>6. ASSUME NEW c \in Calls, Deny(c) PROVE GrantedIsNew'
  BY <1>6 DEF Deny, Arrived, Goto, MayBeAuthorized
<1>7. ASSUME NEW c \in Calls, CheckRefresh(c) PROVE GrantedIsNew'
  BY <1>7 DEF CheckRefresh, Goto
<1>8. ASSUME NEW c \in Calls, RefuseRefresh(c) PROVE GrantedIsNew'
  BY <1>8 DEF RefuseRefresh, Goto
<1>9. ASSUME NEW c \in Calls, Rotate(c) PROVE GrantedIsNew'
  BY <1>9 DEF Rotate, Goto
<1>10. ASSUME NEW c \in Calls, Issue(c) PROVE GrantedIsNew'
  BY NewPairFresh, <1>10 DEF Issue, Row
<1>11. ASSUME NEW c \in Calls, AskRefresh(c) PROVE GrantedIsNew'
  BY <1>11 DEF AskRefresh
<1>12. ASSUME NEW c \in Calls, NothingToAsk(c) PROVE GrantedIsNew'
  BY <1>12 DEF NothingToAsk, Goto
<1>13. ASSUME NEW c \in Calls, Resend(c) PROVE GrantedIsNew'
  BY <1>13 DEF Resend
<1>14. ASSUME NEW c \in Calls, Settle(c) PROVE GrantedIsNew'
  BY <1>14 DEF Settle, Gone, NoCall, Call
<1>15. ASSUME NEW c \in Calls, ShowUser(c) PROVE GrantedIsNew'
  BY <1>15 DEF ShowUser, Gone, NoCall, Call
<1>16. ASSUME NEW c \in Calls, SignedIn(c) PROVE GrantedIsNew'
  BY <1>16 DEF SignedIn, Me, Call
<1>17. ASSUME NEW c \in Calls, SignedOut(c) PROVE GrantedIsNew'
  BY <1>17 DEF SignedOut, Gone, NoCall, Call
<1>18. ASSUME NEW c \in Calls, Lose(c) PROVE GrantedIsNew'
  BY <1>18 DEF Lose, Goto
<1>19. ASSUME NEW c \in Calls, Reload(c) PROVE GrantedIsNew'
  BY <1>19 DEF Reload, Me, Call, NoCall
<1>20. ASSUME NEW c \in Calls, NEW u \in Users, Login(c, u) PROVE GrantedIsNew'
  BY <1>20 DEF Login, Begin, Call
<1>21. CASE LogoutHere
  BY <1>21 DEF LogoutHere
<1>22. CASE AtRest \/ UNCHANGED vars
  BY <1>22 DEF AtRest, vars
<1>23. QED
  BY <1>1, <1>2, <1>3, <1>4, <1>5, <1>6, <1>7, <1>8, <1>9, <1>10, <1>11, <1>12, <1>13,
     <1>14, <1>15, <1>16, <1>17, <1>18, <1>19, <1>20, <1>21, <1>22 DEF Next, CallStep,
     Served, Answered

\* A call that ends asks for nothing any more.
LEMMA StepKeepsIdle ==
    ASSUME TypeOK, IdleIsQuiet, [Next]_vars
    PROVE  IdleIsQuiet'
<1> USE DEF TypeOK, Rows, Requests, At, IdleIsQuiet
<1>1. ASSUME NEW c \in Calls, Fetch(c) PROVE IdleIsQuiet'
  BY <1>1 DEF Fetch, Begin, Call
<1>2. ASSUME NEW c \in Calls, Logout(c) PROVE IdleIsQuiet'
  BY <1>2 DEF Logout, Begin, Call
<1>3. ASSUME NEW c \in Calls, Serve(c) PROVE IdleIsQuiet'
  BY <1>3 DEF Serve, Arrived, Goto
<1>4. ASSUME NEW c \in Calls, ServeLogout(c) PROVE IdleIsQuiet'
  BY <1>4 DEF ServeLogout, Arrived, Goto
<1>5. ASSUME NEW c \in Calls, ServeLogin(c) PROVE IdleIsQuiet'
  BY <1>5 DEF ServeLogin, Arrived, Row
<1>6. ASSUME NEW c \in Calls, Deny(c) PROVE IdleIsQuiet'
  BY <1>6 DEF Deny, Arrived, Goto, MayBeAuthorized
<1>7. ASSUME NEW c \in Calls, CheckRefresh(c) PROVE IdleIsQuiet'
  BY <1>7 DEF CheckRefresh, Goto
<1>8. ASSUME NEW c \in Calls, RefuseRefresh(c) PROVE IdleIsQuiet'
  BY <1>8 DEF RefuseRefresh, Goto
<1>9. ASSUME NEW c \in Calls, Rotate(c) PROVE IdleIsQuiet'
  BY <1>9 DEF Rotate, Goto
<1>10. ASSUME NEW c \in Calls, Issue(c) PROVE IdleIsQuiet'
  BY <1>10 DEF Issue, Row
<1>11. ASSUME NEW c \in Calls, AskRefresh(c) PROVE IdleIsQuiet'
  BY <1>11 DEF AskRefresh
<1>12. ASSUME NEW c \in Calls, NothingToAsk(c) PROVE IdleIsQuiet'
  BY <1>12 DEF NothingToAsk, Goto
<1>13. ASSUME NEW c \in Calls, Resend(c) PROVE IdleIsQuiet'
  BY <1>13 DEF Resend
<1>14. ASSUME NEW c \in Calls, Settle(c) PROVE IdleIsQuiet'
  BY <1>14 DEF Settle, Gone, NoCall, Call
<1>15. ASSUME NEW c \in Calls, ShowUser(c) PROVE IdleIsQuiet'
  BY <1>15 DEF ShowUser, Gone, NoCall, Call
<1>16. ASSUME NEW c \in Calls, SignedIn(c) PROVE IdleIsQuiet'
  BY <1>16 DEF SignedIn, Me, Call
<1>17. ASSUME NEW c \in Calls, SignedOut(c) PROVE IdleIsQuiet'
  BY <1>17 DEF SignedOut, Gone, NoCall, Call
<1>18. ASSUME NEW c \in Calls, Lose(c) PROVE IdleIsQuiet'
  BY <1>18 DEF Lose, Goto
<1>19. ASSUME NEW c \in Calls, Reload(c) PROVE IdleIsQuiet'
  BY <1>19 DEF Reload, Me, Call, NoCall
<1>20. ASSUME NEW c \in Calls, NEW u \in Users, Login(c, u) PROVE IdleIsQuiet'
  BY <1>20 DEF Login, Begin, Call
<1>21. CASE LogoutHere
  BY <1>21 DEF LogoutHere
<1>22. CASE AtRest \/ UNCHANGED vars
  BY <1>22 DEF AtRest, vars
<1>23. QED
  BY <1>1, <1>2, <1>3, <1>4, <1>5, <1>6, <1>7, <1>8, <1>9, <1>10, <1>11, <1>12, <1>13,
     <1>14, <1>15, <1>16, <1>17, <1>18, <1>19, <1>20, <1>21, <1>22 DEF Next, CallStep,
     Served, Answered

\* Every step that revokes the stored pair is on the way to replace it.
LEMMA StepKeepsStored ==
    ASSUME TypeOK, Issued, GrantedIsNew, IdleIsQuiet, StoredIsUsable, [Next]_vars
    PROVE  StoredIsUsable'
<1> USE NoneAssumption DEF TypeOK, Rows, Requests, Complete, Issued, Held, At, Live, Bearing,
       GrantedIsNew, IdleIsQuiet, StoredIsUsable
<1>1. ASSUME NEW c \in Calls, Fetch(c) PROVE StoredIsUsable'
  BY <1>1 DEF Fetch, Begin, Call
<1>2. ASSUME NEW c \in Calls, Logout(c) PROVE StoredIsUsable'
  BY <1>2 DEF Logout, Begin, Call
<1>3. ASSUME NEW c \in Calls, Serve(c) PROVE StoredIsUsable'
  BY <1>3 DEF Serve, Arrived, Goto
<1>4. ASSUME NEW c \in Calls, ServeLogout(c) PROVE StoredIsUsable'
  BY <1>4 DEF ServeLogout, Arrived, Goto
<1>5. ASSUME NEW c \in Calls, ServeLogin(c) PROVE StoredIsUsable'
  BY NewPairFresh, <1>5 DEF ServeLogin, Arrived, Row
<1>6. ASSUME NEW c \in Calls, Deny(c) PROVE StoredIsUsable'
  BY <1>6 DEF Deny, Arrived, Goto, MayBeAuthorized
<1>7. ASSUME NEW c \in Calls, CheckRefresh(c) PROVE StoredIsUsable'
  BY <1>7 DEF CheckRefresh, Goto
<1>8. ASSUME NEW c \in Calls, RefuseRefresh(c) PROVE StoredIsUsable'
  BY <1>8 DEF RefuseRefresh, Goto
<1>9. ASSUME NEW c \in Calls, Rotate(c) PROVE StoredIsUsable'
  BY <1>9 DEF Rotate, Goto
<1>10. ASSUME NEW c \in Calls, Issue(c) PROVE StoredIsUsable'
  BY NewPairFresh, <1>10 DEF Issue, Row
<1>11. ASSUME NEW c \in Calls, AskRefresh(c) PROVE StoredIsUsable'
  BY <1>11 DEF AskRefresh
<1>12. ASSUME NEW c \in Calls, NothingToAsk(c) PROVE StoredIsUsable'
  BY <1>12 DEF NothingToAsk, Goto
<1>13. ASSUME NEW c \in Calls, Resend(c) PROVE StoredIsUsable'
  BY <1>13 DEF Resend
<1>14. ASSUME NEW c \in Calls, Settle(c) PROVE StoredIsUsable'
  BY <1>14 DEF Settle, Gone, NoCall, Call
<1>15. ASSUME NEW c \in Calls, ShowUser(c) PROVE StoredIsUsable'
  BY <1>15 DEF ShowUser, Gone, NoCall, Call
<1>16. ASSUME NEW c \in Calls, SignedIn(c) PROVE StoredIsUsable'
  BY <1>16 DEF SignedIn, Me, Call
<1>17. ASSUME NEW c \in Calls, SignedOut(c) PROVE StoredIsUsable'
  BY <1>17 DEF SignedOut, Gone, NoCall, Call
<1>18. ASSUME NEW c \in Calls, Lose(c) PROVE StoredIsUsable'
  BY <1>18 DEF Lose, Goto
<1>19. ASSUME NEW c \in Calls, Reload(c) PROVE StoredIsUsable'
  BY <1>19 DEF Reload, Me, Call, NoCall
<1>20. ASSUME NEW c \in Calls, NEW u \in Users, Login(c, u) PROVE StoredIsUsable'
  BY <1>20 DEF Login, Begin, Call
<1>21. CASE LogoutHere
  BY <1>21 DEF LogoutHere
<1>22. CASE AtRest \/ UNCHANGED vars
  BY <1>22 DEF AtRest, vars
<1>23. QED
  BY <1>1, <1>2, <1>3, <1>4, <1>5, <1>6, <1>7, <1>8, <1>9, <1>10, <1>11, <1>12, <1>13,
     <1>14, <1>15, <1>16, <1>17, <1>18, <1>19, <1>20, <1>21, <1>22 DEF Next, CallStep,
     Served, Answered

\* Until something is lost, the refresh token the browser keeps is not revoked behind its
\* back, in any number of API processes: requests that are refused together and refresh
\* together do not sign their user out.
THEOREM StoredStaysUsable == Spec => []StoredIsUsable
<1> DEFINE Inv == GrantedIsNew /\ IdleIsQuiet /\ StoredIsUsable
<1>1. Init => Inv
  BY DEF Init, GrantedIsNew, Bearing, IdleIsQuiet, StoredIsUsable, At, NoCall, Call
<1>2. IInv /\ Inv /\ [Next]_vars => Inv'
  BY StepKeepsGranted, StepKeepsIdle, StepKeepsStored DEF IInv
<1>3. Inv => StoredIsUsable
  OBVIOUS
<1>4. QED
  BY <1>1, <1>2, <1>3, Invariance, PTL DEF Spec

====
