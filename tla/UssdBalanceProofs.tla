------------------------- MODULE UssdBalanceProofs -------------------------
(***************************************************************************)
(* A session is stranded in the balance menu only by the failure, the      *)
(* panic or the death of one of its requests: for every number of requests *)
(* and every interleaving.                                                 *)
(*                                                                         *)
(* The invariant the steps need is IInv with Identified: what is looked up *)
(* under a key was saved there by a request of the same session, and only  *)
(* handleMainMenu saves the balance menu, going on with handleBalanceMenu. *)
(***************************************************************************)
EXTENDS UssdMandateProofs

BInv == IInv /\ Identified

\* What BalanceIsTransient says of one session.
StrandedByBreaking(sid) ==
  Stranded(sid)' => Stranded(sid) \/ \E r \in Open(sid) : Breaks(r)

-----------------------------------------------------------------------------
\* Without an input, the balance menu panics or saves the session.
LEMMA BalanceMovesOn ==
  ASSUME NEW s \in Session, s.current_menu = "balance"
  PROVE  LET p == processUSSDInput(s, Empty) IN
           p.save # None \/ (p.save = None /\ p.next = "panic")
<1>1. CASE AccountPanics(s)
  <2>1. processUSSDInput(s, Empty) = Say("panic")
    BY <1>1 DEF processUSSDInput, handleBalanceMenu, Empty
  <2> QED
    BY <2>1 DEF Say
<1>2. CASE ~AccountPanics(s)
  <2>1. processUSSDInput(s, Empty) = SaveThen(ToMain(s), "END balance")
    BY <1>2 DEF processUSSDInput, handleBalanceMenu, Empty
  <2>2. SaveThen(ToMain(s), "END balance").save = ToMain(s)
    BY DEF SaveThen
  <2>3. ToMain(s) # None
    BY ClearingKeeps, NoneIsNew
  <2> QED
    BY <2>1, <2>2, <2>3
<1> QED
  BY <1>1, <1>2

\* A request that another one's step leaves alone still moves on.
LEMMA OthersMoveOn ==
  ASSUME NEW r \in Requests, OthersStay(r), NEW sid,
         NEW q \in Open(sid), MovesOn(q), q # r
  PROVE  ~Stranded(sid)'
<1>1. q \in Requests /\ Place(q)' = Place(q)
  BY DEF Open, OthersStay
<1>2. q \in Open(sid)' /\ MovesOn(q)'
  BY <1>1 DEF Place, Open, MovesOn, Empty
<1> QED
  BY <1>2 DEF Stranded

\* A step that does not put the session into the balance menu strands it only
\* by the request that takes the step, and only if that one moved on before.
LEMMA StrandingStep ==
  ASSUME NEW r \in Requests, OthersStay(r), NEW sid,
         InBalance(sid)' => InBalance(sid),
         r \in Open(sid) /\ MovesOn(r)
           => Breaks(r) \/ (r \in Open(sid)' /\ MovesOn(r)')
  PROVE  StrandedByBreaking(sid)
<1> SUFFICES ASSUME Stranded(sid)', ~Stranded(sid)
             PROVE  \E q \in Open(sid) : Breaks(q)
  BY DEF StrandedByBreaking
<1>1. PICK q \in Open(sid) : MovesOn(q)
  BY DEF Stranded
<1>2. q = r
  BY <1>1, OthersMoveOn
<1>3. ~(r \in Open(sid)' /\ MovesOn(r)')
  BY DEF Stranded
<1> QED
  BY <1>1, <1>2, <1>3

-----------------------------------------------------------------------------
LEMMA ProcessStrands ==
  ASSUME BInv, NEW r \in Requests, Process(r), NEW sid \in SessionIDs
  PROVE  StrandedByBreaking(sid)
<1> DEFINE p == processUSSDInput(sess[r], msg[r].input)
<1>1. pc[r] = "process" /\ sess[r] \in Session
  BY DEF BInv, IInv, Process, TypeOK
<1>2. /\ plan' = [plan EXCEPT ![r] = p] /\ UNCHANGED <<redis, msg, sess>>
      /\ pc' = [pc EXCEPT ![r] = IF p.save = None THEN "reply" ELSE "save"]
  BY DEF Process, Decide, Goto
<1>3. ASSUME MovesOn(r) PROVE p.save # None \/ (p.save = None /\ p.next = "panic")
  BY <1>1, <1>3, BalanceMovesOn DEF MovesOn
<1> HIDE DEF p
<1>4. OthersStay(r) /\ InBalance(sid)' = InBalance(sid)
  BY <1>2 DEF BInv, IInv, TypeOK, OthersStay, Place, InBalance
<1>5. /\ plan'[r] = p /\ msg'[r] = msg[r]
      /\ pc'[r] = IF p.save = None THEN "reply" ELSE "save"
  BY <1>2 DEF BInv, IInv, TypeOK
<1>6. ASSUME r \in Open(sid), MovesOn(r)
      PROVE  Breaks(r) \/ (r \in Open(sid)' /\ MovesOn(r)')
  <2>1. CASE p.save # None
    BY <1>5, <1>6, <2>1 DEF Open, MovesOn
  <2>2. CASE p.save = None /\ p.next = "panic"
    BY <1>1, <1>5, <2>2 DEF Breaks
  <2> QED
    BY <1>3, <1>6, <2>1, <2>2
<1> QED
  BY <1>4, <1>6, StrandingStep

\* The request that puts a session into the balance menu is the next to move
\* it on; one that saves another menu takes it out.
LEMMA SaveSessionStrands ==
  ASSUME BInv, NEW r \in Requests, SaveSession(r), NEW sid \in SessionIDs
  PROVE  StrandedByBreaking(sid)
<1>1. /\ pc[r] = "save" /\ Store(r) /\ msg[r] \in Message
      /\ plan[r].save.current_menu = "balance" => plan[r].next = "handleBalanceMenu"
      /\ redis[LookupKey(sid)] # None => "key" \in Repaired
  BY DEF SaveSession, BInv, IInv, TypeOK, Identified, StoredUnderItsID,
     SavedUnderItsID
<1>2. OthersStay(r)
  BY DEF SaveSession, BInv, IInv, TypeOK, OthersStay, Place, Goto
<1>3. \/ /\ sid = msg[r].sid /\ redis'[LookupKey(sid)] = plan[r].save
      \/ /\ sid # msg[r].sid \/ "key" \notin Repaired
         /\ redis'[LookupKey(sid)] = redis[LookupKey(sid)]
  BY <1>1, SaveWritesItsKey DEF BInv, Identified
<1>4. CASE sid = msg[r].sid /\ redis'[LookupKey(sid)] = plan[r].save
  <2>1. ASSUME InBalance(sid)' PROVE r \in Open(sid)' /\ MovesOn(r)'
    <3>1. plan[r].save.current_menu = "balance"
      BY <1>4, <2>1 DEF InBalance, LookupKey
    <3>2. /\ pc' = [pc EXCEPT ![r] = "process"]
          /\ sess' = [sess EXCEPT ![r] = plan[r].save]
          /\ msg' = [msg EXCEPT ![r].input = Empty]
      BY <1>1, <3>1 DEF SaveSession, Goto
    <3>3. /\ pc'[r] = "process" /\ sess'[r] = plan[r].save
          /\ msg'[r].input = Empty /\ msg'[r].sid = msg[r].sid
      BY <1>1, <3>2 DEF BInv, IInv, TypeOK, Message
    <3> QED
      BY <1>4, <3>1, <3>3 DEF Open, MovesOn, Empty
  <2> QED
    BY <2>1 DEF StrandedByBreaking, Stranded
<1>5. CASE /\ sid # msg[r].sid \/ "key" \notin Repaired
           /\ redis'[LookupKey(sid)] = redis[LookupKey(sid)]
  <2>1. InBalance(sid)' => InBalance(sid)
    BY <1>5 DEF InBalance, LookupKey
  <2>2. InBalance(sid) => r \notin Open(sid)
    BY <1>1, <1>5 DEF InBalance, Open
  <2>3. ASSUME ~InBalance(sid) PROVE StrandedByBreaking(sid)
    BY <2>1, <2>3 DEF StrandedByBreaking, Stranded
  <2>4. ASSUME r \notin Open(sid) PROVE StrandedByBreaking(sid)
    BY <1>2, <2>1, <2>4, StrandingStep
  <2> QED
    BY <2>2, <2>3, <2>4
<1> QED
  BY <1>3, <1>4, <1>5

\* The session that was saved although saveSession failed is one of a request
\* that breaks; no other is touched.
LEMMA SaveFailsStrands ==
  ASSUME BInv, NEW r \in Requests, SaveFails(r), NEW sid \in SessionIDs
  PROVE  StrandedByBreaking(sid)
<1>1. /\ pc[r] = "save" /\ pc' = [pc EXCEPT ![r] = "reply"]
      /\ plan' = [plan EXCEPT ![r] = Say("END not saved")]
      /\ UNCHANGED redis \/ Store(r)
  BY DEF SaveFails, Goto, Decide
<1>2. OthersStay(r)
  BY DEF SaveFails, BInv, IInv, TypeOK, OthersStay, Place, Goto, Decide
<1>3. Breaks(r)
  <2>1. pc'[r] = "reply" /\ plan'[r] = Say("END not saved")
    BY <1>1 DEF BInv, IInv, TypeOK
  <2>2. Say("END not saved").next = "END not saved"
    BY DEF Say
  <2> QED
    BY <1>1, <2>1, <2>2 DEF Breaks
<1>4. ASSUME r \in Open(sid) PROVE StrandedByBreaking(sid)
  BY <1>3, <1>4 DEF StrandedByBreaking
<1>5. ASSUME r \notin Open(sid) PROVE StrandedByBreaking(sid)
  <2>1. sid # msg[r].sid
    BY <1>1, <1>5 DEF Open
  <2>2. redis'[LookupKey(sid)] = redis[LookupKey(sid)]
    BY <1>1, <2>1, SaveWritesItsKey DEF BInv, Identified
  <2>3. InBalance(sid)' => InBalance(sid)
    BY <2>2 DEF InBalance, LookupKey
  <2> QED
    BY <1>2, <1>5, <2>3, StrandingStep
<1> QED
  BY <1>4, <1>5

LEMMA OtherStrands ==
  ASSUME BInv, NEW r \in Requests, Receive(r) \/ GetSession(r) \/ Reply(r),
         NEW sid \in SessionIDs
  PROVE  StrandedByBreaking(sid)
<1>1. UNCHANGED redis /\ ~MovesOn(r)
  BY DEF Receive, GetSession, Reply, MovesOn
<1>2. OthersStay(r)
  BY DEF BInv, IInv, TypeOK, Receive, GetSession, Reply, OthersStay, Place,
     Goto, Decide
<1>3. InBalance(sid)' => InBalance(sid)
  BY <1>1 DEF InBalance, LookupKey
<1> QED
  BY <1>1, <1>2, <1>3, StrandingStep

LEMMA ExpireStrands ==
  ASSUME BInv, NEW k \in Keys, Expire(k), NEW sid \in SessionIDs
  PROVE  StrandedByBreaking(sid)
<1>1. /\ UNCHANGED <<pc, msg, sess, plan>>
      /\ redis'[LookupKey(sid)] \in {redis[LookupKey(sid)], None}
  BY KeyTypes DEF BInv, IInv, TypeOK, Expire
<1>2. InBalance(sid)' => InBalance(sid)
  BY <1>1 DEF InBalance, LookupKey
<1> QED
  BY <1>1, <1>2 DEF StrandedByBreaking, Stranded, Open, MovesOn, Empty

LEMMA CrashStrands ==
  ASSUME BInv, Crash, NEW sid \in SessionIDs
  PROVE  StrandedByBreaking(sid)
<1>1. UNCHANGED redis /\ \A q \in Requests : pc'[q] = "idle"
  BY DEF BInv, IInv, TypeOK, Crash
<1>2. ASSUME NEW q \in Open(sid), MovesOn(q) PROVE Breaks(q)
  <2>1. q \in Requests /\ pc[q] # "reply"
    BY <1>2 DEF MovesOn, Open
  <2> QED
    BY <1>1, <2>1 DEF Breaks
<1>3. InBalance(sid)' => InBalance(sid)
  BY <1>1 DEF InBalance, LookupKey
<1> QED
  BY <1>2, <1>3 DEF StrandedByBreaking, Stranded

-----------------------------------------------------------------------------
LEMMA NextStrands ==
  ASSUME BInv, [Next]_vars, NEW sid \in SessionIDs
  PROVE  StrandedByBreaking(sid)
<1>1. CASE UNCHANGED vars
  BY <1>1 DEF vars, StrandedByBreaking, Stranded, InBalance, Open, MovesOn,
     LookupKey, Empty
<1>2. ASSUME NEW r \in Requests, Receive(r) \/ Handle(r)
      PROVE  StrandedByBreaking(sid)
  BY <1>2, ProcessStrands, SaveSessionStrands, SaveFailsStrands, OtherStrands
  DEF Handle
<1>3. ASSUME NEW k \in Keys, Expire(k) PROVE StrandedByBreaking(sid)
  BY <1>3, ExpireStrands
<1>4. CASE Crash
  BY <1>4, CrashStrands
<1> QED
  BY <1>1, <1>2, <1>3, <1>4 DEF Next

\* handleMainMenu stores the balance menu, whose handler answers every input
\* but an empty one with the main menu (wallet.go:54), and goes on with that
\* handler in the same request (ussd.go:196-200, wallet.go:36-48).  Only if a
\* request of the session fails to save it, panics or dies is it left there:
\* whatever the number of requests, their interleaving and the subscribers.
THEOREM BalanceIsLeftAgain == Spec => BalanceIsTransient
<1>1. Init => BInv
  BY InitMInv DEF BInv, MInv
<1>2. BInv /\ [Next]_vars => BInv'
  BY NextIInv, NextIdentified DEF BInv
<1>3. BInv /\ [Next]_vars =>
        [\A sid \in SessionIDs :
           Stranded(sid)' => \/ Stranded(sid)
                             \/ \E r \in Open(sid) : Breaks(r)]_vars
  BY NextStrands DEF StrandedByBreaking
<1> QED
  BY <1>1, <1>2, <1>3, PTL DEF Spec, BalanceIsTransient
=============================================================================
