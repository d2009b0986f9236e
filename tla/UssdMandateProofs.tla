------------------------- MODULE UssdMandateProofs -------------------------
(***************************************************************************)
(* No payment is made beyond the mandate of its session: a proof by        *)
(* counting the requests that may still pay, for every number of requests  *)
(* and every bound on those in flight, whatever fails or expires.          *)
(***************************************************************************)
EXTENDS UssdDialogueProofs

-----------------------------------------------------------------------------
(***************************************************************************)
(* What the handlers keep of a session they save: its identifier.  They    *)
(* save one that asks for a payment only with the reply that asks, one in  *)
(* the balance menu only to go on in that menu, and whatever they pay they *)
(* also save.                                                              *)
(***************************************************************************)
KeepingPlan(s, p) ==
  /\ p.save # None =>
       /\ p.save.session_id = s.session_id
       /\ Asks(p.save) # None => p.next \in Authorising
       /\ p.save.current_menu = "balance" <=> p.next = "handleBalanceMenu"
  /\ p.pay # None => p.save # None

LEMMA SayKeeps ==
  ASSUME NEW s, NEW next
  PROVE  KeepingPlan(s, Say(next))
BY DEF KeepingPlan, Say

\* A save that asks for nothing, outside of the balance menu.
LEMMA SaveKeeps ==
  ASSUME NEW s \in Session, NEW t \in Session, NEW pay, NEW next,
         t.session_id = s.session_id, t.current_menu # "balance",
         Asks(t) # None => next \in Authorising,
         next # "handleBalanceMenu"
  PROVE  KeepingPlan(s, SaveThen(t, next)) /\ KeepingPlan(s, PayThen(pay, t, next))
<1>1. t # None
  BY NoneIsNew
<1>2. ASSUME NEW p, p = SaveThen(t, next) \/ p = PayThen(pay, t, next)
      PROVE  KeepingPlan(s, p)
  <2>1. p.save = t /\ p.next = next
    BY <1>2 DEF SaveThen, PayThen
  <2> QED
    BY <1>1, <2>1 DEF KeepingPlan
<1> QED
  BY <1>2

LEMMA MainMenuKeeps ==
  ASSUME NEW s \in Session, WellFormed(s), s.current_menu = "main",
         NEW input
  PROVE  KeepingPlan(s, handleMainMenu(s, input))
<1>1. CASE input.txt = "1"
  <2> DEFINE b == [s EXCEPT !.current_menu = "balance"]
  <2>1. handleMainMenu(s, input) = SaveThen(b, "handleBalanceMenu")
    BY <1>1 DEF handleMainMenu
  <2>2. b.current_menu = "balance" /\ b.session_id = s.session_id
    BY DEF Session
  <2>3. b # None /\ Asks(b) = None
    BY <2>2, NoneIsNew DEF Asks, Session, Menus
  <2> HIDE DEF b
  <2> QED
    BY <2>1, <2>2, <2>3 DEF KeepingPlan, SaveThen
<1>2. CASE input.txt = "2"
  <2> DEFINE u == [s EXCEPT !.current_menu = "transfer",
                            !.transfer_step = "recipient"]
  <2>1. handleMainMenu(s, input) = SaveThen(u, "CON recipient")
    BY <1>2 DEF handleMainMenu
  <2>2. u \in Session /\ u.session_id = s.session_id /\ u.current_menu # "balance"
    BY DEF Session, Menus
  <2>3. Asks(u) = None
    BY DEF Asks, Session
  <2> QED
    BY <2>1, <2>2, <2>3, SaveKeeps
<1>3. CASE input.txt = "3"
  <2> DEFINE u == [s EXCEPT !.current_menu = "deposit",
                            !.deposit_step = "amount"]
  <2>1. handleMainMenu(s, input) = SaveThen(u, "CON amount")
    BY <1>3 DEF handleMainMenu
  <2>2. u \in Session /\ u.session_id = s.session_id /\ u.current_menu # "balance"
    BY DEF Session, Menus
  <2>3. Asks(u) = None
    BY DEF Asks, Session
  <2> QED
    BY <2>1, <2>2, <2>3, SaveKeeps
<1>4. CASE input.txt = "4"
  <2> DEFINE u == [s EXCEPT !.current_menu = "withdraw",
                            !.withdraw_step = "amount"]
  <2>1. handleMainMenu(s, input) = SaveThen(u, "CON amount")
    BY <1>4 DEF handleMainMenu
  <2>2. u \in Session /\ u.session_id = s.session_id /\ u.current_menu # "balance"
    BY DEF Session, Menus
  <2>3. Asks(u) = None
    BY DEF Asks, Session
  <2> QED
    BY <2>1, <2>2, <2>3, SaveKeeps
<1>5. CASE input.txt \notin {"1", "2", "3", "4"}
  <2>1. \/ handleMainMenu(s, input) = Say("END bye")
        \/ handleMainMenu(s, input) = Say("CON invalid option")
        \/ handleMainMenu(s, input) =
             Say(IF AccountPanics(s) THEN "panic" ELSE "END info")
    BY <1>5 DEF handleMainMenu
  <2> QED
    BY <2>1, SayKeeps
<1> QED
  BY <1>1, <1>2, <1>3, <1>4, <1>5

\* Back in the main menu, a session asks for nothing.
LEMMA ClearingKeeps ==
  ASSUME NEW s \in Session
  PROVE  \A t \in {ToMain(s), ClearTransfer(s), ClearDeposit(s), ClearWithdraw(s)} :
           /\ t \in Session /\ t.session_id = s.session_id
           /\ t.current_menu = "main" /\ Asks(t) = None
<1>1. ASSUME NEW t \in {ToMain(s), ClearTransfer(s), ClearDeposit(s), ClearWithdraw(s)}
      PROVE  /\ t \in Session /\ t.session_id = s.session_id
             /\ t.current_menu = "main"
  BY DEF ToMain, ClearTransfer, ClearDeposit, ClearWithdraw, Session, Menus
<1>2. \A t : t.current_menu = "main" => Asks(t) = None
  BY DEF Asks
<1> QED
  BY <1>1, <1>2

LEMMA BalanceMenuKeeps ==
  ASSUME NEW s \in Session, NEW input
  PROVE  KeepingPlan(s, handleBalanceMenu(s, input))
<1>1. KeepingPlan(s, SaveThen(ToMain(s), "END balance"))
  BY ClearingKeeps, SaveKeeps
<1> QED
  BY <1>1, SayKeeps DEF handleBalanceMenu, getMainMenu

LEMMA TransferMenuKeeps ==
  ASSUME NEW s \in Session, WellFormed(s), s.current_menu = "transfer",
         NEW input \in Inputs \cup {Empty}
  PROVE  KeepingPlan(s, handleTransferMenu(s, input))
<1>1. CASE s.transfer_step = "amount"
  <2> DEFINE t == [s EXCEPT !.transfer_amount = input.num,
                            !.transfer_step = "confirm"]
  <2>1. \/ \E next : TransferAmount(s, input) = Say(next)
        \/ /\ ~InvalidAmount(input)
           /\ TransferAmount(s, input) = SaveThen(t, "CON confirm")
    <3>1. s.transfer_recipient # None
      BY <1>1, NoneIsNew DEF WellFormed, InTransfer, ValidRecipient
    <3> QED
      BY <3>1, Zenon DEF TransferAmount
  <2>2. ASSUME ~InvalidAmount(input)
        PROVE  KeepingPlan(s, SaveThen(t, "CON confirm"))
    <3>1. input.num \in Numbers
      BY <2>2, ValidAmount
    <3>2. /\ t \in Session /\ t.session_id = s.session_id
          /\ t.current_menu # "balance"
      BY <3>1 DEF Session
    <3> QED
      BY <3>2, SaveKeeps DEF Authorising
  <2>3. handleTransferMenu(s, input) = TransferAmount(s, input)
    BY <1>1 DEF handleTransferMenu
  <2> QED
    BY <2>1, <2>2, <2>3, SayKeeps
<1>2. CASE s.transfer_step = "confirm"
  <2>1. \A pay : \A next \in {"END transferred", "END cancelled"} :
          /\ KeepingPlan(s, SaveThen(ClearTransfer(s), next))
          /\ KeepingPlan(s, PayThen(pay, ClearTransfer(s), next))
    BY ClearingKeeps, SaveKeeps
  <2>2. handleTransferMenu(s, input) = TransferConfirm(s, input)
    BY <1>2 DEF handleTransferMenu
  <2> QED
    BY <2>1, <2>2, SayKeeps DEF TransferConfirm
<1>3. CASE s.transfer_step = "recipient"
  <2> DEFINE t == [s EXCEPT !.transfer_recipient = input,
                            !.transfer_step = "amount"]
  <2>1. [s EXCEPT !.transfer_step = "recipient"] = s
    BY <1>3 DEF Session
  <2>2. handleTransferMenu(s, input) = TransferRecipient(s, input)
    BY <1>3, <2>1 DEF handleTransferMenu
  <2>3. ASSUME isValidPhoneNumber(input)
        PROVE  KeepingPlan(s, SaveThen(t, "CON amount"))
    <3>1. input \in Inputs
      <4>1. Empty.len = 0
        BY DEF Empty
      <4>2. ~isValidPhoneNumber(Empty)
        BY <4>1 DEF isValidPhoneNumber
      <4> QED
        BY <2>3, <4>2
    <3>2. /\ t \in Session /\ t.session_id = s.session_id
          /\ t.current_menu # "balance"
      BY <3>1 DEF Session
    <3>3. Asks(t) = None
      BY DEF Asks, Session
    <3> QED
      BY <3>2, <3>3, SaveKeeps
  <2> QED
    BY <2>2, <2>3, SayKeeps DEF TransferRecipient
<1> QED
  BY <1>1, <1>2, <1>3 DEF WellFormed, InTransfer

LEMMA DepositMenuKeeps ==
  ASSUME NEW s \in Session, WellFormed(s), s.current_menu = "deposit",
         NEW input \in Inputs \cup {Empty}
  PROVE  KeepingPlan(s, handleDepositMenu(s, input))
<1>1. CASE s.deposit_step = "method"
  <2>1. \A next \in {"END deposit", "END cancelled"} :
          KeepingPlan(s, SaveThen(ClearDeposit(s), next))
    BY ClearingKeeps, SaveKeeps
  <2>2. handleDepositMenu(s, input) = DepositMethod(s, input)
    BY <1>1 DEF handleDepositMenu
  <2> QED
    BY <2>1, <2>2, SayKeeps DEF DepositMethod
<1>2. CASE s.deposit_step = "amount"
  <2> DEFINE t == [s EXCEPT !.deposit_amount = input.num,
                            !.deposit_step = "method"]
  <2>1. [s EXCEPT !.deposit_step = "amount"] = s
    BY <1>2 DEF Session
  <2>2. handleDepositMenu(s, input) = DepositAmount(s, input)
    BY <1>2, <2>1 DEF handleDepositMenu
  <2>3. ASSUME ~InvalidAmount(input)
        PROVE  KeepingPlan(s, SaveThen(t, "CON deposit method"))
    <3>1. input.num \in Numbers
      BY <2>3, ValidAmount
    <3>2. /\ t \in Session /\ t.session_id = s.session_id
          /\ t.current_menu = "deposit"
      BY <3>1 DEF Session
    <3>3. Asks(t) = None
      BY <3>2 DEF Asks
    <3> QED
      BY <3>2, <3>3, SaveKeeps
  <2> QED
    BY <2>2, <2>3, SayKeeps DEF DepositAmount
<1> QED
  BY <1>1, <1>2 DEF WellFormed, InDeposit

LEMMA WithdrawMenuKeeps ==
  ASSUME NEW s \in Session, WellFormed(s), s.current_menu = "withdraw",
         NEW input \in Inputs \cup {Empty}
  PROVE  KeepingPlan(s, handleWithdrawMenu(s, input))
<1>1. CASE s.withdraw_step = "method"
  <2>1. \A pay : \A next \in {"END withdrawn", "END cancelled"} :
          /\ KeepingPlan(s, SaveThen(ClearWithdraw(s), next))
          /\ KeepingPlan(s, PayThen(pay, ClearWithdraw(s), next))
    BY ClearingKeeps, SaveKeeps
  <2>2. handleWithdrawMenu(s, input) = WithdrawMethod(s, input)
    BY <1>1 DEF handleWithdrawMenu
  <2> QED
    BY <2>1, <2>2, SayKeeps DEF WithdrawMethod
<1>2. CASE s.withdraw_step = "amount"
  <2> DEFINE t == [s EXCEPT !.withdraw_amount = input.num,
                            !.withdraw_step = "method"]
  <2>1. [s EXCEPT !.withdraw_step = "amount"] = s
    BY <1>2 DEF Session
  <2>2. handleWithdrawMenu(s, input) = WithdrawAmount(s, input)
    BY <1>2, <2>1 DEF handleWithdrawMenu
  <2>3. ASSUME ~InvalidAmount(input)
        PROVE  KeepingPlan(s, SaveThen(t, "CON withdraw method"))
    <3>1. input.num \in Numbers
      BY <2>3, ValidAmount
    <3>2. /\ t \in Session /\ t.session_id = s.session_id
          /\ t.current_menu # "balance"
      BY <3>1 DEF Session
    <3> QED
      BY <3>2, SaveKeeps DEF Authorising
  <2> QED
    BY <2>2, <2>3, SayKeeps DEF WithdrawAmount
<1> QED
  BY <1>1, <1>2 DEF WellFormed, InWithdraw

\* Whatever the menu, a session keeps its identifier, and its question is put.
LEMMA HandlersKeep ==
  ASSUME NEW s \in Session, WellFormed(s), NEW input \in Inputs \cup {Empty}
  PROVE  KeepingPlan(s, processUSSDInput(s, input))
<1>1. CASE s.current_menu = "main"
  BY <1>1, MainMenuKeeps DEF processUSSDInput
<1>2. CASE s.current_menu = "balance"
  BY <1>2, BalanceMenuKeeps DEF processUSSDInput
<1>3. CASE s.current_menu = "transfer"
  BY <1>3, TransferMenuKeeps DEF processUSSDInput
<1>4. CASE s.current_menu = "deposit"
  BY <1>4, DepositMenuKeeps DEF processUSSDInput
<1>5. CASE s.current_menu = "withdraw"
  BY <1>5, WithdrawMenuKeeps DEF processUSSDInput
<1> QED
  BY <1>1, <1>2, <1>3, <1>4, <1>5 DEF Session, Menus

-----------------------------------------------------------------------------
(***************************************************************************)
(* The inductive invariant.  A session keeps the identifier it was created *)
(* with, wherever it is, and a session that asks is saved by the handler   *)
(* that replies with the question.  Of the requests of a session, those    *)
(* that have read a question and not yet decided are covered by the        *)
(* mandate; and as long as the question stands in Redis, where all the     *)
(* requests in flight may still read it, so are all that have not paid.    *)
(***************************************************************************)
StoredUnderItsID ==
  \A sid \in SessionIDs :
    redis[LookupKey(sid)] # None => /\ "key" \in Repaired
                                    /\ redis[LookupKey(sid)].session_id = sid

ReadUnderItsID ==
  \A r \in Requests : pc[r] = "process" => sess[r].session_id = msg[r].sid

SavedUnderItsID ==
  \A r \in Requests : pc[r] = "save" =>
    /\ plan[r].save.session_id = msg[r].sid
    /\ Asks(plan[r].save) # None => plan[r].next \in Authorising
    /\ plan[r].save.current_menu = "balance"
         <=> plan[r].next = "handleBalanceMenu"

Identified == StoredUnderItsID /\ ReadUnderItsID /\ SavedUnderItsID

CanPay(sid) ==
  {r \in Open(sid) : pc[r] = "process" /\ Asks(sess[r]) # None}

Standing(sid) == Asks(redis[LookupKey(sid)]) # None

Mandated(sid) ==
  /\ Cardinality(Open(sid)) <= InFlight
  /\ Cardinality(CanPay(sid)) <= mandate[sid]
  /\ Standing(sid) => mandate[sid] + Cardinality(Unsaved(sid)) >= InFlight

MInv == IInv /\ Identified /\ \A sid \in SessionIDs : Mandated(sid)

-----------------------------------------------------------------------------
LEMMA KeysDiffer ==
  /\ \A a, b : LookupKey(a) = LookupKey(b) => a = b
  /\ \A a, id : LookupKey(a) # <<"int64", id>>
BY DEF LookupKey

\* The one key a save writes, if the lookup will find it.
LEMMA SaveWritesItsKey ==
  ASSUME IInv, SavedUnderItsID, NEW r \in Requests, pc[r] = "save", Store(r),
         NEW sid \in SessionIDs
  PROVE  \/ /\ sid = msg[r].sid /\ "key" \in Repaired
            /\ redis'[LookupKey(sid)] = plan[r].save
         \/ /\ sid # msg[r].sid \/ "key" \notin Repaired
            /\ redis'[LookupKey(sid)] = redis[LookupKey(sid)]
<1> DEFINE s == plan[r].save
<1>1. /\ s \in Session /\ s.session_id = msg[r].sid
      /\ redis' = [redis EXCEPT ![SaveKey(s)] = s]
      /\ redis \in [Keys -> Session \cup {None}]
      /\ LookupKey(sid) \in Keys /\ SaveKey(s) \in Keys
  BY KeyTypes DEF IInv, TypeOK, SavedUnderItsID, Store
<1>2. CASE "key" \in Repaired
  <2>1. SaveKey(s) = LookupKey(msg[r].sid)
    BY <1>1, <1>2 DEF SaveKey
  <2> HIDE DEF s
  <2>2. CASE sid = msg[r].sid
    BY <1>1, <1>2, <2>1, <2>2 DEF s
  <2>3. CASE sid # msg[r].sid
    <3>1. LookupKey(sid) # SaveKey(s)
      BY <2>1, <2>3, KeysDiffer
    <3> QED
      BY <1>1, <2>3, <3>1
  <2> QED
    BY <2>2, <2>3
<1>3. CASE "key" \notin Repaired
  <2>1. LookupKey(sid) # SaveKey(s)
    BY <1>3, KeysDiffer DEF SaveKey
  <2> HIDE DEF s
  <2> QED
    BY <1>1, <1>3, <2>1
<1> QED
  BY <1>2, <1>3

LEMMA StoreIdentified ==
  ASSUME IInv, Identified, NEW r \in Requests, pc[r] = "save", Store(r)
  PROVE  StoredUnderItsID'
<1>1. ASSUME NEW sid \in SessionIDs, redis'[LookupKey(sid)] # None
      PROVE  "key" \in Repaired /\ redis'[LookupKey(sid)].session_id = sid
  BY <1>1, SaveWritesItsKey DEF Identified, StoredUnderItsID, SavedUnderItsID
<1> QED
  BY <1>1 DEF StoredUnderItsID, LookupKey

LEMMA GetSessionIdentified ==
  ASSUME IInv, Identified, NEW r \in Requests, GetSession(r)
  PROVE  Identified'
<1> DEFINE k == LookupKey(msg[r].sid)
           p == plan'[r]
<1>0. /\ pc[r] = "get" /\ msg[r] \in Message /\ UNCHANGED <<redis, msg>>
      /\ \A q \in Requests : q # r => /\ pc'[q] = pc[q] /\ plan'[q] = plan[q]
                                      /\ sess'[q] = sess[q]
  BY DEF GetSession, IInv, TypeOK, Goto, Decide
<1>1. \/ pc'[r] = "reply"
      \/ pc'[r] = "process" /\ redis[k] # None /\ sess'[r] = redis[k]
      \/ /\ pc'[r] = "save"
         /\ \E id \in Ids :
              p = SaveThen(NewSession(id, msg[r].sid, msg[r].phone), "CON main")
  BY DEF GetSession, GetRedisKey, IInv, TypeOK, Goto, Decide
<1>2. ASSUME NEW id \in Ids,
             p = SaveThen(NewSession(id, msg[r].sid, msg[r].phone), "CON main")
      PROVE  /\ p.save.session_id = msg[r].sid /\ Asks(p.save) = None
             /\ p.save.current_menu # "balance" /\ p.next # "handleBalanceMenu"
  <2> DEFINE n == NewSession(id, msg[r].sid, msg[r].phone)
  <2>1. n.current_menu = "main" /\ n.session_id = msg[r].sid
    BY DEF NewSession
  <2>2. p = SaveThen(n, "CON main")
    BY <1>2
  <2> HIDE DEF n, p
  <2>3. p.save = n /\ p.next = "CON main"
    BY <2>2 DEF SaveThen
  <2> QED
    BY <2>1, <2>3 DEF Asks
<1>3. StoredUnderItsID'
  BY <1>0 DEF Identified, StoredUnderItsID
<1>4. pc'[r] = "process" => sess'[r].session_id = msg[r].sid
  BY <1>0, <1>1 DEF Identified, StoredUnderItsID, Message
<1>5. ReadUnderItsID'
  BY <1>0, <1>4 DEF Identified, ReadUnderItsID
<1>6. pc'[r] = "save" =>
        /\ p.save.session_id = msg[r].sid /\ Asks(p.save) = None
        /\ p.save.current_menu # "balance" /\ p.next # "handleBalanceMenu"
  BY <1>1, <1>2
<1>7. SavedUnderItsID'
  BY <1>0, <1>6, Zenon DEF Identified, SavedUnderItsID
<1> QED
  BY <1>3, <1>5, <1>7 DEF Identified

LEMMA ProcessIdentified ==
  ASSUME IInv, Identified, NEW r \in Requests, Process(r)
  PROVE  Identified'
<1> DEFINE p == processUSSDInput(sess[r], msg[r].input)
<1>1. /\ pc[r] = "process" /\ sess[r] \in Session /\ msg[r] \in Message
      /\ WellFormed(sess[r]) /\ sess[r].session_id = msg[r].sid
  BY DEF IInv, Identified, Process, TypeOK, ReadSound, ReadUnderItsID
<1>2. KeepingPlan(sess[r], p)
  BY <1>1, HandlersKeep DEF Message
<1>3. /\ plan' = [plan EXCEPT ![r] = p] /\ UNCHANGED <<redis, msg, sess>>
      /\ pc' = [pc EXCEPT ![r] = IF p.save = None THEN "reply" ELSE "save"]
  BY DEF Process, Decide, Goto
<1> HIDE DEF p
<1>4. StoredUnderItsID' /\ ReadUnderItsID'
  BY <1>3 DEF Identified, StoredUnderItsID, ReadUnderItsID, IInv, TypeOK
<1>5. SavedUnderItsID'
  <2>1. ASSUME NEW q \in Requests, q # r
        PROVE  pc'[q] = pc[q] /\ plan'[q] = plan[q] /\ msg'[q] = msg[q]
    BY <1>3, <2>1 DEF IInv, TypeOK
  <2>2. /\ plan'[r] = p /\ msg'[r] = msg[r]
        /\ pc'[r] = "save" => p.save # None
    BY <1>3 DEF IInv, TypeOK
  <2>3. pc'[r] = "save" =>
          /\ p.save.session_id = msg[r].sid
          /\ Asks(p.save) # None => p.next \in Authorising
          /\ p.save.current_menu = "balance" <=> p.next = "handleBalanceMenu"
    BY <1>1, <1>2, <2>2 DEF KeepingPlan
  <2> QED
    BY <2>1, <2>2, <2>3, Zenon DEF Identified, SavedUnderItsID
<1> QED
  BY <1>4, <1>5 DEF Identified

LEMMA SaveIdentified ==
  ASSUME IInv, Identified, NEW r \in Requests, SaveSession(r) \/ SaveFails(r)
  PROVE  Identified'
<1>1. /\ pc[r] = "save" /\ msg[r] \in Message /\ pc'[r] # "save"
      /\ plan[r].save.session_id = msg[r].sid
      /\ \A q \in Requests : q # r => /\ pc'[q] = pc[q] /\ plan'[q] = plan[q]
                                      /\ sess'[q] = sess[q] /\ msg'[q] = msg[q]
  BY DEF SaveSession, SaveFails, IInv, TypeOK, Goto, Decide, Identified,
         SavedUnderItsID
<1>2. pc'[r] = "process" => /\ sess'[r] = plan[r].save
                            /\ msg'[r].sid = msg[r].sid
  <2>1. CASE SaveFails(r)
    BY <2>1 DEF SaveFails, IInv, TypeOK, Goto
  <2>2. CASE /\ sess' = [sess EXCEPT ![r] = plan[r].save]
             /\ msg' = [msg EXCEPT ![r].input = Empty]
    BY <1>1, <2>2 DEF IInv, TypeOK, Message
  <2>3. CASE pc' = [pc EXCEPT ![r] = "reply"]
    BY <2>3 DEF IInv, TypeOK
  <2> QED
    BY <2>1, <2>2, <2>3 DEF SaveSession, Goto
<1>3. StoredUnderItsID'
  <2>1. Store(r) \/ UNCHANGED redis
    BY DEF SaveSession, SaveFails
  <2>2. CASE UNCHANGED redis
    BY <2>2 DEF Identified, StoredUnderItsID
  <2> QED
    BY <1>1, <2>1, <2>2, StoreIdentified
<1>4. ReadUnderItsID'
  BY <1>1, <1>2 DEF Identified, ReadUnderItsID
<1>5. SavedUnderItsID'
  BY <1>1, Zenon DEF Identified, SavedUnderItsID
<1> QED
  BY <1>3, <1>4, <1>5 DEF Identified

LEMMA OtherIdentified ==
  ASSUME IInv, Identified,
         \/ \E r \in Requests : Receive(r) \/ Reply(r)
         \/ \E k \in Keys : Expire(k)
         \/ Crash
  PROVE  Identified'
<1>1. ASSUME NEW r \in Requests, Receive(r) \/ Reply(r) PROVE Identified'
  <2>1. /\ pc'[r] \notin {"process", "save"} /\ UNCHANGED <<redis>>
        /\ \A q \in Requests : q # r => /\ pc'[q] = pc[q] /\ plan'[q] = plan[q]
                                        /\ sess'[q] = sess[q] /\ msg'[q] = msg[q]
    BY <1>1 DEF Receive, Reply, IInv, TypeOK, Goto
  <2>2. StoredUnderItsID' /\ ReadUnderItsID'
    BY <2>1 DEF Identified, StoredUnderItsID, ReadUnderItsID
  <2>3. SavedUnderItsID'
    BY <2>1, Zenon DEF Identified, SavedUnderItsID
  <2> QED
    BY <2>2, <2>3 DEF Identified
<1>2. ASSUME NEW k \in Keys, Expire(k) PROVE Identified'
  <2>1. /\ UNCHANGED <<pc, msg, sess, plan>>
        /\ \A j \in Keys : redis'[j] = redis[j] \/ redis'[j] = None
    BY <1>2 DEF Expire, IInv, TypeOK
  <2>2. StoredUnderItsID'
    BY <2>1, KeyTypes DEF Identified, StoredUnderItsID
  <2>3. ReadUnderItsID' /\ SavedUnderItsID'
    BY <2>1 DEF Identified, ReadUnderItsID, SavedUnderItsID
  <2> QED
    BY <2>2, <2>3 DEF Identified
<1>3. CASE Crash
  <2>1. UNCHANGED redis /\ \A r \in Requests : pc'[r] = "idle"
    BY <1>3 DEF Crash
  <2> QED
    BY <2>1 DEF Identified, StoredUnderItsID, ReadUnderItsID, SavedUnderItsID
<1> QED
  BY <1>1, <1>2, <1>3

LEMMA NextIdentified == IInv /\ Identified /\ [Next]_vars => Identified'
<1> SUFFICES ASSUME IInv, Identified, [Next]_vars PROVE Identified'
  OBVIOUS
<1>1. CASE UNCHANGED vars
  BY <1>1 DEF vars, Identified, StoredUnderItsID, ReadUnderItsID, SavedUnderItsID
<1>2. ASSUME NEW r \in Requests, Receive(r) \/ Handle(r) PROVE Identified'
  BY <1>2, GetSessionIdentified, ProcessIdentified, SaveIdentified,
     OtherIdentified DEF Handle
<1>3. CASE (\E k \in Keys : Expire(k)) \/ Crash
  BY <1>3, OtherIdentified
<1> QED
  BY <1>1, <1>2, <1>3 DEF Next

-----------------------------------------------------------------------------
(***************************************************************************)
(* Counting.  A step moves one request r: the numbers of the others stay   *)
(* as they are, and r itself counts for one wherever it is.                *)
(***************************************************************************)
One(r, S) == IF r \in S THEN 1 ELSE 0

LEMMA CountOne ==
  ASSUME NEW S, IsFiniteSet(S), NEW r
  PROVE  /\ Cardinality(S) \in Nat /\ Cardinality(S \ {r}) \in Nat
         /\ Cardinality(S) = Cardinality(S \ {r}) + One(r, S)
<1>1. /\ Cardinality(S) \in Nat /\ Cardinality(S \ {r}) \in Nat
      /\ Cardinality(S \ {r}) = IF r \in S THEN Cardinality(S) - 1 ELSE Cardinality(S)
  BY FS_RemoveElement, FS_CardinalityType
<1> QED
  BY <1>1 DEF One

\* Those that can still pay and those that have paid and not saved yet are
\* different requests of the session.
LEMMA RequestSets ==
  ASSUME NEW sid
  PROVE  /\ IsFiniteSet(Open(sid)) /\ IsFiniteSet(CanPay(sid))
         /\ IsFiniteSet(Unsaved(sid))
         /\ CanPay(sid) \subseteq Open(sid) /\ Unsaved(sid) \subseteq Open(sid)
         /\ CanPay(sid) \cap Unsaved(sid) = {}
<1>1. /\ Open(sid) \subseteq Requests
      /\ CanPay(sid) \subseteq Open(sid) /\ Unsaved(sid) \subseteq Open(sid)
      /\ CanPay(sid) \cap Unsaved(sid) = {}
  BY DEF Open, CanPay, Unsaved
<1> QED
  BY <1>1, UssdSessionAssumption, FS_Subset

LEMMA ApartCount ==
  ASSUME NEW O, IsFiniteSet(O), NEW C \in SUBSET O, NEW U \in SUBSET O,
         C \cap U = {}
  PROVE  /\ Cardinality(O) \in Nat /\ Cardinality(C) \in Nat
         /\ Cardinality(U) \in Nat
         /\ Cardinality(C) + Cardinality(U) <= Cardinality(O)
<1>1. IsFiniteSet(C) /\ IsFiniteSet(U)
  BY FS_Subset
<1>2. /\ Cardinality(O) \in Nat /\ Cardinality(C) \in Nat
      /\ Cardinality(U) \in Nat
  BY <1>1, FS_CardinalityType
<1>3. ~(Cardinality(C) + Cardinality(U) > Cardinality(O))
  BY FS_MajoritiesIntersect
<1> QED
  BY <1>2, <1>3

\* Where request q is, of which session, and with what in its hands.
Place(q) == <<pc[q], msg[q], sess[q], plan[q]>>

OthersStay(r) == \A q \in Requests : q # r => Place(q)' = Place(q)

LEMMA OthersCount ==
  ASSUME NEW r \in Requests, OthersStay(r), NEW sid
  PROVE  \E o, c, u \in Nat :
           /\ c + u <= o
           /\ Cardinality(Open(sid)) = o + One(r, Open(sid))
           /\ Cardinality(CanPay(sid)) = c + One(r, CanPay(sid))
           /\ Cardinality(Unsaved(sid)) = u + One(r, Unsaved(sid))
           /\ Cardinality(Open(sid)') = o + One(r, Open(sid)')
           /\ Cardinality(CanPay(sid)') = c + One(r, CanPay(sid)')
           /\ Cardinality(Unsaved(sid)') = u + One(r, Unsaved(sid)')
<1>1. /\ Open(sid)' \ {r} = Open(sid) \ {r}
      /\ CanPay(sid)' \ {r} = CanPay(sid) \ {r}
      /\ Unsaved(sid)' \ {r} = Unsaved(sid) \ {r}
  BY DEF OthersStay, Place, Open, CanPay, Unsaved
<1>2. /\ IsFiniteSet(Open(sid)') /\ IsFiniteSet(CanPay(sid)')
      /\ IsFiniteSet(Unsaved(sid)')
  <2>1. Open(sid)' \in SUBSET Requests
    BY DEF Open
  <2>2. IsFiniteSet(Open(sid)')
    BY <2>1, UssdSessionAssumption, FS_Subset
  <2>3. CanPay(sid)' \in SUBSET Open(sid)' /\ Unsaved(sid)' \in SUBSET Open(sid)'
    BY DEF CanPay, Unsaved
  <2> QED
    BY <2>2, <2>3, FS_Subset
<1> DEFINE o == Cardinality(Open(sid) \ {r})
           c == Cardinality(CanPay(sid) \ {r})
           u == Cardinality(Unsaved(sid) \ {r})
<1>3. o \in Nat /\ c \in Nat /\ u \in Nat /\ c + u <= o
  <2>1. IsFiniteSet(Open(sid) \ {r})
    BY RequestSets, FS_RemoveElement
  <2>2. /\ CanPay(sid) \ {r} \in SUBSET (Open(sid) \ {r})
        /\ Unsaved(sid) \ {r} \in SUBSET (Open(sid) \ {r})
        /\ (CanPay(sid) \ {r}) \cap (Unsaved(sid) \ {r}) = {}
    BY RequestSets
  <2> QED
    BY <2>1, <2>2, ApartCount
<1>4. /\ Cardinality(Open(sid)) = o + One(r, Open(sid))
      /\ Cardinality(CanPay(sid)) = c + One(r, CanPay(sid))
      /\ Cardinality(Unsaved(sid)) = u + One(r, Unsaved(sid))
  BY RequestSets, CountOne
<1>5. /\ Cardinality(Open(sid)') = o + One(r, Open(sid)')
      /\ Cardinality(CanPay(sid)') = c + One(r, CanPay(sid)')
      /\ Cardinality(Unsaved(sid)') = u + One(r, Unsaved(sid)')
  BY <1>1, <1>2, CountOne
<1> QED
  BY <1>3, <1>4, <1>5

\* A session none of whose requests moves.
LEMMA NotItsRequest ==
  ASSUME NEW r \in Requests, OthersStay(r), NEW sid \in SessionIDs,
         Mandated(sid), r \notin Open(sid), r \notin Open(sid)',
         mandate'[sid] = mandate[sid], Standing(sid)' => Standing(sid)
  PROVE  Mandated(sid)'
<1>1. /\ Open(sid)' = Open(sid) /\ CanPay(sid)' = CanPay(sid)
      /\ Unsaved(sid)' = Unsaved(sid)
  BY DEF OthersStay, Place, Open, CanPay, Unsaved
<1> QED
  BY <1>1 DEF Mandated

-----------------------------------------------------------------------------
LEMMA ReceiveMandated ==
  ASSUME MInv, NEW r \in Requests, Receive(r), NEW sid \in SessionIDs
  PROVE  Mandated(sid)'
<1>1. PICK m \in [sid : SessionIDs, phone : Phones, input : Inputs] :
        /\ pc[r] = "idle" /\ Cardinality(Open(m.sid)) < InFlight
        /\ pc' = [pc EXCEPT ![r] = "get"]
        /\ msg' = [msg EXCEPT ![r] = m]
        /\ UNCHANGED <<redis, sess, plan, ledger, mandate>>
  BY DEF Receive, Goto
<1>2. /\ pc'[r] = "get" /\ msg'[r] = m /\ OthersStay(r)
      /\ mandate'[sid] = mandate[sid] /\ mandate[sid] \in Int
      /\ Standing(sid)' = Standing(sid) /\ Mandated(sid)
  BY <1>1 DEF MInv, IInv, TypeOK, OthersStay, Place, Standing
<1>3. CASE sid # m.sid
  <2>1. r \notin Open(sid) /\ r \notin Open(sid)'
    BY <1>1, <1>2, <1>3 DEF Open
  <2> QED
    BY <1>2, <2>1, NotItsRequest
<1>4. CASE sid = m.sid
  <2>1. /\ r \notin Open(sid) /\ r \notin CanPay(sid) /\ r \notin Unsaved(sid)
        /\ r \in Open(sid)' /\ r \notin CanPay(sid)' /\ r \notin Unsaved(sid)'
    BY <1>1, <1>2, <1>4 DEF Open, CanPay, Unsaved
  <2>2. PICK o, c, u \in Nat :
          /\ c + u <= o
          /\ Cardinality(Open(sid)) = o /\ Cardinality(CanPay(sid)) = c
          /\ Cardinality(Unsaved(sid)) = u
          /\ Cardinality(Open(sid)') = o + 1 /\ Cardinality(CanPay(sid)') = c
          /\ Cardinality(Unsaved(sid)') = u
    BY <1>2, <2>1, OthersCount DEF One
  <2> QED
    BY <1>1, <1>2, <1>4, <2>2, UssdSessionAssumption DEF Mandated
<1> QED
  BY <1>3, <1>4

\* Who reads the question while it stands is covered by the mandate.
LEMMA GetSessionMandated ==
  ASSUME MInv, NEW r \in Requests, GetSession(r), NEW sid \in SessionIDs
  PROVE  Mandated(sid)'
<1>1. /\ pc[r] = "get" /\ UNCHANGED <<redis, msg, mandate>> /\ OthersStay(r)
      /\ pc'[r] # "idle" /\ mandate[sid] \in Int /\ Mandated(sid)
      /\ Standing(sid)' = Standing(sid)
  BY DEF GetSession, MInv, IInv, TypeOK, Goto, Decide, OthersStay, Place, Standing
<1>2. /\ pc'[r] = "process" => sess'[r] = redis[LookupKey(msg[r].sid)]
      /\ pc'[r] = "save" => plan'[r].pay = None
  <2>1. \A s, next : SaveThen(s, next).pay = None
    BY DEF SaveThen
  <2>2. /\ pc'[r] = "process" => sess'[r] = redis[LookupKey(msg[r].sid)]
        /\ pc'[r] = "save" => \E id \in Ids :
             plan'[r] = SaveThen(NewSession(id, msg[r].sid, msg[r].phone), "CON main")
    BY DEF GetSession, GetRedisKey, MInv, IInv, TypeOK, Goto, Decide
  <2> QED
    BY <2>1, <2>2
<1>3. CASE sid # msg[r].sid
  <2>1. r \notin Open(sid) /\ r \notin Open(sid)'
    BY <1>1, <1>3 DEF Open
  <2> QED
    BY <1>1, <2>1, NotItsRequest
<1>4. CASE sid = msg[r].sid
  <2>1. /\ r \in Open(sid) /\ r \notin CanPay(sid) /\ r \notin Unsaved(sid)
        /\ r \in Open(sid)' /\ r \notin Unsaved(sid)'
        /\ r \in CanPay(sid)' => Standing(sid)
    BY <1>1, <1>2, <1>4 DEF Open, CanPay, Unsaved, Standing
  <2>2. PICK o, c, u \in Nat :
           /\ c + u <= o
           /\ Cardinality(Open(sid)) = o + One(r, Open(sid))
           /\ Cardinality(CanPay(sid)) = c + One(r, CanPay(sid))
           /\ Cardinality(Unsaved(sid)) = u + One(r, Unsaved(sid))
           /\ Cardinality(Open(sid)') = o + One(r, Open(sid)')
           /\ Cardinality(CanPay(sid)') = c + One(r, CanPay(sid)')
           /\ Cardinality(Unsaved(sid)') = u + One(r, Unsaved(sid)')
    BY <1>1, OthersCount
  <2>3. /\ Cardinality(Open(sid)) = o + 1 /\ Cardinality(CanPay(sid)) = c
        /\ Cardinality(Unsaved(sid)) = u
        /\ Cardinality(Open(sid)') = o + 1 /\ Cardinality(Unsaved(sid)') = u
    BY <2>1, <2>2 DEF One
  <2>4. CASE r \in CanPay(sid)'
    <3>1. Cardinality(CanPay(sid)') = c + 1
      BY <2>2, <2>4 DEF One
    <3> QED
      BY <1>1, <2>1, <2>2, <2>3, <2>4, <3>1, UssdSessionAssumption DEF Mandated
  <2>5. CASE r \notin CanPay(sid)'
    <3>1. Cardinality(CanPay(sid)') = c
      BY <2>2, <2>5 DEF One
    <3> QED
      BY <1>1, <2>2, <2>3, <3>1, UssdSessionAssumption DEF Mandated
  <2> QED
    BY <2>4, <2>5
<1> QED
  BY <1>3, <1>4

\* A payment uses up the mandate its request was covered by.
LEMMA ProcessMandated ==
  ASSUME MInv, NEW r \in Requests, Process(r), NEW sid \in SessionIDs
  PROVE  Mandated(sid)'
<1> DEFINE p == processUSSDInput(sess[r], msg[r].input)
<1>1. /\ pc[r] = "process" /\ sess[r] \in Session /\ msg[r] \in Message
      /\ WellFormed(sess[r]) /\ mandate[sid] \in Int /\ Mandated(sid)
      /\ mandate \in [SessionIDs -> Int]
  BY DEF MInv, IInv, Process, TypeOK, ReadSound
<1>2. /\ p.pay # None => p.save # None /\ Asks(sess[r]) # None
  BY <1>1, HandlersKeep, PaysWhatIsAsked DEF Message, KeepingPlan
<1>3. /\ plan' = [plan EXCEPT ![r] = p] /\ UNCHANGED <<redis, msg, sess>>
      /\ pc' = [pc EXCEPT ![r] = IF p.save = None THEN "reply" ELSE "save"]
      /\ mandate' = IF p.pay = None THEN mandate
                    ELSE [mandate EXCEPT ![msg[r].sid] = @ - 1]
  BY DEF Process, Decide, Goto
<1> HIDE DEF p
<1>4. /\ OthersStay(r) /\ Standing(sid)' = Standing(sid)
      /\ plan'[r] = p /\ pc'[r] = IF p.save = None THEN "reply" ELSE "save"
  BY <1>3 DEF MInv, IInv, TypeOK, OthersStay, Place, Standing
<1>5. CASE sid # msg[r].sid
  <2>1. r \notin Open(sid) /\ r \notin Open(sid)'
    BY <1>3, <1>5 DEF Open
  <2>2. mandate'[sid] = mandate[sid]
    BY <1>1, <1>3, <1>5
  <2> QED
    BY <1>1, <1>4, <2>1, <2>2, NotItsRequest
<1>6. CASE sid = msg[r].sid
  <2>1. /\ r \in Open(sid) /\ r \notin Unsaved(sid)
        /\ r \in Open(sid)' /\ r \notin CanPay(sid)'
        /\ p.pay # None => r \in CanPay(sid) /\ r \in Unsaved(sid)'
        /\ p.pay = None => r \notin Unsaved(sid)'
    BY <1>1, <1>2, <1>3, <1>4, <1>6 DEF Open, CanPay, Unsaved
  <2>2. PICK o, c, u \in Nat :
           /\ c + u <= o
           /\ Cardinality(Open(sid)) = o + One(r, Open(sid))
           /\ Cardinality(CanPay(sid)) = c + One(r, CanPay(sid))
           /\ Cardinality(Unsaved(sid)) = u + One(r, Unsaved(sid))
           /\ Cardinality(Open(sid)') = o + One(r, Open(sid)')
           /\ Cardinality(CanPay(sid)') = c + One(r, CanPay(sid)')
           /\ Cardinality(Unsaved(sid)') = u + One(r, Unsaved(sid)')
    BY <1>4, OthersCount
  <2>3. /\ Cardinality(Open(sid)) = o + 1 /\ Cardinality(Unsaved(sid)) = u
        /\ Cardinality(Open(sid)') = o + 1 /\ Cardinality(CanPay(sid)') = c
    BY <2>1, <2>2 DEF One
  <2>4. CASE p.pay # None
    <3>1. /\ Cardinality(CanPay(sid)) = c + 1
          /\ Cardinality(Unsaved(sid)') = u + 1
      BY <2>1, <2>2, <2>4 DEF One
    <3>2. PICK m \in Int : m = mandate[sid] /\ mandate'[sid] = m - 1
      BY <1>1, <1>3, <1>6, <2>4
    <3> QED
      BY <1>1, <1>4, <2>2, <2>3, <3>1, <3>2, UssdSessionAssumption DEF Mandated
  <2>5. CASE p.pay = None
    <3>1. PICK d \in Nat : /\ Cardinality(CanPay(sid)) = c + d
                           /\ Cardinality(Unsaved(sid)') = u
      BY <2>1, <2>2, <2>5 DEF One
    <3>2. PICK m \in Int : m = mandate[sid] /\ mandate'[sid] = m
      BY <1>1, <1>3, <2>5
    <3> QED
      BY <1>1, <1>4, <2>2, <2>3, <3>1, <3>2, UssdSessionAssumption DEF Mandated
  <2> QED
    BY <2>4, <2>5
<1> QED
  BY <1>5, <1>6

\* A save that asks gives every request in flight its mandate; any other takes
\* the question away, and leaves it to those that have read it.
LEMMA StoreMandated ==
  ASSUME MInv, NEW r \in Requests, pc[r] = "save", Store(r), OthersStay(r),
         pc'[r] \notin {"idle", "save"}, msg'[r].sid = msg[r].sid,
         pc'[r] = "process" => /\ sess'[r] = plan[r].save
                               /\ plan[r].next = "handleBalanceMenu",
         NEW sid \in SessionIDs
  PROVE  Mandated(sid)'
<1>1. /\ Mandated(sid) /\ mandate \in [SessionIDs -> Int] /\ InFlight \in Nat
      /\ mandate' = [mandate EXCEPT ![msg[r].sid] = SaveMandate(r, @)]
      /\ Asks(plan[r].save) # None => plan[r].next \in Authorising
  BY UssdSessionAssumption DEF MInv, IInv, TypeOK, Store, Identified, SavedUnderItsID
<1>2. CASE sid # msg[r].sid
  <2>1. r \notin Open(sid) /\ r \notin Open(sid)'
    BY <1>2 DEF Open
  <2>2. redis'[LookupKey(sid)] = redis[LookupKey(sid)]
    BY <1>2, SaveWritesItsKey DEF MInv, Identified
  <2>3. Standing(sid)' = Standing(sid)
    BY <2>2 DEF Standing, LookupKey
  <2>4. mandate'[sid] = mandate[sid]
    BY <1>1, <1>2
  <2> QED
    BY <1>1, <2>1, <2>3, <2>4, NotItsRequest
<1>3. CASE sid = msg[r].sid
  <2>1. /\ r \in Open(sid) /\ r \notin CanPay(sid)
        /\ r \in Open(sid)' /\ r \notin Unsaved(sid)'
    BY <1>3 DEF Open, CanPay, Unsaved
  <2>2. r \notin CanPay(sid)'
    BY <1>1 DEF CanPay, Authorising
  <2>3. PICK o, c, u \in Nat :
           /\ c + u <= o
           /\ Cardinality(Open(sid)) = o + One(r, Open(sid))
           /\ Cardinality(CanPay(sid)) = c + One(r, CanPay(sid))
           /\ Cardinality(Unsaved(sid)) = u + One(r, Unsaved(sid))
           /\ Cardinality(Open(sid)') = o + One(r, Open(sid)')
           /\ Cardinality(CanPay(sid)') = c + One(r, CanPay(sid)')
           /\ Cardinality(Unsaved(sid)') = u + One(r, Unsaved(sid)')
    BY OthersCount
  <2>4. /\ Cardinality(Open(sid)) = o + 1 /\ Cardinality(CanPay(sid)) = c
        /\ Cardinality(Open(sid)') = o + 1 /\ Cardinality(CanPay(sid)') = c
        /\ Cardinality(Unsaved(sid)') = u
    BY <2>1, <2>2, <2>3 DEF One
  <2>5. PICK m \in Int : m = mandate[sid] /\ mandate'[sid] = SaveMandate(r, m)
    BY <1>1, <1>3
  <2>6. o + 1 <= InFlight /\ c <= m
    BY <1>1, <2>4, <2>5 DEF Mandated
  <2>7. CASE plan[r].next \in Authorising
    <3>1. mandate'[sid] = InFlight
      BY <2>5, <2>7 DEF SaveMandate
    <3> QED
      BY <1>1, <2>3, <2>4, <2>6, <3>1 DEF Mandated
  <2>8. CASE plan[r].next \notin Authorising
    <3>1. mandate'[sid] = AtMost(m, o)
      BY <1>3, <2>4, <2>5, <2>8 DEF SaveMandate
    <3>2. c <= mandate'[sid]
      BY <2>3, <2>6, <3>1 DEF AtMost
    <3>3. ~Standing(sid)'
      <4>1. Asks(None) = None
        BY DEF Asks
      <4>2. redis'[LookupKey(sid)] \in {plan[r].save, None}
        BY <1>3, SaveWritesItsKey DEF MInv, Identified, StoredUnderItsID
      <4>3. Asks(redis'[LookupKey(sid)]) = None
        BY <1>1, <2>8, <4>1, <4>2
      <4> QED
        BY <4>3 DEF Standing, LookupKey, Asks
    <3> QED
      BY <2>4, <2>6, <3>2, <3>3 DEF Mandated
  <2> QED
    BY <2>7, <2>8
<1> QED
  BY <1>2, <1>3

LEMMA SaveSessionMandated ==
  ASSUME MInv, NEW r \in Requests, SaveSession(r), NEW sid \in SessionIDs
  PROVE  Mandated(sid)'
<1>1. pc[r] = "save" /\ Store(r) /\ msg[r] \in Message
  BY DEF SaveSession, MInv, IInv, TypeOK
<1>2. CASE /\ plan[r].next = "handleBalanceMenu"
           /\ sess' = [sess EXCEPT ![r] = plan[r].save]
           /\ msg' = [msg EXCEPT ![r].input = Empty]
           /\ pc' = [pc EXCEPT ![r] = "process"]
           /\ UNCHANGED plan
  <2>1. /\ OthersStay(r) /\ pc'[r] = "process" /\ sess'[r] = plan[r].save
        /\ msg'[r].sid = msg[r].sid
    BY <1>1, <1>2 DEF MInv, IInv, TypeOK, OthersStay, Place, Message
  <2> QED
    BY <1>1, <1>2, <2>1, StoreMandated
<1>3. CASE pc' = [pc EXCEPT ![r] = "reply"] /\ UNCHANGED <<sess, msg, plan>>
  <2>1. OthersStay(r) /\ pc'[r] = "reply" /\ msg'[r].sid = msg[r].sid
    BY <1>3 DEF MInv, IInv, TypeOK, OthersStay, Place
  <2> QED
    BY <1>1, <2>1, StoreMandated
<1> QED
  BY <1>2, <1>3 DEF SaveSession, Goto

\* A payment whose session is not saved gives its mandate back.
LEMMA SaveFailsMandated ==
  ASSUME MInv, NEW r \in Requests, SaveFails(r), NEW sid \in SessionIDs
  PROVE  Mandated(sid)'
<1>1. /\ pc[r] = "save" /\ msg[r] \in Message /\ Mandated(sid)
      /\ mandate \in [SessionIDs -> Int] /\ InFlight \in Nat
      /\ OthersStay(r) /\ pc'[r] = "reply" /\ msg' = msg
  BY UssdSessionAssumption DEF SaveFails, Goto, Decide, MInv, IInv, TypeOK,
     OthersStay, Place
<1>2. CASE Store(r)
  BY <1>1, <1>2, StoreMandated
<1>3. CASE /\ mandate' = [mandate EXCEPT ![msg[r].sid] =
                            IF plan[r].pay = None THEN @
                            ELSE AtMost(@ + 1, InFlight)]
           /\ UNCHANGED redis
  <2>1. Standing(sid)' = Standing(sid)
    BY <1>3 DEF Standing
  <2>2. CASE sid # msg[r].sid
    <3>1. r \notin Open(sid) /\ r \notin Open(sid)'
      BY <1>1, <2>2 DEF Open
    <3>2. mandate'[sid] = mandate[sid]
      BY <1>1, <1>3, <2>2
    <3> QED
      BY <1>1, <2>1, <3>1, <3>2, NotItsRequest
  <2>3. CASE sid = msg[r].sid
    <3>1. /\ r \in Open(sid) /\ r \notin CanPay(sid)
          /\ r \in Unsaved(sid) <=> plan[r].pay # None
          /\ r \in Open(sid)' /\ r \notin CanPay(sid)' /\ r \notin Unsaved(sid)'
      BY <1>1, <2>3 DEF Open, CanPay, Unsaved
    <3>2. PICK o, c, u \in Nat :
             /\ c + u <= o
             /\ Cardinality(Open(sid)) = o + One(r, Open(sid))
             /\ Cardinality(CanPay(sid)) = c + One(r, CanPay(sid))
             /\ Cardinality(Unsaved(sid)) = u + One(r, Unsaved(sid))
             /\ Cardinality(Open(sid)') = o + One(r, Open(sid)')
             /\ Cardinality(CanPay(sid)') = c + One(r, CanPay(sid)')
             /\ Cardinality(Unsaved(sid)') = u + One(r, Unsaved(sid)')
      BY <1>1, OthersCount

    <3>3. /\ Cardinality(Open(sid)) = o + 1 /\ Cardinality(CanPay(sid)) = c
          /\ Cardinality(Open(sid)') = o + 1 /\ Cardinality(CanPay(sid)') = c
          /\ Cardinality(Unsaved(sid)') = u
      BY <3>1, <3>2 DEF One
    <3>4. PICK m \in Int :
            /\ m = mandate[sid]
            /\ mandate'[sid] = IF plan[r].pay = None THEN m
                               ELSE AtMost(m + 1, InFlight)
      BY <1>1, <1>3, <2>3
    <3>5. /\ o + 1 <= InFlight /\ c <= m
          /\ Standing(sid) => m + Cardinality(Unsaved(sid)) >= InFlight
      BY <1>1, <3>3, <3>4 DEF Mandated
    <3>6. CASE plan[r].pay = None
      <4>1. Cardinality(Unsaved(sid)) = u
        BY <3>1, <3>2, <3>6 DEF One
      <4> QED
        BY <2>1, <3>3, <3>4, <3>5, <3>6, <4>1 DEF Mandated
    <3>7. CASE plan[r].pay # None
      <4>1. Cardinality(Unsaved(sid)) = u + 1
        BY <3>1, <3>2, <3>7 DEF One
      <4>2. mandate'[sid] = AtMost(m + 1, InFlight)
        BY <3>4, <3>7
      <4>3. /\ c <= AtMost(m + 1, InFlight)
            /\ Standing(sid) => AtMost(m + 1, InFlight) + u >= InFlight
        BY <1>1, <3>2, <3>5, <4>1 DEF AtMost
      <4> QED
        BY <2>1, <3>3, <3>5, <4>2, <4>3 DEF Mandated
    <3> QED
      BY <3>6, <3>7
  <2> QED
    BY <2>2, <2>3
<1> QED
  BY <1>2, <1>3 DEF SaveFails

LEMMA ReplyMandated ==
  ASSUME MInv, NEW r \in Requests, Reply(r), NEW sid \in SessionIDs
  PROVE  Mandated(sid)'
<1>1. /\ pc[r] = "reply" /\ Mandated(sid) /\ pc'[r] = "idle" /\ OthersStay(r)
      /\ mandate'[sid] = mandate[sid] /\ Standing(sid)' = Standing(sid)
  BY DEF Reply, Goto, MInv, IInv, TypeOK, OthersStay, Place, Standing
<1>2. CASE sid # msg[r].sid
  <2>1. r \notin Open(sid) /\ r \notin Open(sid)'
    BY <1>1, <1>2 DEF Open
  <2> QED
    BY <1>1, <2>1, NotItsRequest
<1>3. CASE sid = msg[r].sid
  <2>1. /\ r \in Open(sid) /\ r \notin CanPay(sid) /\ r \notin Unsaved(sid)
        /\ r \notin Open(sid)' /\ r \notin CanPay(sid)' /\ r \notin Unsaved(sid)'
    BY <1>1, <1>3 DEF Open, CanPay, Unsaved
  <2>2. PICK o, c, u \in Nat :
           /\ c + u <= o
           /\ Cardinality(Open(sid)) = o + One(r, Open(sid))
           /\ Cardinality(CanPay(sid)) = c + One(r, CanPay(sid))
           /\ Cardinality(Unsaved(sid)) = u + One(r, Unsaved(sid))
           /\ Cardinality(Open(sid)') = o + One(r, Open(sid)')
           /\ Cardinality(CanPay(sid)') = c + One(r, CanPay(sid)')
           /\ Cardinality(Unsaved(sid)') = u + One(r, Unsaved(sid)')
    BY <1>1, OthersCount
  <2>3. /\ Cardinality(Open(sid)) = o + 1 /\ Cardinality(CanPay(sid)) = c
        /\ Cardinality(Unsaved(sid)) = u
        /\ Cardinality(Open(sid)') = o /\ Cardinality(CanPay(sid)') = c
        /\ Cardinality(Unsaved(sid)') = u
    BY <2>1, <2>2 DEF One
  <2> QED
    BY <1>1, <2>2, <2>3, UssdSessionAssumption DEF Mandated
<1> QED
  BY <1>2, <1>3

LEMMA ExpireMandated ==
  ASSUME MInv, NEW k \in Keys, Expire(k), NEW sid \in SessionIDs
  PROVE  Mandated(sid)'
<1>1. /\ Mandated(sid) /\ UNCHANGED <<pc, msg, sess, plan, mandate>>
      /\ redis'[LookupKey(sid)] \in {redis[LookupKey(sid)], None}
  BY KeyTypes DEF Expire, MInv, IInv, TypeOK
<1>2. Asks(None) = None
  BY DEF Asks
<1>3. Standing(sid)' => Standing(sid)
  BY <1>1, <1>2 DEF Standing, LookupKey, Asks
<1>4. /\ Open(sid)' = Open(sid) /\ CanPay(sid)' = CanPay(sid)
      /\ Unsaved(sid)' = Unsaved(sid)
  BY <1>1 DEF Open, CanPay, Unsaved, Asks
<1> QED
  BY <1>1, <1>3, <1>4 DEF Mandated

\* The payments a crash leaves unsaved give their mandates back, all at once.
LEMMA CrashMandated ==
  ASSUME MInv, Crash, NEW sid \in SessionIDs
  PROVE  Mandated(sid)'
<1>1. /\ Mandated(sid) /\ mandate[sid] \in Int /\ InFlight \in Nat
      /\ UNCHANGED redis /\ \A r \in Requests : pc'[r] = "idle"
      /\ mandate'[sid] = AtMost(mandate[sid] + Cardinality(Unsaved(sid)), InFlight)
  BY UssdSessionAssumption DEF Crash, MInv, IInv, TypeOK
<1>2. Open(sid)' = {} /\ CanPay(sid)' = {} /\ Unsaved(sid)' = {}
  BY <1>1 DEF Open, CanPay, Unsaved
<1>3. /\ Cardinality(Open(sid)') = 0 /\ Cardinality(CanPay(sid)') = 0
      /\ Cardinality(Unsaved(sid)') = 0
  BY <1>2, FS_EmptySet
<1>4. PICK c, u \in Nat :
        Cardinality(CanPay(sid)) = c /\ Cardinality(Unsaved(sid)) = u
  BY RequestSets, FS_CardinalityType
<1>5. Standing(sid)' = Standing(sid)
  BY <1>1 DEF Standing
<1>6. /\ 0 <= AtMost(mandate[sid] + u, InFlight)
      /\ Standing(sid) => AtMost(mandate[sid] + u, InFlight) >= InFlight
  BY <1>1, <1>4 DEF Mandated, AtMost
<1>7. PICK m \in Int : m = AtMost(mandate[sid] + u, InFlight) /\ mandate'[sid] = m
  BY <1>1, <1>4 DEF AtMost
<1> QED
  BY <1>1, <1>3, <1>5, <1>6, <1>7 DEF Mandated

LEMMA InitMInv == Init => MInv
<1> SUFFICES ASSUME Init PROVE MInv
  OBVIOUS
<1>1. Identified
  BY KeyTypes DEF Init, Identified, StoredUnderItsID, ReadUnderItsID,
     SavedUnderItsID
<1>2. ASSUME NEW sid \in SessionIDs PROVE Mandated(sid)
  <2>1. Open(sid) = {} /\ CanPay(sid) = {} /\ Unsaved(sid) = {}
    BY DEF Init, Open, CanPay, Unsaved
  <2>2. ~Standing(sid)
    BY KeyTypes DEF Init, Standing, Asks
  <2>3. mandate[sid] = 0
    BY DEF Init
  <2> QED
    BY <2>1, <2>2, <2>3, FS_EmptySet, UssdSessionAssumption DEF Mandated
<1> QED
  BY <1>1, <1>2, InitIInv DEF MInv

LEMMA NextMInv == MInv /\ [Next]_vars => MInv'
<1> SUFFICES ASSUME MInv, [Next]_vars PROVE MInv'
  OBVIOUS
<1>1. IInv' /\ Identified'
  BY NextIInv, NextIdentified DEF MInv
<1>2. ASSUME NEW sid \in SessionIDs PROVE Mandated(sid)'
  <2>1. CASE UNCHANGED vars
    BY <2>1 DEF vars, MInv, Mandated, Open, CanPay, Unsaved, Standing
  <2>2. ASSUME NEW r \in Requests, Receive(r) \/ Handle(r)
        PROVE  Mandated(sid)'
    BY <2>2, ReceiveMandated, GetSessionMandated, ProcessMandated,
       SaveSessionMandated, SaveFailsMandated, ReplyMandated DEF Handle
  <2>3. ASSUME NEW k \in Keys, Expire(k) PROVE Mandated(sid)'
    BY <2>3, ExpireMandated
  <2>4. CASE Crash
    BY <2>4, CrashMandated
  <2> QED
    BY <2>1, <2>2, <2>3, <2>4 DEF Next
<1> QED
  BY <1>1, <1>2 DEF MInv

\* The mandate of a session covers, whatever fails and whoever interleaves, every
\* open request that has read its prompt and not paid (ussd.go:109-117, 149-169).
THEOREM MandateInvariant == Spec => []MInv
BY InitMInv, NextMInv, PTL DEF Spec

-----------------------------------------------------------------------------
\* A confirmed question is paid once by each request that has read it, at most
\* InFlight times and never after another save has taken it away; more than
\* that only if the session of a payment could not be saved (the payment comes
\* before the save, wallet.go:109-117, 282-316, ussd.go:149-169).
THEOREM PaymentsAreMandated == Spec => []NoUnmandatedPayment
<1>1. ASSUME MInv, NEW sid \in SessionIDs PROVE mandate[sid] >= 0
  <2>1. Cardinality(CanPay(sid)) \in Nat
    BY RequestSets, FS_CardinalityType
  <2>2. mandate[sid] \in Int /\ Cardinality(CanPay(sid)) <= mandate[sid]
    BY <1>1 DEF MInv, IInv, TypeOK, Mandated
  <2> QED
    BY <2>1, <2>2
<1>2. MInv => NoUnmandatedPayment
  BY <1>1 DEF NoUnmandatedPayment
<1> QED
  BY <1>2, MandateInvariant, PTL
=============================================================================
