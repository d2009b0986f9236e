------------------------- MODULE UssdDialogueProofs -------------------------
(***************************************************************************)
(* UssdSession implements UssdDialogue, for every set of requests, texts   *)
(* and numbers, whatever fails, from the invariant of UssdSessionProofs.   *)
(***************************************************************************)
EXTENDS UssdSessionProofs

\* The handlers that never pay.
LEMMA OthersPayNothing ==
  ASSUME NEW s, NEW input
  PROVE  /\ handleMainMenu(s, input).pay = None
         /\ handleBalanceMenu(s, input).pay = None
         /\ TransferRecipient(s, input).pay = None
         /\ TransferAmount(s, input).pay = None
         /\ DepositAmount(s, input).pay = None
         /\ DepositMethod(s, input).pay = None
         /\ WithdrawAmount(s, input).pay = None
<1>1. \A next : Say(next).pay = None
  BY DEF Say
<1>2. \A t, next : SaveThen(t, next).pay = None
  BY DEF SaveThen
<1>3. handleMainMenu(s, input).pay = None
  BY <1>1, <1>2, Zenon DEF handleMainMenu
<1>4. handleBalanceMenu(s, input).pay = None
  BY <1>1, <1>2 DEF handleBalanceMenu, getMainMenu
<1>5. TransferRecipient(s, input).pay = None
  BY <1>1, <1>2 DEF TransferRecipient
<1>6. TransferAmount(s, input).pay = None
  BY <1>1, <1>2 DEF TransferAmount
<1>7. DepositAmount(s, input).pay = None
  BY <1>1, <1>2 DEF DepositAmount
<1>8. DepositMethod(s, input).pay = None
  BY <1>1, <1>2 DEF DepositMethod
<1>9. WithdrawAmount(s, input).pay = None
  BY <1>1, <1>2 DEF WithdrawAmount
<1> QED
  BY <1>3, <1>4, <1>5, <1>6, <1>7, <1>8, <1>9

LEMMA TransferConfirmPays ==
  ASSUME NEW s, NEW input, TransferConfirm(s, input).pay # None
  PROVE  /\ input.txt = "1"
         /\ TransferConfirm(s, input).pay =
              [kind |-> "transfer", from |-> s.phone_number,
               to |-> s.transfer_recipient, amount |-> s.transfer_amount]
<1>1. input.txt = "1" /\ s.transfer_recipient # None /\ s.transfer_amount # None
  <2>1. CASE input.txt = "1" /\ (s.transfer_recipient = None \/ s.transfer_amount = None)
    BY <2>1 DEF TransferConfirm, Say
  <2>2. CASE input.txt = "2"
    BY <2>2 DEF TransferConfirm, SaveThen
  <2>3. CASE input.txt \notin {"1", "2"}
    BY <2>3 DEF TransferConfirm, Say
  <2> QED
    BY <2>1, <2>2, <2>3
<1> QED
  BY <1>1 DEF TransferConfirm, PayThen

LEMMA WithdrawMethodPays ==
  ASSUME NEW s, NEW input, WithdrawMethod(s, input).pay # None
  PROVE  /\ input.txt \in {"1", "2", "3"}
         /\ WithdrawMethod(s, input).pay =
              [kind |-> "withdrawal", from |-> s.phone_number, to |-> None,
               amount |-> s.withdraw_amount]
<1>1. input.txt \in {"1", "2", "3"} /\ s.withdraw_amount # None
  <2>1. CASE input.txt \in {"1", "2", "3"} /\ s.withdraw_amount = None
    BY <2>1 DEF WithdrawMethod, Say
  <2>2. CASE input.txt = "4"
    BY <2>2 DEF WithdrawMethod, SaveThen
  <2>3. CASE input.txt \notin {"1", "2", "3", "4"}
    BY <2>3 DEF WithdrawMethod, Say
  <2> QED
    BY <2>1, <2>2, <2>3
<1> QED
  BY <1>1 DEF WithdrawMethod, PayThen

\* A handler that pays, pays what its session asks, and is told to.
LEMMA PaysWhatIsAsked ==
  ASSUME NEW s \in Session, NEW input,
         processUSSDInput(s, input).pay # None
  PROVE  processUSSDInput(s, input).pay = Asks(s) /\ Confirms(s, input)
<1>0. s # None
  BY NoneIsNew
<1>1. CASE s.current_menu = "transfer"
  <2>1. processUSSDInput(s, input) = handleTransferMenu(s, input)
    BY <1>1 DEF processUSSDInput
  <2>2. CASE s.transfer_step = "confirm"
    <3>1. processUSSDInput(s, input) = TransferConfirm(s, input)
      BY <2>1, <2>2 DEF handleTransferMenu
    <3>2. TransferConfirm(s, input).pay # None
      BY <3>1
    <3> QED
      BY <1>0, <1>1, <2>2, <3>1, <3>2, TransferConfirmPays DEF Asks, Confirms
  <2>3. CASE s.transfer_step = "amount"
    BY <2>1, <2>3, OthersPayNothing DEF handleTransferMenu
  <2>4. CASE s.transfer_step \notin {"confirm", "amount"}
    BY <2>1, <2>4, OthersPayNothing DEF handleTransferMenu
  <2> QED
    BY <2>2, <2>3, <2>4
<1>2. CASE s.current_menu = "withdraw"
  <2>1. processUSSDInput(s, input) = handleWithdrawMenu(s, input)
    BY <1>2 DEF processUSSDInput
  <2>2. CASE s.withdraw_step = "method"
    <3>1. processUSSDInput(s, input) = WithdrawMethod(s, input)
      BY <2>1, <2>2 DEF handleWithdrawMenu
    <3>2. WithdrawMethod(s, input).pay # None
      BY <3>1
    <3> QED
      BY <1>0, <1>2, <2>2, <3>1, <3>2, WithdrawMethodPays DEF Asks, Confirms
  <2>3. CASE s.withdraw_step # "method"
    BY <2>1, <2>3, OthersPayNothing DEF handleWithdrawMenu
  <2> QED
    BY <2>2, <2>3
<1>3. CASE s.current_menu = "main"
  BY <1>3, OthersPayNothing DEF processUSSDInput
<1>4. CASE s.current_menu = "balance"
  BY <1>4, OthersPayNothing DEF processUSSDInput
<1>5. CASE s.current_menu = "deposit"
  BY <1>5, OthersPayNothing DEF processUSSDInput, handleDepositMenu
<1> QED
  BY <1>1, <1>2, <1>3, <1>4, <1>5 DEF Session, Menus

\* What a well-formed session asks was checked.
LEMMA AskedIsAcceptable ==
  ASSUME NEW s \in Session, WellFormed(s)
  PROVE  Asks(s) \in Acceptable \cup {None}
<1>0. s # None
  BY NoneIsNew
<1>1. CASE s.current_menu = "transfer" /\ s.transfer_step = "confirm"
  <2>1. ValidRecipient(s.transfer_recipient) /\ Payable(s.transfer_amount)
    BY <1>1 DEF WellFormed, InTransfer
  <2> DEFINE p == [kind |-> "transfer", from |-> s.phone_number,
                   to |-> s.transfer_recipient, amount |-> s.transfer_amount]
  <2>2. Asks(s) = p
    BY <1>0, <1>1 DEF Asks
  <2>3. p \in Payment
    BY <2>1 DEF Payment, Session, ValidRecipient, Payable
  <2> QED
    BY <2>1, <2>2, <2>3 DEF Acceptable
<1>2. CASE s.current_menu = "withdraw" /\ s.withdraw_step = "method"
  <2>1. Payable(s.withdraw_amount)
    BY <1>2 DEF WellFormed, InWithdraw
  <2> DEFINE p == [kind |-> "withdrawal", from |-> s.phone_number, to |-> None,
                   amount |-> s.withdraw_amount]
  <2>2. Asks(s) = p
    BY <1>0, <1>2 DEF Asks
  <2>3. p \in Payment
    BY <2>1 DEF Payment, Session, Payable
  <2> QED
    BY <2>1, <2>2, <2>3 DEF Acceptable
<1>3. CASE /\ ~(s.current_menu = "transfer" /\ s.transfer_step = "confirm")
           /\ ~(s.current_menu = "withdraw" /\ s.withdraw_step = "method")
  BY <1>0, <1>3 DEF Asks
<1> QED
  BY <1>1, <1>2, <1>3

-----------------------------------------------------------------------------
LEMMA InitDialogue == Init => Dialogue!Init
BY DEF Init, Dialogue!Init, Asked, Confirmed, Asks

LEMMA GetSessionDialogue ==
  ASSUME IInv, NEW r \in Requests, GetSession(r)
  PROVE  Dialogue!Next
<1> DEFINE k == LookupKey(msg[r].sid)
<1>1. /\ pc[r] = "get" /\ k \in Keys
      /\ UNCHANGED <<redis, msg, ledger>>
      /\ \/ sess' = [sess EXCEPT ![r] = redis[k]]
         \/ UNCHANGED sess /\ pc'[r] # "process"
      /\ \A q \in Requests : q # r => pc'[q] = pc[q]
  BY KeyTypes DEF IInv, TypeOK, GetSession, Message, Goto
<1> HIDE DEF k
<1>2. Asked' \subseteq Asked
  BY <1>1 DEF IInv, TypeOK, Asked
<1>3. Confirmed' \subseteq Confirmed \cup Asked
  BY <1>1 DEF IInv, TypeOK, Asked, Confirmed
<1> QED
  BY <1>1, <1>2, <1>3 DEF Dialogue!Next, Dialogue!Confirm

LEMMA ProcessDialogue ==
  ASSUME IInv, NEW r \in Requests, Process(r)
  PROVE  Dialogue!Next
<1> DEFINE p == processUSSDInput(sess[r], msg[r].input)
<1>1. /\ pc[r] = "process" /\ sess[r] \in Session
      /\ msg[r] \in Message /\ WellFormed(sess[r])
  BY DEF IInv, Process, TypeOK, ReadSound
<1>2. /\ pc' = [pc EXCEPT ![r] = IF p.save = None THEN "reply" ELSE "save"]
      /\ UNCHANGED <<redis, msg, sess>>
      /\ \/ ledger' = ledger
         \/ p.pay # None /\ ledger' = ledger \cup {p.pay}
  BY DEF Process, Goto
<1>3. ASSUME p.pay # None PROVE p.pay \in Confirmed \ {None}
  <2>1. p.pay = Asks(sess[r]) /\ Confirms(sess[r], msg[r].input)
    BY <1>1, <1>3, PaysWhatIsAsked DEF Message
  <2> QED
    BY <1>1, <1>3, <2>1 DEF Confirmed
<1> HIDE DEF p
<1>4. Asked' \subseteq Asked
  BY <1>2 DEF IInv, TypeOK, Asked
<1>5. Confirmed' \subseteq Confirmed
  BY <1>2 DEF IInv, TypeOK, Confirmed
<1>6. CASE ledger' = ledger
  BY <1>4, <1>5, <1>6 DEF Dialogue!Next, Dialogue!Confirm
<1>7. CASE p.pay # None /\ ledger' = ledger \cup {p.pay}
  BY <1>3, <1>4, <1>5, <1>7 DEF Dialogue!Next, Dialogue!Pay
<1> QED
  BY <1>2, <1>6, <1>7

\* Storing a session asks what it asks, in the place of the one it replaces.
LEMMA StoreDialogue ==
  ASSUME IInv, NEW r \in Requests, pc[r] = "save", Store(r), UNCHANGED ledger,
         \/ UNCHANGED <<sess, msg>> /\ pc'[r] # "process"
         \/ /\ sess' = [sess EXCEPT ![r] = plan[r].save]
            /\ msg' = [msg EXCEPT ![r].input = Empty],
         \A q \in Requests : q # r => pc'[q] = pc[q]
  PROVE  Dialogue!Next
<1> DEFINE s == plan[r].save
<1>1. /\ s \in Session /\ WellFormed(s) /\ SaveKey(s) \in Keys
      /\ redis' = [redis EXCEPT ![SaveKey(s)] = s]
  BY KeyTypes DEF IInv, TypeOK, SavesSound, Store
<1>2. Asks(s) \in Acceptable \cup {None}
  BY <1>1, AskedIsAcceptable
<1>3. ~Confirms(s, Empty)
  BY DEF Confirms, Empty
<1>4. \/ UNCHANGED <<sess, msg>> /\ pc'[r] # "process"
      \/ sess' = [sess EXCEPT ![r] = s] /\ msg'[r].input = Empty
           /\ \A q \in Requests : q # r => msg'[q] = msg[q]
  BY DEF IInv, TypeOK, Message
<1> HIDE DEF s
<1>5. Asked' \subseteq Asked \cup {Asks(s)}
  BY <1>1, <1>4 DEF IInv, TypeOK, Asked
<1>6. Confirmed' \subseteq Confirmed
  BY <1>3, <1>4 DEF IInv, TypeOK, Confirmed
<1> QED
  BY <1>2, <1>5, <1>6 DEF Dialogue!Next, Dialogue!Ask

\* A step after which no more is asked or confirmed, and nothing is paid.
LEMMA ForgettingDialogue ==
  ASSUME Asked' \subseteq Asked, Confirmed' \subseteq Confirmed, UNCHANGED ledger
  PROVE  Dialogue!Next
BY DEF Dialogue!Next, Dialogue!Confirm

LEMMA OtherDialogue ==
  ASSUME IInv,
         \/ \E r \in Requests : Receive(r) \/ Reply(r)
         \/ \E r \in Requests : SaveFails(r) /\ UNCHANGED redis
         \/ \E k \in Keys : Expire(k)
         \/ Crash
  PROVE  Dialogue!Next
<1>1. ASSUME NEW r \in Requests, Receive(r) \/ Reply(r) \/ (SaveFails(r) /\ UNCHANGED redis)
      PROVE  Dialogue!Next
  <2>1. /\ UNCHANGED <<redis, ledger>> /\ pc'[r] # "process"
        /\ \A q \in Requests : q # r => /\ pc'[q] = pc[q] /\ msg'[q] = msg[q]
                                        /\ sess'[q] = sess[q]
    BY <1>1 DEF IInv, TypeOK, Receive, Reply, SaveFails, Goto
  <2>2. Asked' \subseteq Asked
    BY <2>1 DEF IInv, TypeOK, Asked
  <2>3. Confirmed' \subseteq Confirmed
    BY <2>1 DEF IInv, TypeOK, Confirmed
  <2> QED
    BY <2>1, <2>2, <2>3, ForgettingDialogue
<1>2. ASSUME NEW k \in Keys, Expire(k) PROVE Dialogue!Next
  <2>1. Asks(None) = None
    BY DEF Asks
  <2>2. Asked' \subseteq Asked \cup {None}
    BY <1>2, <2>1 DEF IInv, TypeOK, Expire, Asked
  <2>3. Confirmed' \subseteq Confirmed /\ UNCHANGED ledger
    BY <1>2 DEF Expire, Confirmed
  <2> QED
    BY <2>2, <2>3 DEF Dialogue!Next, Dialogue!Confirm
<1>3. CASE Crash
  <2>1. Asked' \subseteq Asked
    BY <1>3 DEF Crash, Asked
  <2>2. Confirmed' \subseteq Confirmed /\ UNCHANGED ledger
    BY <1>3 DEF Crash, Confirmed
  <2> QED
    BY <2>1, <2>2, ForgettingDialogue
<1> QED
  BY <1>1, <1>2, <1>3

LEMMA NextDialogue ==
  IInv /\ [Next]_vars => [Dialogue!Next]_<<Asked \ {None}, Confirmed \ {None}, ledger>>
<1> SUFFICES ASSUME IInv, [Next]_vars
    PROVE  Dialogue!Next \/ UNCHANGED <<Asked, Confirmed, ledger>>
  OBVIOUS
<1>1. CASE UNCHANGED vars
  BY <1>1 DEF vars, Asked, Confirmed
<1>2. ASSUME NEW r \in Requests, SaveSession(r) PROVE Dialogue!Next
  <2>1. /\ pc[r] = "save" /\ Store(r) /\ UNCHANGED ledger
        /\ \/ UNCHANGED <<sess, msg>> /\ pc'[r] # "process"
           \/ /\ sess' = [sess EXCEPT ![r] = plan[r].save]
              /\ msg' = [msg EXCEPT ![r].input = Empty]
        /\ \A q \in Requests : q # r => pc'[q] = pc[q]
    BY <1>2 DEF IInv, TypeOK, SaveSession, Goto
  <2> QED
    BY <2>1, StoreDialogue
<1>3. ASSUME NEW r \in Requests, SaveFails(r) PROVE Dialogue!Next
  <2>1. CASE UNCHANGED redis
    BY <1>3, <2>1, OtherDialogue
  <2>2. CASE Store(r)
    <3>1. /\ pc[r] = "save" /\ UNCHANGED <<sess, msg, ledger>> /\ pc'[r] # "process"
          /\ \A q \in Requests : q # r => pc'[q] = pc[q]
      BY <1>3 DEF IInv, TypeOK, SaveFails, Goto
    <3> QED
      BY <2>2, <3>1, StoreDialogue
  <2> QED
    BY <1>3, <2>1, <2>2 DEF SaveFails
<1>4. ASSUME NEW r \in Requests, Receive(r) \/ GetSession(r) \/ Process(r) \/ Reply(r)
      PROVE  Dialogue!Next
  BY <1>4, OtherDialogue, GetSessionDialogue, ProcessDialogue
<1>5. ASSUME (\E k \in Keys : Expire(k)) \/ Crash PROVE Dialogue!Next
  BY <1>5, OtherDialogue
<1> QED
  BY <1>1, <1>2, <1>3, <1>4, <1>5 DEF Next, Handle

\* A payment is asked about, confirmed and made, in this order, and is the one
\* that was asked (wallet.go:59-338), whatever interleaves, fails or expires.
THEOREM ImplementsDialogue == Spec => PaysAsAskedAndConfirmed
BY InitDialogue, NextDialogue, Invariant, PTL
   DEF Spec, PaysAsAskedAndConfirmed, Dialogue!Spec
=============================================================================
