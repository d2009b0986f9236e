------------------------- MODULE UssdSessionProofs -------------------------
(***************************************************************************)
(* Theorems about UssdSession, for every set of requests, sessions, texts  *)
(* and numbers, every bound on the requests in flight, every choice of     *)
(* failures, and the session store as it is or repaired.                   *)
(***************************************************************************)
EXTENDS UssdSession, FiniteSetTheorems, TLAPS

(***************************************************************************)
(* What a handler decides for a well-formed session s: it moves money only *)
(* in a checked amount to a checked number, it panics only on a short      *)
(* number, and what it saves is well formed, if it can be encoded at all.  *)
(***************************************************************************)
SoundPayment(p) ==
  /\ Payable(p.amount)
  /\ p.kind = "transfer" => ValidRecipient(p.to)

SoundPlan(s, p) ==
  /\ p.save # None => p.save.phone_number = s.phone_number
  /\ p.save # None /\ Marshals(p.save) => WellFormed(p.save)
  /\ p.next = "panic" => p.save = None /\ AccountPanics(s)
  /\ p.next = "handleBalanceMenu" => p.save # None
  /\ p.pay # None => SoundPayment(p.pay)

-----------------------------------------------------------------------------
\* None is none of the values it stands in for.
LEMMA NoneIsNew ==
  /\ None \notin Input /\ None \notin Inputs /\ None \notin Numbers
  /\ None \notin Session /\ None \notin Payment
  /\ None # "recipient" /\ None # "amount" /\ None # "confirm"
  /\ None # "method"
BY UssdMenuAssumption DEF Steps

\* A handler gets a typed text, or the empty one of an internal call.
LEMMA InputType == \A i \in Inputs \cup {Empty} : i \in Input
<1>1. Empty \in Input
  BY DEF Empty, Input, Texts
<1>2. Inputs \subseteq Input
  BY UssdMenuAssumption
<1> QED
  BY <1>1, <1>2

LEMMA SayType ==
  ASSUME NEW next \in Replies
  PROVE  Say(next) \in Plan
BY DEF Say, Plan

LEMMA SaveThenType ==
  ASSUME NEW s \in Session, NEW next \in Replies \cup {"handleBalanceMenu"}
  PROVE  SaveThen(s, next) \in Plan
BY DEF SaveThen, Plan

\* A reply without a save is sound, unless it is a panic without a cause.
LEMMA SaySound ==
  ASSUME NEW s, NEW next \in Replies, next = "panic" => AccountPanics(s)
  PROVE  Say(next) \in Plan /\ SoundPlan(s, Say(next))
BY SayType, NoneIsNew DEF Say, SoundPlan, Replies, Prompts, Finals, Errors

\* A save followed by a reply is sound when the session saved is.
LEMMA SaveSound ==
  ASSUME NEW s \in Session, NEW t \in Session,
         NEW next \in (Replies \ {"panic"}) \cup {"handleBalanceMenu"},
         t.phone_number = s.phone_number,
         Marshals(t) => WellFormed(t)
  PROVE  SaveThen(t, next) \in Plan /\ SoundPlan(s, SaveThen(t, next))
<1> DEFINE p == SaveThen(t, next)
<1>1. p \in Plan
  BY SaveThenType
<1>2. p.pay = None /\ p.save = t /\ p.next = next
  BY DEF SaveThen
<1>3. t # None /\ next # "panic"
  BY NoneIsNew DEF Replies, Prompts, Finals, Errors
<1> HIDE DEF p
<1>4. SoundPlan(s, p)
  BY <1>2, <1>3 DEF SoundPlan
<1> QED
  BY <1>1, <1>4 DEF p

\* So is a payment that was checked, followed by such a save.
LEMMA PaySound ==
  ASSUME NEW s \in Session, NEW t \in Session, NEW pay \in Payment,
         NEW next \in Finals, t.phone_number = s.phone_number,
         WellFormed(t), SoundPayment(pay)
  PROVE  /\ PayThen(pay, t, next) \in Plan
         /\ SoundPlan(s, PayThen(pay, t, next))
<1> DEFINE p == PayThen(pay, t, next)
<1>1. p \in Plan
  BY DEF PayThen, Plan, Replies
<1>2. p.pay = pay /\ p.save = t /\ p.next = next
  BY DEF PayThen
<1>3. t # None /\ next \notin {"panic", "handleBalanceMenu"}
  BY NoneIsNew DEF Finals
<1> HIDE DEF p
<1>4. SoundPlan(s, p)
  BY <1>2, <1>3 DEF SoundPlan
<1> QED
  BY <1>1, <1>4 DEF p

-----------------------------------------------------------------------------
LEMMA MainMenuSound ==
  ASSUME NEW s \in Session, WellFormed(s), s.current_menu = "main",
         NEW input \in Inputs \cup {Empty}
  PROVE  /\ handleMainMenu(s, input) \in Plan
         /\ SoundPlan(s, handleMainMenu(s, input))
<1> DEFINE p == handleMainMenu(s, input)
<1>0. NoTransfer(s) /\ NoDeposit(s) /\ NoWithdraw(s)
  BY DEF WellFormed
<1>1. CASE input.txt = "1"
  <2> DEFINE t == [s EXCEPT !.current_menu = "balance"]
  <2>1. p = SaveThen(t, "handleBalanceMenu")
    BY <1>1 DEF handleMainMenu
  <2>2. t \in Session /\ t.phone_number = s.phone_number
    BY DEF Session, Menus
  <2>3. WellFormed(t)
    BY <1>0 DEF WellFormed, NoTransfer, NoDeposit, NoWithdraw, Session
  <2> QED
    BY <2>1, <2>2, <2>3, SaveSound
<1>2. CASE input.txt = "2"
  <2> DEFINE t == [s EXCEPT !.current_menu = "transfer",
                            !.transfer_step = "recipient"]
  <2>1. p = SaveThen(t, "CON recipient")
    BY <1>2 DEF handleMainMenu
  <2>2. t \in Session /\ t.phone_number = s.phone_number
    BY DEF Session, Menus
  <2>3. WellFormed(t)
    BY <1>0 DEF WellFormed, InTransfer, NoTransfer, NoDeposit, NoWithdraw, Session
  <2>4. "CON recipient" \in Replies \ {"panic"}
    BY DEF Replies, Prompts
  <2> QED
    BY <2>1, <2>2, <2>3, <2>4, SaveSound
<1>3. CASE input.txt = "3"
  <2> DEFINE t == [s EXCEPT !.current_menu = "deposit",
                            !.deposit_step = "amount"]
  <2>1. p = SaveThen(t, "CON amount")
    BY <1>3 DEF handleMainMenu
  <2>2. t \in Session /\ t.phone_number = s.phone_number
    BY DEF Session, Menus
  <2>3. WellFormed(t)
    BY <1>0 DEF WellFormed, InDeposit, NoTransfer, NoDeposit, NoWithdraw, Session
  <2>4. "CON amount" \in Replies \ {"panic"}
    BY DEF Replies, Prompts
  <2> QED
    BY <2>1, <2>2, <2>3, <2>4, SaveSound
<1>4. CASE input.txt = "4"
  <2> DEFINE t == [s EXCEPT !.current_menu = "withdraw",
                            !.withdraw_step = "amount"]
  <2>1. p = SaveThen(t, "CON amount")
    BY <1>4 DEF handleMainMenu
  <2>2. t \in Session /\ t.phone_number = s.phone_number
    BY DEF Session, Menus
  <2>3. WellFormed(t)
    BY <1>0 DEF WellFormed, InWithdraw, NoTransfer, NoDeposit, NoWithdraw, Session
  <2>4. "CON amount" \in Replies \ {"panic"}
    BY DEF Replies, Prompts
  <2> QED
    BY <2>1, <2>2, <2>3, <2>4, SaveSound
<1>5. CASE input.txt \notin {"1", "2", "3", "4"}
  <2> DEFINE Sound(next) == /\ next \in Replies
                            /\ next = "panic" => AccountPanics(s)
  <2>1. Sound("END info") /\ Sound("END bye") /\ Sound("CON invalid option")
    BY DEF Replies, Prompts, Finals, Errors
  <2>2. AccountPanics(s) => Sound("panic")
    BY DEF Replies, Errors
  <2>3. \/ p = Say("END bye") \/ p = Say("CON invalid option")
        \/ p = Say(IF AccountPanics(s) THEN "panic" ELSE "END info")
    BY <1>5 DEF handleMainMenu
  <2>4. \/ p = Say("END bye") \/ p = Say("CON invalid option")
        \/ p = Say("END info")
        \/ p = Say("panic") /\ AccountPanics(s)
    BY <2>3
  <2> QED
    BY <2>1, <2>2, <2>4, SaySound
<1> QED
  BY <1>1, <1>2, <1>3, <1>4, <1>5

-----------------------------------------------------------------------------
LEMMA BalanceMenuSound ==
  ASSUME NEW s \in Session, WellFormed(s), s.current_menu = "balance",
         NEW input \in Inputs \cup {Empty}
  PROVE  /\ handleBalanceMenu(s, input) \in Plan
         /\ SoundPlan(s, handleBalanceMenu(s, input))
<1> DEFINE p == handleBalanceMenu(s, input)
           t == ToMain(s)
<1>1. CASE input.txt # ""
  <2>1. p = Say("CON main") /\ "CON main" \in Replies
    BY <1>1 DEF handleBalanceMenu, getMainMenu, Replies, Prompts
  <2> QED
    BY <2>1, SaySound
<1>2. CASE input.txt = "" /\ AccountPanics(s)
  <2>1. p = Say("panic") /\ "panic" \in Replies
    BY <1>2 DEF handleBalanceMenu, Replies, Errors
  <2> QED
    BY <1>2, <2>1, SaySound
<1>3. CASE input.txt = "" /\ ~AccountPanics(s)
  <2>1. p = SaveThen(t, "END balance")
    BY <1>3 DEF handleBalanceMenu
  <2>2. t \in Session /\ t.phone_number = s.phone_number
    BY DEF ToMain, Session, Menus
  <2>3. WellFormed(t)
    BY DEF ToMain, WellFormed, NoTransfer, NoDeposit, NoWithdraw, Session
  <2>4. "END balance" \in Replies \ {"panic"}
    BY DEF Replies, Finals
  <2> QED
    BY <2>1, <2>2, <2>3, <2>4, SaveSound
<1> QED
  BY <1>1, <1>2, <1>3

-----------------------------------------------------------------------------
\* Clearing the data of an operation leaves a session of the main menu.
LEMMA ClearTransferType ==
  ASSUME NEW s \in Session
  PROVE  /\ ClearTransfer(s) \in Session
         /\ ClearTransfer(s).phone_number = s.phone_number
         /\ NoDeposit(s) /\ NoWithdraw(s) => WellFormed(ClearTransfer(s))
BY DEF ClearTransfer, ToMain, Session, Menus, WellFormed, NoTransfer,
       NoDeposit, NoWithdraw

\* An amount the three amount steps let through is a positive number.
LEMMA ValidAmount ==
  ASSUME NEW input \in Inputs \cup {Empty}, ~InvalidAmount(input)
  PROVE  input.num \in Numbers /\ ~NotPositive(input.num)
BY InputType DEF InvalidAmount, Input

\* One that also passes the balance check, and that json.Marshal encodes, is
\* payable: only the encoding keeps NaN out.
LEMMA CheckedAmountPayable ==
  ASSUME NEW n \in Numbers, ~NotPositive(n), ~Exceeds(n, AccountBalance),
         n.kind = "finite"
  PROVE  Payable(n)
BY DEF Payable, NotPositive, Numbers

LEMMA TransferRecipientSound ==
  ASSUME NEW s \in Session, NoDeposit(s), NoWithdraw(s),
         s.current_menu = "transfer", s.transfer_amount = None,
         NEW input \in Inputs \cup {Empty}
  PROVE  /\ TransferRecipient(s, input) \in Plan
         /\ SoundPlan(s, TransferRecipient(s, input))
<1> DEFINE p == TransferRecipient(s, input)
           t == [s EXCEPT !.transfer_recipient = input,
                          !.transfer_step = "amount"]
<1>1. CASE ~isValidPhoneNumber(input)
  <2>1. p = Say("CON invalid phone") /\ "CON invalid phone" \in Replies
    BY <1>1 DEF TransferRecipient, Replies, Prompts
  <2> QED
    BY <2>1, SaySound
<1>2. CASE isValidPhoneNumber(input)
  <2>1. p = SaveThen(t, "CON amount") /\ "CON amount" \in Replies \ {"panic"}
    BY <1>2 DEF TransferRecipient, Replies, Prompts
  <2>2. ValidRecipient(input)
    <3>1. Empty.len = 0
      BY DEF Empty
    <3>2. ~isValidPhoneNumber(Empty)
      BY <3>1 DEF isValidPhoneNumber
    <3> QED
      BY <1>2, <3>2 DEF ValidRecipient
  <2>3. t \in Session /\ t.phone_number = s.phone_number
    BY <2>2 DEF Session, ValidRecipient
  <2>4. WellFormed(t)
    BY <2>2 DEF WellFormed, InTransfer, NoDeposit, NoWithdraw, Session
  <2> QED
    BY <2>1, <2>3, <2>4, SaveSound
<1> QED
  BY <1>1, <1>2

LEMMA TransferAmountSound ==
  ASSUME NEW s \in Session, WellFormed(s), s.current_menu = "transfer",
         s.transfer_step = "amount", NEW input \in Inputs \cup {Empty}
  PROVE  /\ TransferAmount(s, input) \in Plan
         /\ SoundPlan(s, TransferAmount(s, input))
<1> DEFINE p == TransferAmount(s, input)
           t == [s EXCEPT !.transfer_amount = input.num,
                          !.transfer_step = "confirm"]
<1>0. ValidRecipient(s.transfer_recipient) /\ NoDeposit(s) /\ NoWithdraw(s)
  BY DEF WellFormed, InTransfer
<1>1. CASE InvalidAmount(input)
  <2>1. p = Say("CON invalid amount") /\ "CON invalid amount" \in Replies
    BY <1>1 DEF TransferAmount, Replies, Prompts
  <2> QED
    BY <2>1, SaySound
<1>2. CASE ~InvalidAmount(input) /\ AccountPanics(s)
  <2>1. p = Say("panic") /\ "panic" \in Replies
    BY <1>2 DEF TransferAmount, Replies, Errors
  <2> QED
    BY <1>2, <2>1, SaySound
<1>3. CASE /\ ~InvalidAmount(input) /\ ~AccountPanics(s)
           /\ Exceeds(input.num, AccountBalance)
  <2>1. /\ p = Say("END insufficient funds")
        /\ "END insufficient funds" \in Replies
    BY <1>3 DEF TransferAmount, Replies, Finals
  <2> QED
    BY <2>1, SaySound
<1>4. CASE /\ ~InvalidAmount(input) /\ ~AccountPanics(s)
           /\ ~Exceeds(input.num, AccountBalance)
  <2>1. s.transfer_recipient # None
    BY <1>0, NoneIsNew DEF ValidRecipient
  <2>2. p = SaveThen(t, "CON confirm") /\ "CON confirm" \in Replies \ {"panic"}
    BY <1>4, <2>1 DEF TransferAmount, Replies, Prompts
  <2>3. input.num \in Numbers /\ ~NotPositive(input.num)
    BY <1>4, ValidAmount
  <2>4. t \in Session /\ t.phone_number = s.phone_number
    BY <2>3 DEF Session
  <2>5. ASSUME Marshals(t) PROVE WellFormed(t)
    <3>1. t.transfer_amount = input.num /\ input.num # None
      BY <2>3, NoneIsNew DEF Session
    <3>2. Payable(input.num)
      BY <1>4, <2>3, <2>5, <3>1, CheckedAmountPayable DEF Marshals
    <3> QED
      BY <1>0, <3>2 DEF WellFormed, InTransfer, NoDeposit, NoWithdraw, Session
  <2> QED
    BY <2>2, <2>4, <2>5, SaveSound
<1> QED
  BY <1>1, <1>2, <1>3, <1>4

\* The payment of a confirmed transfer is the one that was checked.
LEMMA TransferConfirmSound ==
  ASSUME NEW s \in Session, WellFormed(s), s.current_menu = "transfer",
         s.transfer_step = "confirm", NEW input \in Inputs \cup {Empty}
  PROVE  /\ TransferConfirm(s, input) \in Plan
         /\ SoundPlan(s, TransferConfirm(s, input))
<1> DEFINE p == TransferConfirm(s, input)
           t == ClearTransfer(s)
<1>0. /\ ValidRecipient(s.transfer_recipient) /\ Payable(s.transfer_amount)
      /\ NoDeposit(s) /\ NoWithdraw(s)
  BY DEF WellFormed, InTransfer
<1>t. t \in Session /\ t.phone_number = s.phone_number /\ WellFormed(t)
  BY <1>0, ClearTransferType
<1>1. CASE input.txt = "1"
  <2> DEFINE pay == [kind |-> "transfer", from |-> s.phone_number,
                     to |-> s.transfer_recipient, amount |-> s.transfer_amount]
  <2>1. s.transfer_recipient # None /\ s.transfer_amount # None
    BY <1>0, NoneIsNew DEF ValidRecipient, Payable
  <2>2. p = PayThen(pay, t, "END transferred")
    BY <1>1, <2>1 DEF TransferConfirm
  <2>3. pay \in Payment
    BY <1>0 DEF Payment, Session, ValidRecipient, Payable
  <2>4. SoundPayment(pay)
    BY <1>0 DEF SoundPayment
  <2> QED
    BY <1>t, <2>2, <2>3, <2>4, PaySound DEF Finals
<1>2. CASE input.txt = "2"
  <2>1. p = SaveThen(t, "END cancelled") /\ "END cancelled" \in Replies \ {"panic"}
    BY <1>2 DEF TransferConfirm, Replies, Finals
  <2> QED
    BY <1>t, <2>1, SaveSound
<1>3. CASE input.txt \notin {"1", "2"}
  <2>1. p = Say("CON invalid option") /\ "CON invalid option" \in Replies
    BY <1>3 DEF TransferConfirm, Replies, Prompts
  <2> QED
    BY <2>1, SaySound
<1> QED
  BY <1>1, <1>2, <1>3

LEMMA TransferMenuSound ==
  ASSUME NEW s \in Session, WellFormed(s), s.current_menu = "transfer",
         NEW input \in Inputs \cup {Empty}
  PROVE  /\ handleTransferMenu(s, input) \in Plan
         /\ SoundPlan(s, handleTransferMenu(s, input))
<1>0. NoDeposit(s) /\ NoWithdraw(s) /\ InTransfer(s)
  BY DEF WellFormed
<1>1. CASE s.transfer_step = "recipient"
  <2>1. [s EXCEPT !.transfer_step = "recipient"] = s
    BY <1>1 DEF Session
  <2>2. handleTransferMenu(s, input) = TransferRecipient(s, input)
    BY <1>1, <2>1 DEF handleTransferMenu
  <2>3. s.transfer_amount = None
    BY <1>0, <1>1 DEF InTransfer
  <2> QED
    BY <1>0, <2>2, <2>3, TransferRecipientSound
<1>2. CASE s.transfer_step = "amount"
  BY <1>2, TransferAmountSound DEF handleTransferMenu
<1>3. CASE s.transfer_step = "confirm"
  BY <1>3, TransferConfirmSound DEF handleTransferMenu
<1> QED
  BY <1>0, <1>1, <1>2, <1>3 DEF InTransfer

-----------------------------------------------------------------------------
LEMMA ClearDepositType ==
  ASSUME NEW s \in Session
  PROVE  /\ ClearDeposit(s) \in Session
         /\ ClearDeposit(s).phone_number = s.phone_number
         /\ NoTransfer(s) /\ NoWithdraw(s) => WellFormed(ClearDeposit(s))
BY DEF ClearDeposit, ToMain, Session, Menus, WellFormed, NoTransfer,
       NoDeposit, NoWithdraw

LEMMA DepositAmountSound ==
  ASSUME NEW s \in Session, NoTransfer(s), NoWithdraw(s),
         s.current_menu = "deposit", NEW input \in Inputs \cup {Empty}
  PROVE  /\ DepositAmount(s, input) \in Plan
         /\ SoundPlan(s, DepositAmount(s, input))
<1> DEFINE p == DepositAmount(s, input)
           t == [s EXCEPT !.deposit_amount = input.num,
                          !.deposit_step = "method"]
<1>1. CASE InvalidAmount(input)
  <2>1. p = Say("CON invalid amount") /\ "CON invalid amount" \in Replies
    BY <1>1 DEF DepositAmount, Replies, Prompts
  <2> QED
    BY <2>1, SaySound
<1>2. CASE ~InvalidAmount(input)
  <2>1. /\ p = SaveThen(t, "CON deposit method")
        /\ "CON deposit method" \in Replies \ {"panic"}
    BY <1>2 DEF DepositAmount, Replies, Prompts
  <2>2. input.num \in Numbers /\ ~NotPositive(input.num)
    BY <1>2, ValidAmount
  <2>3. t \in Session /\ t.phone_number = s.phone_number
    BY <2>2 DEF Session
  <2>4. WellFormed(t)
    BY <2>2 DEF WellFormed, InDeposit, NoTransfer, NoWithdraw, Session
  <2> QED
    BY <2>1, <2>3, <2>4, SaveSound
<1> QED
  BY <1>1, <1>2

LEMMA DepositMethodSound ==
  ASSUME NEW s \in Session, WellFormed(s), s.current_menu = "deposit",
         s.deposit_step = "method", NEW input \in Inputs \cup {Empty}
  PROVE  /\ DepositMethod(s, input) \in Plan
         /\ SoundPlan(s, DepositMethod(s, input))
<1> DEFINE p == DepositMethod(s, input)
           t == ClearDeposit(s)
<1>0. s.deposit_amount # None /\ NoTransfer(s) /\ NoWithdraw(s)
  BY NoneIsNew DEF WellFormed, InDeposit
<1>t. t \in Session /\ t.phone_number = s.phone_number /\ WellFormed(t)
  BY <1>0, ClearDepositType
<1>1. CASE input.txt \in {"1", "2", "3"} /\ AccountPanics(s)
  <2>1. p = Say("panic") /\ "panic" \in Replies
    BY <1>1 DEF DepositMethod, Replies, Errors
  <2> QED
    BY <1>1, <2>1, SaySound
<1>2. CASE input.txt \in {"1", "2", "3"} /\ ~AccountPanics(s)
  <2>1. p = SaveThen(t, "END deposit") /\ "END deposit" \in Replies \ {"panic"}
    BY <1>0, <1>2 DEF DepositMethod, Replies, Finals
  <2> QED
    BY <1>t, <2>1, SaveSound
<1>3. CASE input.txt = "4"
  <2>1. p = SaveThen(t, "END cancelled") /\ "END cancelled" \in Replies \ {"panic"}
    BY <1>3 DEF DepositMethod, Replies, Finals
  <2> QED
    BY <1>t, <2>1, SaveSound
<1>4. CASE input.txt \notin {"1", "2", "3", "4"}
  <2>1. p = Say("CON invalid option") /\ "CON invalid option" \in Replies
    BY <1>4 DEF DepositMethod, Replies, Prompts
  <2> QED
    BY <2>1, SaySound
<1> QED
  BY <1>1, <1>2, <1>3, <1>4

LEMMA DepositMenuSound ==
  ASSUME NEW s \in Session, WellFormed(s), s.current_menu = "deposit",
         NEW input \in Inputs \cup {Empty}
  PROVE  /\ handleDepositMenu(s, input) \in Plan
         /\ SoundPlan(s, handleDepositMenu(s, input))
<1>0. NoTransfer(s) /\ NoWithdraw(s) /\ InDeposit(s)
  BY DEF WellFormed
<1>1. CASE s.deposit_step = "amount"
  <2>1. [s EXCEPT !.deposit_step = "amount"] = s
    BY <1>1 DEF Session
  <2>2. handleDepositMenu(s, input) = DepositAmount(s, input)
    BY <1>1, <2>1 DEF handleDepositMenu
  <2> QED
    BY <1>0, <2>2, DepositAmountSound
<1>2. CASE s.deposit_step = "method"
  BY <1>2, DepositMethodSound DEF handleDepositMenu
<1> QED
  BY <1>0, <1>1, <1>2 DEF InDeposit

-----------------------------------------------------------------------------
LEMMA ClearWithdrawType ==
  ASSUME NEW s \in Session
  PROVE  /\ ClearWithdraw(s) \in Session
         /\ ClearWithdraw(s).phone_number = s.phone_number
         /\ NoTransfer(s) /\ NoDeposit(s) => WellFormed(ClearWithdraw(s))
BY DEF ClearWithdraw, ToMain, Session, Menus, WellFormed, NoTransfer,
       NoDeposit, NoWithdraw

LEMMA WithdrawAmountSound ==
  ASSUME NEW s \in Session, NoTransfer(s), NoDeposit(s),
         s.current_menu = "withdraw", NEW input \in Inputs \cup {Empty}
  PROVE  /\ WithdrawAmount(s, input) \in Plan
         /\ SoundPlan(s, WithdrawAmount(s, input))
<1> DEFINE p == WithdrawAmount(s, input)
           t == [s EXCEPT !.withdraw_amount = input.num,
                          !.withdraw_step = "method"]
<1>1. CASE InvalidAmount(input)
  <2>1. p = Say("CON invalid amount") /\ "CON invalid amount" \in Replies
    BY <1>1 DEF WithdrawAmount, Replies, Prompts
  <2> QED
    BY <2>1, SaySound
<1>2. CASE ~InvalidAmount(input) /\ AccountPanics(s)
  <2>1. p = Say("panic") /\ "panic" \in Replies
    BY <1>2 DEF WithdrawAmount, Replies, Errors
  <2> QED
    BY <1>2, <2>1, SaySound
<1>3. CASE /\ ~InvalidAmount(input) /\ ~AccountPanics(s)
           /\ Exceeds(input.num, AccountBalance)
  <2>1. /\ p = Say("END insufficient funds")
        /\ "END insufficient funds" \in Replies
    BY <1>3 DEF WithdrawAmount, Replies, Finals
  <2> QED
    BY <2>1, SaySound
<1>4. CASE /\ ~InvalidAmount(input) /\ ~AccountPanics(s)
           /\ ~Exceeds(input.num, AccountBalance)
  <2>1. /\ p = SaveThen(t, "CON withdraw method")
        /\ "CON withdraw method" \in Replies \ {"panic"}
    BY <1>4 DEF WithdrawAmount, Replies, Prompts
  <2>2. input.num \in Numbers /\ ~NotPositive(input.num)
    BY <1>4, ValidAmount
  <2>3. t \in Session /\ t.phone_number = s.phone_number
    BY <2>2 DEF Session
  <2>4. ASSUME Marshals(t) PROVE WellFormed(t)
    <3>1. t.withdraw_amount = input.num /\ input.num # None
      BY <2>2, NoneIsNew DEF Session
    <3>2. Payable(input.num)
      BY <1>4, <2>2, <2>4, <3>1, CheckedAmountPayable DEF Marshals
    <3> QED
      BY <3>2 DEF WellFormed, InWithdraw, NoTransfer, NoDeposit, Session
  <2> QED
    BY <2>1, <2>3, <2>4, SaveSound
<1> QED
  BY <1>1, <1>2, <1>3, <1>4

LEMMA WithdrawMethodSound ==
  ASSUME NEW s \in Session, WellFormed(s), s.current_menu = "withdraw",
         s.withdraw_step = "method", NEW input \in Inputs \cup {Empty}
  PROVE  /\ WithdrawMethod(s, input) \in Plan
         /\ SoundPlan(s, WithdrawMethod(s, input))
<1> DEFINE p == WithdrawMethod(s, input)
           t == ClearWithdraw(s)
<1>0. Payable(s.withdraw_amount) /\ NoTransfer(s) /\ NoDeposit(s)
  BY DEF WellFormed, InWithdraw
<1>t. t \in Session /\ t.phone_number = s.phone_number /\ WellFormed(t)
  BY <1>0, ClearWithdrawType
<1>1. CASE input.txt \in {"1", "2", "3"}
  <2> DEFINE pay == [kind |-> "withdrawal", from |-> s.phone_number,
                     to |-> None, amount |-> s.withdraw_amount]
  <2>1. s.withdraw_amount # None
    BY <1>0, NoneIsNew DEF Payable
  <2>2. p = PayThen(pay, t, "END withdrawn")
    BY <1>1, <2>1 DEF WithdrawMethod
  <2>3. pay \in Payment
    BY <1>0 DEF Payment, Session, Payable
  <2>4. SoundPayment(pay)
    BY <1>0 DEF SoundPayment
  <2> QED
    BY <1>t, <2>2, <2>3, <2>4, PaySound DEF Finals
<1>2. CASE input.txt = "4"
  <2>1. p = SaveThen(t, "END cancelled") /\ "END cancelled" \in Replies \ {"panic"}
    BY <1>2 DEF WithdrawMethod, Replies, Finals
  <2> QED
    BY <1>t, <2>1, SaveSound
<1>3. CASE input.txt \notin {"1", "2", "3", "4"}
  <2>1. p = Say("CON invalid option") /\ "CON invalid option" \in Replies
    BY <1>3 DEF WithdrawMethod, Replies, Prompts
  <2> QED
    BY <2>1, SaySound
<1> QED
  BY <1>1, <1>2, <1>3

LEMMA WithdrawMenuSound ==
  ASSUME NEW s \in Session, WellFormed(s), s.current_menu = "withdraw",
         NEW input \in Inputs \cup {Empty}
  PROVE  /\ handleWithdrawMenu(s, input) \in Plan
         /\ SoundPlan(s, handleWithdrawMenu(s, input))
<1>0. NoTransfer(s) /\ NoDeposit(s) /\ InWithdraw(s)
  BY DEF WellFormed
<1>1. CASE s.withdraw_step = "amount"
  <2>1. [s EXCEPT !.withdraw_step = "amount"] = s
    BY <1>1 DEF Session
  <2>2. handleWithdrawMenu(s, input) = WithdrawAmount(s, input)
    BY <1>1, <2>1 DEF handleWithdrawMenu
  <2> QED
    BY <1>0, <2>2, WithdrawAmountSound
<1>2. CASE s.withdraw_step = "method"
  BY <1>2, WithdrawMethodSound DEF handleWithdrawMenu
<1> QED
  BY <1>0, <1>1, <1>2 DEF InWithdraw

-----------------------------------------------------------------------------
\* The dispatch: every menu of a session has a handler, and all are sound.
LEMMA HandlersSound ==
  ASSUME NEW s \in Session, WellFormed(s), NEW input \in Inputs \cup {Empty}
  PROVE  /\ processUSSDInput(s, input) \in Plan
         /\ SoundPlan(s, processUSSDInput(s, input))
<1>1. CASE s.current_menu = "main"
  BY <1>1, MainMenuSound DEF processUSSDInput
<1>2. CASE s.current_menu = "balance"
  BY <1>2, BalanceMenuSound DEF processUSSDInput
<1>3. CASE s.current_menu = "transfer"
  BY <1>3, TransferMenuSound DEF processUSSDInput
<1>4. CASE s.current_menu = "deposit"
  BY <1>4, DepositMenuSound DEF processUSSDInput
<1>5. CASE s.current_menu = "withdraw"
  BY <1>5, WithdrawMenuSound DEF processUSSDInput
<1> QED
  BY <1>1, <1>2, <1>3, <1>4, <1>5 DEF Session, Menus

-----------------------------------------------------------------------------
(***************************************************************************)
(* The inductive invariant.  A session is sound wherever it is: in Redis,  *)
(* read by a request, or about to be saved.  TypeOK says where a request   *)
(* holds which of them.                                                    *)
(***************************************************************************)
RedisSound == \A k \in Keys : redis[k] # None =>
                WellFormed(redis[k]) /\ Marshals(redis[k])

ReadSound == \A r \in Requests : pc[r] = "process" =>
               WellFormed(sess[r]) /\ Marshals(sess[r])

SavesSound == \A r \in Requests : pc[r] = "save" =>
                /\ Marshals(plan[r].save) => WellFormed(plan[r].save)
                /\ plan[r].next # "panic"

IInv == /\ TypeOK /\ RedisSound /\ ReadSound /\ SavesSound
        /\ PanicOnlyOnShortPhone /\ LedgerSound

LEMMA KeyTypes ==
  /\ \A sid \in SessionIDs : LookupKey(sid) \in Keys
  /\ \A s \in Session : SaveKey(s) \in Keys
BY DEF LookupKey, SaveKey, Keys, Session

LEMMA NewSessionSound ==
  ASSUME NEW id \in Ids, NEW sid \in SessionIDs, NEW phone \in Phones
  PROVE  /\ NewSession(id, sid, phone) \in Session
         /\ WellFormed(NewSession(id, sid, phone))
BY DEF NewSession, Session, Menus, WellFormed, NoTransfer, NoDeposit, NoWithdraw

LEMMA InitIInv == Init => IInv
<1> SUFFICES ASSUME Init PROVE IInv
  OBVIOUS
<1>1. TypeOK
  BY DEF Init, TypeOK
<1>2. RedisSound /\ ReadSound /\ SavesSound
  BY DEF Init, RedisSound, ReadSound, SavesSound
<1>3. PanicOnlyOnShortPhone /\ LedgerSound
  BY DEF Init, PanicOnlyOnShortPhone, LedgerSound
<1> QED
  BY <1>1, <1>2, <1>3 DEF IInv

LEMMA ReceiveIInv ==
  ASSUME IInv, NEW r \in Requests, Receive(r)
  PROVE  IInv'
<1> USE DEF IInv
<1>1. PICK m \in [sid : SessionIDs, phone : Phones, input : Inputs] :
        /\ pc[r] = "idle"
        /\ pc' = [pc EXCEPT ![r] = "get"]
        /\ msg' = [msg EXCEPT ![r] = m]
        /\ UNCHANGED <<redis, sess, plan, ledger, mandate>>
  BY DEF Receive, Goto
<1>2. m \in Message
  BY DEF Message
<1>3. TypeOK'
  BY <1>1, <1>2 DEF TypeOK
<1>4. RedisSound' /\ ReadSound' /\ SavesSound'
  BY <1>1 DEF TypeOK, RedisSound, ReadSound, SavesSound
<1>5. PanicOnlyOnShortPhone' /\ LedgerSound'
  BY <1>1 DEF TypeOK, PanicOnlyOnShortPhone, LedgerSound
<1> QED
  BY <1>3, <1>4, <1>5

LEMMA GetSessionIInv ==
  ASSUME IInv, NEW r \in Requests, GetSession(r)
  PROVE  IInv'
<1> DEFINE k == LookupKey(msg[r].sid)
<1> USE DEF IInv
<1>0. /\ pc[r] = "get" /\ msg[r] \in Message /\ k \in Keys
      /\ UNCHANGED <<redis, msg, ledger, mandate>>
  BY KeyTypes DEF GetSession, TypeOK, Message
<1>1. CASE /\ Decide(r, Say("END unavailable"))
           /\ Goto(r, "reply")
           /\ UNCHANGED sess
  <2>1. Say("END unavailable") \in Plan /\ Say("END unavailable").next # "panic"
    BY SayType DEF Say, Replies, Errors
  <2> DEFINE p == Say("END unavailable")
  <2>2. plan' = [plan EXCEPT ![r] = p] /\ pc' = [pc EXCEPT ![r] = "reply"]
    BY <1>1 DEF Decide, Goto
  <2> HIDE DEF p
  <2>3. TypeOK'
    BY <1>0, <1>1, <2>1, <2>2 DEF TypeOK, p
  <2>4. RedisSound' /\ ReadSound' /\ SavesSound'
    BY <1>0, <1>1, <2>2 DEF TypeOK, RedisSound, ReadSound, SavesSound
  <2>5. PanicOnlyOnShortPhone' /\ LedgerSound'
    BY <1>0, <1>1, <2>1, <2>2 DEF TypeOK, PanicOnlyOnShortPhone, LedgerSound, p
  <2> QED
    BY <2>3, <2>4, <2>5
<1>2. CASE /\ redis[k] # None
           /\ sess' = [sess EXCEPT ![r] = redis[k]]
           /\ Goto(r, "process")
           /\ UNCHANGED plan
  <2>1. pc' = [pc EXCEPT ![r] = "process"]
    BY <1>2 DEF Goto
  <2>2. redis[k] \in Session /\ WellFormed(redis[k]) /\ Marshals(redis[k])
    BY <1>0, <1>2 DEF TypeOK, RedisSound
  <2> HIDE DEF k
  <2>3. TypeOK'
    BY <1>0, <1>2, <2>1, <2>2 DEF TypeOK
  <2>4. RedisSound' /\ ReadSound' /\ SavesSound'
    BY <1>0, <1>2, <2>1, <2>2 DEF TypeOK, RedisSound, ReadSound, SavesSound
  <2>5. PanicOnlyOnShortPhone' /\ LedgerSound'
    BY <1>0, <1>2, <2>1 DEF TypeOK, PanicOnlyOnShortPhone, LedgerSound
  <2> QED
    BY <2>3, <2>4, <2>5
<1>3. CASE /\ \E id \in Ids :
                Decide(r, SaveThen(NewSession(id, msg[r].sid, msg[r].phone),
                                   "CON main"))
           /\ Goto(r, "save")
           /\ UNCHANGED sess
  <2>1. PICK id \in Ids :
          plan' = [plan EXCEPT ![r] =
                     SaveThen(NewSession(id, msg[r].sid, msg[r].phone), "CON main")]
    BY <1>3 DEF Decide
  <2> DEFINE s == NewSession(id, msg[r].sid, msg[r].phone)
             p == SaveThen(s, "CON main")
  <2>2. s \in Session /\ WellFormed(s)
    BY <1>0, NewSessionSound DEF Message
  <2>3. p \in Plan /\ p.save = s /\ p.next = "CON main"
    BY <2>2, SaveThenType DEF SaveThen, Replies, Prompts
  <2>4. plan' = [plan EXCEPT ![r] = p] /\ pc' = [pc EXCEPT ![r] = "save"]
    BY <1>3, <2>1 DEF Goto
  <2> HIDE DEF s, p
  <2>5. TypeOK'
    BY <1>0, <1>3, <2>2, <2>3, <2>4 DEF TypeOK
  <2>6. RedisSound' /\ ReadSound' /\ SavesSound'
    BY <1>0, <1>3, <2>2, <2>3, <2>4 DEF TypeOK, RedisSound, ReadSound, SavesSound
  <2>7. PanicOnlyOnShortPhone' /\ LedgerSound'
    BY <1>0, <1>3, <2>4 DEF TypeOK, PanicOnlyOnShortPhone, LedgerSound
  <2> QED
    BY <2>5, <2>6, <2>7
<1>4. PICK err \in GetRedisKey(k) :
        \/ /\ err \notin {"nil", "redis.Nil"}
           /\ Decide(r, Say("END unavailable"))
           /\ Goto(r, "reply")
           /\ UNCHANGED sess
        \/ /\ err = "nil"
           /\ sess' = [sess EXCEPT ![r] = redis[k]]
           /\ Goto(r, "process")
           /\ UNCHANGED plan
        \/ /\ err = "redis.Nil"
           /\ \E id \in Ids :
                Decide(r, SaveThen(NewSession(id, msg[r].sid, msg[r].phone),
                                   "CON main"))
           /\ Goto(r, "save")
           /\ UNCHANGED sess
  BY DEF GetSession
<1>5. err = "nil" => redis[k] # None
  BY <1>4 DEF GetRedisKey
<1> QED
  BY <1>1, <1>2, <1>3, <1>4, <1>5

LEMMA ProcessIInv ==
  ASSUME IInv, NEW r \in Requests, Process(r)
  PROVE  IInv'
<1> DEFINE p == processUSSDInput(sess[r], msg[r].input)
<1> USE DEF IInv
<1>1. /\ pc[r] = "process" /\ sess[r] \in Session
      /\ msg[r] \in Message /\ WellFormed(sess[r])
  BY DEF Process, TypeOK, ReadSound
<1>2. p \in Plan /\ SoundPlan(sess[r], p)
  BY <1>1, HandlersSound DEF Message
<1>3. /\ plan' = [plan EXCEPT ![r] = p]
      /\ pc' = [pc EXCEPT ![r] = IF p.save = None THEN "reply" ELSE "save"]
      /\ UNCHANGED <<redis, msg, sess>>
      /\ \/ ledger' = ledger /\ mandate' = mandate
         \/ /\ p.pay # None /\ ledger' = ledger \cup {p.pay}
            /\ mandate' = [mandate EXCEPT ![msg[r].sid] = @ - 1]
  BY DEF Process, Decide, Goto
<1> HIDE DEF p
<1>4. TypeOK'
  <2>1. /\ redis' \in [Keys -> Session \cup {None}]
        /\ pc' \in [Requests -> {"idle", "get", "process", "save", "reply"}]
        /\ msg' \in [Requests -> Message \cup {None}]
        /\ sess' \in [Requests -> Session \cup {None}]
        /\ plan' \in [Requests -> Plan \cup {None}]
    BY <1>2, <1>3 DEF TypeOK
  <2>2. ledger' \subseteq Payment /\ mandate' \in [SessionIDs -> Int]
    BY <1>1, <1>2, <1>3 DEF TypeOK, Plan, Message
  <2>3. p.save # None => p.save \in Session
    BY <1>2 DEF Plan
  <2>4. ASSUME NEW q \in Requests
        PROVE  /\ pc'[q] # "idle" => msg'[q] \in Message
               /\ pc'[q] = "process" => sess'[q] \in Session
               /\ pc'[q] \in {"save", "reply"} => plan'[q] \in Plan
               /\ pc'[q] = "save" => plan'[q].save \in Session
    BY <1>1, <1>2, <1>3, <2>3 DEF TypeOK
  <2> QED
    BY <2>1, <2>2, <2>4 DEF TypeOK
<1>5. RedisSound' /\ ReadSound'
  BY <1>3 DEF TypeOK, RedisSound, ReadSound
<1>6. SavesSound'
  BY <1>2, <1>3 DEF TypeOK, SavesSound, SoundPlan
<1>7. PanicOnlyOnShortPhone'
  BY <1>1, <1>2, <1>3, NoneIsNew DEF TypeOK, PanicOnlyOnShortPhone, SoundPlan
<1>8. LedgerSound'
  BY <1>2, <1>3 DEF LedgerSound, SoundPlan, SoundPayment
<1> QED
  BY <1>4, <1>5, <1>6, <1>7, <1>8

\* The mandates a save or a crash leaves are numbers.
LEMMA OpenCardinality ==
  ASSUME NEW sid, NEW S \in SUBSET Open(sid)
  PROVE  Cardinality(S) \in Int
<1>1. IsFiniteSet(S)
  BY UssdSessionAssumption, FS_Subset DEF Open
<1> QED
  BY <1>1, FS_CardinalityType

LEMMA MandateType ==
  /\ \A n, b \in Int : AtMost(n, b) \in Int
  /\ \A n, c \in Int : AtMost(n + c, InFlight) \in Int
  /\ \A r \in Requests, n \in Int : SaveMandate(r, n) \in Int
<1>1. \A n, b \in Int : AtMost(n, b) \in Int
  BY DEF AtMost
<1>2. ASSUME NEW r \in Requests, NEW n \in Int
      PROVE  SaveMandate(r, n) \in Int
  <2>1. Cardinality(Open(msg[r].sid)) \in Int
    BY OpenCardinality
  <2>2. AtMost(n, Cardinality(Open(msg[r].sid)) - 1) \in Int
    BY <1>1, <2>1
  <2> QED
    BY <2>2, UssdSessionAssumption DEF SaveMandate
<1>3. ASSUME NEW n \in Int, NEW c \in Int PROVE AtMost(n + c, InFlight) \in Int
  <2>1. n + c \in Int /\ InFlight \in Int
    BY UssdSessionAssumption
  <2> QED
    BY <1>1, <2>1
<1> QED
  BY <1>1, <1>2, <1>3

\* Storing what a request has decided keeps Redis sound.
LEMMA StoreSound ==
  ASSUME TypeOK, RedisSound, SavesSound, NEW r \in Requests, pc[r] = "save",
         Store(r)
  PROVE  /\ redis' \in [Keys -> Session \cup {None}]
         /\ mandate' \in [SessionIDs -> Int]
         /\ RedisSound'
         /\ WellFormed(plan[r].save) /\ Marshals(plan[r].save)
<1> DEFINE s == plan[r].save
<1>1. s \in Session /\ Marshals(s) /\ WellFormed(s)
  BY DEF TypeOK, Store, SavesSound
<1>2. SaveKey(s) \in Keys
  BY <1>1, KeyTypes
<1>3. redis' = [redis EXCEPT ![SaveKey(s)] = s]
  BY DEF Store
<1>4. mandate' = [mandate EXCEPT ![msg[r].sid] = SaveMandate(r, @)]
  BY DEF Store
<1>5. mandate' \in [SessionIDs -> Int]
  BY <1>4, MandateType DEF TypeOK
<1> HIDE DEF s
<1>6. redis' \in [Keys -> Session \cup {None}]
  BY <1>1, <1>2, <1>3 DEF TypeOK
<1>7. RedisSound'
  BY <1>1, <1>2, <1>3 DEF TypeOK, RedisSound
<1> QED
  BY <1>1, <1>5, <1>6, <1>7 DEF s

LEMMA SaveSessionIInv ==
  ASSUME IInv, NEW r \in Requests, SaveSession(r)
  PROVE  IInv'
<1> DEFINE s == plan[r].save
           n == [msg[r] EXCEPT !.input = Empty]
<1> USE DEF IInv
<1>1. /\ pc[r] = "save" /\ msg[r] \in Message /\ s \in Session
      /\ Store(r) /\ UNCHANGED <<plan, ledger>>
  BY DEF SaveSession, TypeOK
<1>2. /\ redis' \in [Keys -> Session \cup {None}]
      /\ mandate' \in [SessionIDs -> Int]
      /\ RedisSound' /\ WellFormed(s) /\ Marshals(s)
  BY <1>1, StoreSound
<1>3. n \in Message
  BY <1>1 DEF Message
<1>4. CASE /\ sess' = [sess EXCEPT ![r] = s]
           /\ msg' = [msg EXCEPT ![r] = n]
           /\ pc' = [pc EXCEPT ![r] = "process"]
  <2> HIDE DEF s, n
  <2>1. TypeOK'
    BY <1>1, <1>2, <1>3, <1>4 DEF TypeOK
  <2>2. ReadSound' /\ SavesSound'
    BY <1>1, <1>2, <1>4 DEF TypeOK, ReadSound, SavesSound
  <2>3. PanicOnlyOnShortPhone' /\ LedgerSound'
    BY <1>1, <1>4 DEF TypeOK, PanicOnlyOnShortPhone, LedgerSound
  <2> QED
    BY <1>2, <2>1, <2>2, <2>3
<1>5. CASE pc' = [pc EXCEPT ![r] = "reply"] /\ UNCHANGED <<sess, msg>>
  <2> HIDE DEF s, n
  <2>1. TypeOK'
    BY <1>1, <1>2, <1>5 DEF TypeOK
  <2>2. ReadSound' /\ SavesSound'
    BY <1>1, <1>5 DEF TypeOK, ReadSound, SavesSound
  <2>3. PanicOnlyOnShortPhone' /\ LedgerSound'
    BY <1>1, <1>5 DEF TypeOK, PanicOnlyOnShortPhone, LedgerSound, SavesSound
  <2> QED
    BY <1>2, <2>1, <2>2, <2>3
<1>6. msg' = [msg EXCEPT ![r].input = Empty] => msg' = [msg EXCEPT ![r] = n]
  BY DEF TypeOK
<1> QED
  BY <1>4, <1>5, <1>6 DEF SaveSession, Goto

LEMMA SaveFailsIInv ==
  ASSUME IInv, NEW r \in Requests, SaveFails(r)
  PROVE  IInv'
<1> DEFINE p == Say("END not saved")
<1> USE DEF IInv
<1>1. /\ pc[r] = "save" /\ msg[r] \in Message
      /\ pc' = [pc EXCEPT ![r] = "reply"] /\ plan' = [plan EXCEPT ![r] = p]
      /\ UNCHANGED <<msg, sess, ledger>>
  BY DEF SaveFails, Goto, Decide, TypeOK
<1>2. /\ redis' \in [Keys -> Session \cup {None}]
      /\ mandate' \in [SessionIDs -> Int]
      /\ RedisSound'
  <2>1. CASE Store(r)
    BY <1>1, <2>1, StoreSound
  <2>2. CASE /\ mandate' = [mandate EXCEPT ![msg[r].sid] =
                              IF plan[r].pay = None THEN @
                              ELSE AtMost(@ + 1, InFlight)]
             /\ UNCHANGED redis
    <3>1. \A m \in Int : AtMost(m + 1, InFlight) \in Int
      <4>1. 1 \in Int
        OBVIOUS
      <4> QED
        BY <4>1, MandateType
    <3>2. mandate' \in [SessionIDs -> Int]
      BY <2>2, <3>1 DEF TypeOK
    <3> QED
      BY <2>2, <3>2 DEF TypeOK, RedisSound
  <2> QED
    BY <2>1, <2>2 DEF SaveFails
<1>3. p \in Plan /\ p.next # "panic"
  BY SayType DEF Say, Replies, Errors
<1> HIDE DEF p
<1>4. TypeOK'
  BY <1>1, <1>2, <1>3 DEF TypeOK
<1>5. ReadSound' /\ SavesSound'
  BY <1>1 DEF TypeOK, ReadSound, SavesSound
<1>6. PanicOnlyOnShortPhone' /\ LedgerSound'
  BY <1>1, <1>3 DEF TypeOK, PanicOnlyOnShortPhone, LedgerSound
<1> QED
  BY <1>2, <1>4, <1>5, <1>6

LEMMA ReplyIInv ==
  ASSUME IInv, NEW r \in Requests, Reply(r)
  PROVE  IInv'
<1> USE DEF IInv, Reply, Goto
<1>1. TypeOK'
  BY DEF TypeOK
<1>2. RedisSound' /\ ReadSound' /\ SavesSound'
  BY DEF TypeOK, RedisSound, ReadSound, SavesSound
<1>3. PanicOnlyOnShortPhone' /\ LedgerSound'
  BY DEF TypeOK, PanicOnlyOnShortPhone, LedgerSound
<1> QED
  BY <1>1, <1>2, <1>3

LEMMA ExpireIInv ==
  ASSUME IInv, NEW k \in Keys, Expire(k)
  PROVE  IInv'
<1> USE DEF IInv, Expire
<1>1. TypeOK'
  BY DEF TypeOK
<1>2. RedisSound' /\ ReadSound' /\ SavesSound'
  BY DEF TypeOK, RedisSound, ReadSound, SavesSound
<1>3. PanicOnlyOnShortPhone' /\ LedgerSound'
  BY DEF PanicOnlyOnShortPhone, LedgerSound
<1> QED
  BY <1>1, <1>2, <1>3

LEMMA CrashIInv ==
  ASSUME IInv, Crash
  PROVE  IInv'
<1> USE DEF IInv, Crash
<1>1. mandate' \in [SessionIDs -> Int]
  <2>1. \A sid \in SessionIDs :
          AtMost(mandate[sid] + Cardinality(Unsaved(sid)), InFlight) \in Int
    <3>1. \A sid \in SessionIDs : Cardinality(Unsaved(sid)) \in Int
      BY OpenCardinality DEF Unsaved
    <3>2. \A sid \in SessionIDs : mandate[sid] \in Int
      BY DEF TypeOK
    <3> QED
      BY <3>1, <3>2, MandateType
  <2> QED
    BY <2>1
<1>2. TypeOK'
  BY <1>1 DEF TypeOK
<1>3. RedisSound' /\ ReadSound' /\ SavesSound'
  BY DEF RedisSound, ReadSound, SavesSound
<1>4. PanicOnlyOnShortPhone' /\ LedgerSound'
  BY DEF PanicOnlyOnShortPhone, LedgerSound
<1> QED
  BY <1>2, <1>3, <1>4

LEMMA NextIInv == IInv /\ [Next]_vars => IInv'
<1> SUFFICES ASSUME IInv, [Next]_vars PROVE IInv'
  OBVIOUS
<1>1. CASE UNCHANGED vars
  BY <1>1 DEF vars, IInv, TypeOK, RedisSound, ReadSound, SavesSound,
              PanicOnlyOnShortPhone, LedgerSound
<1>2. ASSUME NEW r \in Requests, Receive(r) \/ Handle(r) PROVE IInv'
  BY <1>2, ReceiveIInv, GetSessionIInv, ProcessIInv, SaveSessionIInv,
     SaveFailsIInv, ReplyIInv DEF Handle
<1>3. ASSUME NEW k \in Keys, Expire(k) PROVE IInv'
  BY <1>3, ExpireIInv
<1>4. CASE Crash
  BY <1>4, CrashIInv
<1> QED
  BY <1>1, <1>2, <1>3, <1>4 DEF Next

\* A session is well formed wherever it is, in Redis, read, or about to be saved,
\* whatever fails and whoever interleaves (ussd.go:44-179).
THEOREM Invariant == Spec => []IInv
BY InitIInv, NextIInv, PTL DEF Spec

-----------------------------------------------------------------------------
\* Every variable keeps its type, and every request holds what the place it
\* has reached needs: a message, a session, a plan, a session to save.
THEOREM TypeCorrect == Spec => []TypeOK
<1>1. IInv => TypeOK
  BY DEF IInv
<1> QED
  BY <1>1, Invariant, PTL

\* However requests interleave, fail and crash, saveSession (ussd.go:149-169)
\* only ever leaves in Redis a session that some handler can go on with.
THEOREM StoreIsSound == Spec => []StoredSessionsWellFormed
<1>1. IInv => StoredSessionsWellFormed
  BY DEF IInv, RedisSound, StoredSessionsWellFormed
<1> QED
  BY <1>1, Invariant, PTL

\* The unchecked type assertions of the handlers (wallet.go:105-113, 209,
\* 309) never panic.
THEOREM AssertionsNeverPanic == Spec => []PanicOnlyOnShortPhone
<1>1. IInv => PanicOnlyOnShortPhone
  BY DEF IInv
<1> QED
  BY <1>1, Invariant, PTL

\* Every payment is of a positive amount within the balance, and a transfer
\* goes to a number that was checked (wallet.go:66-117, 252-316).
THEOREM PaymentsAreSound == Spec => []LedgerSound
<1>1. IInv => LedgerSound
  BY DEF IInv
<1> QED
  BY <1>1, Invariant, PTL
=============================================================================
