------------------------------ MODULE UssdMenu ------------------------------
(***************************************************************************)
(* The menu handlers of the USSD controller (controller/ussd.go and        *)
(* controller/wallet.go), as functions of the session they are given and   *)
(* of the last segment of the text the subscriber typed.                   *)
(*                                                                         *)
(* A handler decides from its arguments alone.  What it does to the rest   *)
(* of the system is a plan: an optional payment, then an optional          *)
(* saveSession, then a reply -- or the call of a further handler.  The     *)
(* module that owns Redis and the requests executes the plan, one shared   *)
(* access at a time.                                                       *)
(***************************************************************************)
EXTENDS Integers

CONSTANTS
  Inputs,       \* what a subscriber may type, see Input below
  Phones,       \* subscriber numbers, as the gateway sends them
  ShortPhones,  \* the numbers of fewer than nine characters
  SessionIDs,   \* session identifiers of the USSD gateway
  Ids,          \* values of time.Now().Nanosecond(), the ID of a session
  None          \* an absent JSON key, payment or session

(***************************************************************************)
(* A float64, in units of a hundredth of a cent, for an amount need not be *)
(* a whole number of cents.  The non-finite values matter: ParseFloat      *)
(* accepts "NaN" and "Inf", every comparison with NaN is false, and        *)
(* json.Marshal refuses them all.                                          *)
(***************************************************************************)
Numbers == [kind : {"finite", "NaN", "+Inf", "-Inf"}, units : Int]

\* amount <= 0 and amount > balance, as IEEE 754 has them.
NotPositive(x) == \/ x.kind = "-Inf"
                  \/ x.kind = "finite" /\ x.units <= 0
Exceeds(x, b) == \/ x.kind = "+Inf"
                 \/ x.kind = "finite" /\ x.units > b

(***************************************************************************)
(* What a handler sees of an input: its text where it is compared with a   *)
(* menu option ("other" when it is none), what strconv.ParseFloat makes of *)
(* it (None is its error), and how many characters it has besides spaces.  *)
(***************************************************************************)
Texts == {"", "1", "2", "3", "4", "5", "6", "other"}

Input == [txt : Texts, num : Numbers \cup {None}, len : Nat]

Empty == [txt |-> "", num |-> None, len |-> 0]

(***************************************************************************)
(* models.USSDSession.  The keys of its Data map are fields, None where    *)
(* the key is absent.                                                      *)
(***************************************************************************)
Menus == {"main", "balance", "transfer", "deposit", "withdraw"}

Steps == {"recipient", "amount", "confirm", "method"}

Session ==
  [id : Ids, session_id : SessionIDs, phone_number : Phones,
   current_menu : Menus,
   transfer_step : {"recipient", "amount", "confirm", None},
   transfer_recipient : Inputs \cup {None},
   transfer_amount : Numbers \cup {None},
   deposit_step : {"amount", "method", None},
   deposit_amount : Numbers \cup {None},
   withdraw_step : {"amount", "method", None},
   withdraw_amount : Numbers \cup {None}]

NewSession(id, sid, phone) ==
  [id |-> id, session_id |-> sid, phone_number |-> phone,
   current_menu |-> "main",
   transfer_step |-> None, transfer_recipient |-> None,
   transfer_amount |-> None,
   deposit_step |-> None, deposit_amount |-> None,
   withdraw_step |-> None, withdraw_amount |-> None]

(***************************************************************************)
(* A definition whose name ends in Mutant is the next one with a plausible *)
(* mistake in it.  The specification uses none of them: they show which    *)
(* mistake in the code each property would notice.                         *)
(***************************************************************************)

\* The menu is reset to the zero value of a string.
ToMainMutant(s) == [s EXCEPT !.current_menu = ""]

ToMain(s) == [s EXCEPT !.current_menu = "main"]

-----------------------------------------------------------------------------
(***************************************************************************)
(* Plans.  Next is what follows the save: a reply, the panic of the        *)
(* handler, or "handleBalanceMenu", the one handler another one calls.     *)
(***************************************************************************)
Prompts == {"CON main", "CON invalid option", "CON recipient", "CON amount",
            "CON confirm", "CON deposit method", "CON withdraw method",
            "CON invalid phone", "CON invalid amount"}
Finals  == {"END info", "END bye", "END balance", "END insufficient funds",
            "END transferred", "END deposit", "END withdrawn",
            "END cancelled"}
Errors  == {"END unavailable", "END not saved", "panic"}
Replies == Prompts \cup Finals \cup Errors

\* The replies that ask the subscriber to authorise a payment.
Authorising == {"CON confirm", "CON withdraw method"}

Payment == [kind : {"transfer", "withdrawal"}, from : Phones,
            to : Inputs \cup {None}, amount : Numbers \cup {None}]

Plan == [pay : Payment \cup {None}, save : Session \cup {None},
         next : Replies \cup {"handleBalanceMenu"}]

ASSUME UssdMenuAssumption ==
  /\ Inputs \subseteq Input
  /\ ShortPhones \subseteq Phones
  /\ None \notin Input \cup Numbers \cup Steps \cup Session \cup Payment

Say(next)              == [pay |-> None, save |-> None, next |-> next]
SaveThen(s, next)      == [pay |-> None, save |-> s, next |-> next]
PayThen(p, s, next)    == [pay |-> p, save |-> s, next |-> next]

-----------------------------------------------------------------------------
\* getAccountInfo slices the last nine characters of the number, which
\* panics when there are fewer; its balance is a constant of the mock-up.
AccountPanics(s) == s.phone_number \in ShortPhones
AccountBalance == 10005000

isValidPhoneNumber(input) == input.len >= 9

\* err != nil || amount <= 0, the check all three amount steps share.
InvalidAmount(input) == input.num = None \/ NotPositive(input.num)

getMainMenu == Say("CON main")

handleMainMenu(s, input) ==
  CASE input.txt = "1" ->
         SaveThen([s EXCEPT !.current_menu = "balance"], "handleBalanceMenu")
    [] input.txt = "2" ->
         SaveThen([s EXCEPT !.current_menu = "transfer",
                            !.transfer_step = "recipient"], "CON recipient")
    [] input.txt = "3" ->
         SaveThen([s EXCEPT !.current_menu = "deposit",
                            !.deposit_step = "amount"], "CON amount")
    [] input.txt = "4" ->
         SaveThen([s EXCEPT !.current_menu = "withdraw",
                            !.withdraw_step = "amount"], "CON amount")
    [] input.txt = "5" -> Say(IF AccountPanics(s) THEN "panic" ELSE "END info")
    [] input.txt = "6" -> Say("END bye")
    [] OTHER -> Say("CON invalid option")

\* The reply leaves without the reset of the menu.
handleBalanceMenuMutant(s, input) ==
  IF input.txt # "" THEN getMainMenu
  ELSE IF AccountPanics(s) THEN Say("panic")
  ELSE Say("END balance")

handleBalanceMenu(s, input) ==
  IF input.txt # "" THEN getMainMenu
  ELSE IF AccountPanics(s) THEN Say("panic")
  ELSE SaveThen(ToMain(s), "END balance")

-----------------------------------------------------------------------------
(***************************************************************************)
(* handleTransferMenu, one operator for each value of transfer_step.  A    *)
(* missing step is read as "recipient".  An assertion .(string) or         *)
(* .(float64) on an absent key panics.                                     *)
(***************************************************************************)
\* One of the three delete(session.Data, ...) is missing.
ClearTransferMutant(s) ==
  [ToMain(s) EXCEPT !.transfer_step = None, !.transfer_amount = None]

ClearTransfer(s) ==
  [ToMain(s) EXCEPT !.transfer_step = None, !.transfer_recipient = None,
                    !.transfer_amount = None]

\* The recipient is checked, and not stored.
TransferRecipientMutant(s, input) ==
  IF ~isValidPhoneNumber(input) THEN Say("CON invalid phone")
  ELSE SaveThen([s EXCEPT !.transfer_step = "amount"], "CON amount")

TransferRecipient(s, input) ==
  IF ~isValidPhoneNumber(input) THEN Say("CON invalid phone")
  ELSE SaveThen([s EXCEPT !.transfer_recipient = input,
                          !.transfer_step = "amount"], "CON amount")

TransferAmount(s, input) ==
  IF InvalidAmount(input) THEN Say("CON invalid amount")
  ELSE IF AccountPanics(s) THEN Say("panic")
  ELSE IF Exceeds(input.num, AccountBalance) THEN Say("END insufficient funds")
  ELSE SaveThen([s EXCEPT !.transfer_amount = input.num,
                          !.transfer_step = "confirm"],
                IF s.transfer_recipient = None THEN "panic" ELSE "CON confirm")

\* The transfer is paid, and its data left in the session.
TransferConfirmMutant(s, input) ==
  CASE input.txt = "1" ->
         IF s.transfer_recipient = None \/ s.transfer_amount = None
         THEN Say("panic")
         ELSE PayThen([kind |-> "transfer", from |-> s.phone_number,
                       to |-> s.transfer_recipient,
                       amount |-> s.transfer_amount], s, "END transferred")
    [] input.txt = "2" -> SaveThen(ClearTransfer(s), "END cancelled")
    [] OTHER -> Say("CON invalid option")

TransferConfirm(s, input) ==
  CASE input.txt = "1" ->
         IF s.transfer_recipient = None \/ s.transfer_amount = None
         THEN Say("panic")
         ELSE PayThen([kind |-> "transfer", from |-> s.phone_number,
                       to |-> s.transfer_recipient,
                       amount |-> s.transfer_amount],
                      ClearTransfer(s), "END transferred")
    [] input.txt = "2" -> SaveThen(ClearTransfer(s), "END cancelled")
    [] OTHER -> Say("CON invalid option")

handleTransferMenu(s, input) ==
  CASE s.transfer_step = "amount"  -> TransferAmount(s, input)
    [] s.transfer_step = "confirm" -> TransferConfirm(s, input)
    [] OTHER -> TransferRecipient([s EXCEPT !.transfer_step = "recipient"],
                                  input)

-----------------------------------------------------------------------------
\* handleDepositMenu: it issues instructions, and pays nothing.
ClearDeposit(s) ==
  [ToMain(s) EXCEPT !.deposit_step = None, !.deposit_amount = None]

DepositAmount(s, input) ==
  IF InvalidAmount(input) THEN Say("CON invalid amount")
  ELSE SaveThen([s EXCEPT !.deposit_amount = input.num,
                          !.deposit_step = "method"], "CON deposit method")

DepositMethod(s, input) ==
  CASE input.txt \in {"1", "2", "3"} ->
         IF s.deposit_amount = None \/ AccountPanics(s) THEN Say("panic")
         ELSE SaveThen(ClearDeposit(s), "END deposit")
    [] input.txt = "4" -> SaveThen(ClearDeposit(s), "END cancelled")
    [] OTHER -> Say("CON invalid option")

handleDepositMenu(s, input) ==
  IF s.deposit_step = "method" THEN DepositMethod(s, input)
  ELSE DepositAmount([s EXCEPT !.deposit_step = "amount"], input)

-----------------------------------------------------------------------------
\* handleWithdrawMenu: the choice of a method is also the confirmation.
\* The withdrawal is over, and the session still in its menu.
ClearWithdrawMutant(s) == s

ClearWithdraw(s) ==
  [ToMain(s) EXCEPT !.withdraw_step = None, !.withdraw_amount = None]

WithdrawAmount(s, input) ==
  IF InvalidAmount(input) THEN Say("CON invalid amount")
  ELSE IF AccountPanics(s) THEN Say("panic")
  ELSE IF Exceeds(input.num, AccountBalance) THEN Say("END insufficient funds")
  ELSE SaveThen([s EXCEPT !.withdraw_amount = input.num,
                          !.withdraw_step = "method"], "CON withdraw method")

\* The cancelling option is taken for one more method.
WithdrawMethodMutant(s, input) ==
  CASE input.txt \in {"1", "2", "3", "4"} ->
         IF s.withdraw_amount = None THEN Say("panic")
         ELSE PayThen([kind |-> "withdrawal", from |-> s.phone_number,
                       to |-> None, amount |-> s.withdraw_amount],
                      ClearWithdraw(s), "END withdrawn")
    [] OTHER -> Say("CON invalid option")

WithdrawMethod(s, input) ==
  CASE input.txt \in {"1", "2", "3"} ->
         IF s.withdraw_amount = None THEN Say("panic")
         ELSE PayThen([kind |-> "withdrawal", from |-> s.phone_number,
                       to |-> None, amount |-> s.withdraw_amount],
                      ClearWithdraw(s), "END withdrawn")
    [] input.txt = "4" -> SaveThen(ClearWithdraw(s), "END cancelled")
    [] OTHER -> Say("CON invalid option")

handleWithdrawMenu(s, input) ==
  IF s.withdraw_step = "method" THEN WithdrawMethod(s, input)
  ELSE WithdrawAmount([s EXCEPT !.withdraw_step = "amount"], input)

-----------------------------------------------------------------------------
\* The dispatch on the current menu, for a session that was found in Redis.
processUSSDInput(s, input) ==
  CASE s.current_menu = "main"     -> handleMainMenu(s, input)
    [] s.current_menu = "balance"  -> handleBalanceMenu(s, input)
    [] s.current_menu = "transfer" -> handleTransferMenu(s, input)
    [] s.current_menu = "deposit"  -> handleDepositMenu(s, input)
    [] s.current_menu = "withdraw" -> handleWithdrawMenu(s, input)
    [] OTHER -> getMainMenu

\* An encoder that writes NaN and the infinities too.
MarshalsMutant(s) == TRUE

\* json.Marshal of the session, in saveSession, fails on a non-finite number.
Marshals(s) ==
  \A n \in {s.transfer_amount, s.deposit_amount, s.withdraw_amount} :
    n # None => n.kind = "finite"

-----------------------------------------------------------------------------
(***************************************************************************)
(* What the handlers rely on, and never check, when they read a session:   *)
(* the data of the operation in progress, up to its step, and no other.    *)
(***************************************************************************)
Payable(n) == n \in Numbers /\ n.kind = "finite" /\ n.units > 0
              /\ ~Exceeds(n, AccountBalance)

ValidRecipient(input) == input \in Inputs /\ isValidPhoneNumber(input)

NoTransfer(s) == /\ s.transfer_step = None
                 /\ s.transfer_recipient = None
                 /\ s.transfer_amount = None
NoDeposit(s)  == s.deposit_step = None /\ s.deposit_amount = None
NoWithdraw(s) == s.withdraw_step = None /\ s.withdraw_amount = None

InTransfer(s) ==
  \/ /\ s.transfer_step = "recipient"
     /\ s.transfer_recipient = None /\ s.transfer_amount = None
  \/ /\ s.transfer_step = "amount"
     /\ ValidRecipient(s.transfer_recipient) /\ s.transfer_amount = None
  \/ /\ s.transfer_step = "confirm"
     /\ ValidRecipient(s.transfer_recipient) /\ Payable(s.transfer_amount)

InDeposit(s) ==
  \/ s.deposit_step = "amount" /\ s.deposit_amount = None
  \/ /\ s.deposit_step = "method"
     /\ s.deposit_amount \in Numbers /\ ~NotPositive(s.deposit_amount)

InWithdraw(s) ==
  \/ s.withdraw_step = "amount" /\ s.withdraw_amount = None
  \/ s.withdraw_step = "method" /\ Payable(s.withdraw_amount)

WellFormed(s) ==
  /\ s.current_menu = "transfer" => InTransfer(s)
  /\ s.current_menu = "deposit"  => InDeposit(s)
  /\ s.current_menu = "withdraw" => InWithdraw(s)
  /\ s.current_menu # "transfer" => NoTransfer(s)
  /\ s.current_menu # "deposit"  => NoDeposit(s)
  /\ s.current_menu # "withdraw" => NoWithdraw(s)
=============================================================================
