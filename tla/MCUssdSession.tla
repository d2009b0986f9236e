--------------------------- MODULE MCUssdSession ---------------------------
(***************************************************************************)
(* Small instances of UssdSession for TLC.  A typed text is described by   *)
(* what the handlers make of it: the options are also amounts (one and the *)
(* same), and a telephone number is also an amount, beyond the balance.    *)
(***************************************************************************)
EXTENDS UssdSession

Finite(units) == [kind |-> "finite", units |-> units]
NonFinite(kind) == [kind |-> kind, units |-> 0]

Text(txt, num, len) == [txt |-> txt, num |-> num, len |-> len]

Blank     == Text("", None, 0)
Option(o) == Text(o, Finite(10000), 1)
Recipient == Text("other", Finite(1234560000), 9)         \* "000123456"
Balance   == Text("other", Finite(AccountBalance), 7)     \* "1000.50"
Beyond    == Text("other", Finite(AccountBalance + 10), 8) \* "1000.501"
Least     == Text("other", Finite(1), 6)                  \* "0.0001"
Zero      == Text("other", Finite(0), 1)
Negative  == Text("other", Finite(-10000), 2)             \* "-1"
NotANumber == Text("other", NonFinite("NaN"), 3)
Infinity   == Text("other", NonFinite("+Inf"), 3)
MinusInfinity == Text("other", NonFinite("-Inf"), 4)

\* Every option, and one text on each side of every check.
MCInputs == {Blank, Recipient, Balance, Beyond, Least, Zero, Negative,
             NotANumber, Infinity, MinusInfinity}
            \cup {Option(o) : o \in {"1", "2", "3", "4", "5", "6"}}

\* Enough to walk through every operation, for the concurrent runs.
MCFewInputs == {Recipient, NotANumber}
               \cup {Option(o) : o \in {"1", "2", "3", "4"}}
=============================================================================
