----------------------- MODULE MCBankStatementImport -----------------------
(* A levy of 2 cents on each of two accounts; deposits of 1 and 2 cents.  The march
   statement has a row for unit flat1, one that names both units, and one no unit or
   owner fits; april repeats march's first row (uploaded twice) before one of its own. *)
EXTENDS BankStatementImport

CONSTANTS flat1, flat2, f1, f2, f3, f4, eft1, eft2, march, april, broken, r1, r2

Levy == [x \in {flat1, flat2} |-> 2]

Deposit(fingerprint, amount, units, owners) ==
  [fingerprint |-> fingerprint, amount |-> amount, units |-> units, owners |-> owners]

March == <<Deposit(f1, 1, {flat1}, {}), Deposit(f2, 2, {flat1, flat2}, {}), Deposit(f3, 1, {}, {})>>
April == <<Deposit(f1, 1, {flat1}, {}), Deposit(f4, 2, {}, {flat2})>>

Statements == [i \in Imports |-> CASE i = march -> March
                                   [] i = april -> April
                                   [] OTHER -> NoParse]

EFT(reference, account) == [reference |-> reference, account |-> account, amount |-> 1]

OneBatch == {<<EFT(eft1, flat1), EFT(eft2, flat2)>>}
TwoBatches == OneBatch \cup {<<EFT(eft2, flat1), EFT(eft1, flat1)>>}

Click(row, account) == [row |-> row, account |-> account]

Clicks == {<<Click(2, flat1)>>, <<Click(2, flat2), Click(3, flat1)>>, <<Click(3, flat2)>>,
           <<Click(1, flat2)>>}

(* One deposit uploaded twice, for a unit with accounts in two periods, the earlier one
   for less: the deposit pays it to the cent, and is then matched to the later one.      *)
TwoPeriods == [x \in {flat1, flat2} |-> IF x = flat1 THEN 1 ELSE 2]
OneDeposit == [i \in Imports |-> <<Deposit(f1, 1, {flat1, flat2}, {})>>]
=============================================================================
