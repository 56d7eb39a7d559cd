--------------------------- MODULE CustodyPromise --------------------------
(***************************************************************************)
(* What whoever implements Custody promises: the marketplace never holds   *)
(* money for an operation that can no longer decide where it goes.         *)
(***************************************************************************)
EXTENDS Custody, TLAPS

\* Custody starts with no money and keeps every operation's money in one place.
LEMMA CustodyTyped == Spec => []TypeOK
<1>1. Init => TypeOK
  BY DEF Init, TypeOK, Places
<1>2. TypeOK /\ [Next]_<<open, money>> => TypeOK'
  BY DEF TypeOK, Places, Next, Open, Capture, Freeze, PayOut, Return
<1> QED BY <1>1, <1>2, PTL DEF Spec

\* Held or frozen money always belongs to an open operation, late captures included: a
\* capture opens the operation it lands on.
THEOREM MoneyHeldForOpenOperations == Spec => []HeldMoneyIsOpen
<1>1. Init => HeldMoneyIsOpen
  BY DEF Init, HeldMoneyIsOpen
<1>2. TypeOK /\ HeldMoneyIsOpen /\ [Next]_<<open, money>> => HeldMoneyIsOpen'
  BY DEF TypeOK, HeldMoneyIsOpen, Next, Open, Capture, Freeze, PayOut, Return
<1> QED BY <1>1, <1>2, CustodyTyped, PTL DEF Spec
=============================================================================
