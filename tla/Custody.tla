------------------------------ MODULE Custody -------------------------------
(***************************************************************************)
(* What a protected purchase promises about the buyer's money, without     *)
(* shipping, listings, requests or database rows: money the marketplace    *)
(* holds belongs to an operation that is still open, closing an operation  *)
(* settles the money it holds one way, and money once settled stays        *)
(* settled.                                                                *)
(***************************************************************************)
CONSTANTS
  Operations,
  LateCapture   \* TRUE: a capture may land on an operation already closed

VARIABLES
  open,   \* operations that may still decide where their money goes
  money   \* where each operation's money is

Places == {"none", "held", "frozen", "seller", "buyer"}

TypeOK ==
  /\ open \subseteq Operations
  /\ money \in [Operations -> Places]

Init ==
  /\ open = {}
  /\ money = [o \in Operations |-> "none"]

\* The operation starts, or is taken up again, with its money where it was.
Open(o) ==
  /\ open' = open \cup {o}
  /\ UNCHANGED money

Capture(o) ==
  /\ LateCapture \/ (o \in open /\ money[o] = "none")
  /\ open' = open \cup {o}
  /\ money' = [money EXCEPT ![o] = "held"]

Freeze(o) ==
  /\ open' = open \cup {o}
  /\ money' = [money EXCEPT ![o] = IF @ = "held" THEN "frozen" ELSE @]

PayOut(o) ==
  /\ open' = open \ {o}
  /\ money' = [money EXCEPT ![o] = IF @ \in {"held", "frozen"} THEN "seller" ELSE @]

\* A payment that was never captured may or may not be marked as returned.
Return(o) ==
  /\ open' = open \ {o}
  /\ \/ money' = [money EXCEPT ![o] = IF @ \in {"held", "frozen"} THEN "buyer" ELSE @]
     \/ /\ money[o] = "none"
        /\ money' = [money EXCEPT ![o] = "buyer"]

Next == \E o \in Operations :
  \/ Open(o)
  \/ Capture(o)
  \/ Freeze(o)
  \/ PayOut(o)
  \/ Return(o)

Spec == Init /\ [][Next]_<<open, money>>

\* The promise the actions keep: no money is held by a closed operation.
HeldMoneyIsOpen == \A o \in Operations : money[o] \in {"held", "frozen"} => o \in open
=============================================================================
