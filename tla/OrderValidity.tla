----------------------------- MODULE OrderValidity -----------------------------
(***************************************************************************)
(* The filter that drops candidates which cannot settle, from on-chain     *)
(* readings of each (src/solver/order_validity.py), and, external, what    *)
(* the settlement contract asks of an order.                               *)
(***************************************************************************)
EXTENDS Auction

Target(o) == IF o.kind = "sell" THEN o.sellAmount ELSE o.buyAmount

\* The readings taken of an order.
BuildChecks(o) ==
    {"filled"}
    \cup (IF o.scheme = "presign" THEN {"presig"} ELSE {})
    \cup (IF o.source = "erc20" THEN {"balance"} ELSE {})
    \cup (IF o.source = "erc20" /\ ~o.hooks THEN {"allowance"} ELSE {})

\* External: what the calls return.
OnChain(chain, u, check) ==
    CASE check = "filled" -> chain.filled[u]
      [] check = "presig" -> IF u \in chain.presigned THEN 1 ELSE 0
      [] check = "balance" -> chain.balance[u]
      [] check = "allowance" -> chain.allowance[u]

\* The readings that came back; of a check in lost the call failed.
Readings(chain, u, lost) ==
    [check \in BuildChecks(Orders[u]) \ lost |-> OnChain(chain, u, check)]

\* Variant: a partial order must be funded for all that remains of it.
RequiredWhole(o, filled) ==
    CASE o.kind = "sell" -> o.sellAmount - (IF filled < o.sellAmount THEN filled ELSE o.sellAmount)
      [] o.kind = "buy" -> o.sellAmount

\* The funding below which no execution of the solver's goes through.
RequiredFunding(o, filled) ==
    LET remaining == o.sellAmount - (IF filled < o.sellAmount THEN filled ELSE o.sellAmount)
        half == o.sellAmount \div 2
    IN  CASE o.kind = "sell" /\ o.partial -> IF half < remaining THEN half ELSE remaining
          [] o.kind = "sell" /\ ~o.partial -> remaining
          [] o.kind = "buy" /\ ~o.partial -> o.sellAmount
          [] o.kind = "buy" /\ o.partial -> 0

\* A reading is evidence when it is there and satisfies the test.
ReasonsToDrop(o, r) ==
    LET seen(check) == check \in DOMAIN r
        required == RequiredFunding(o, IF seen("filled") THEN r["filled"] ELSE 0)
    IN  {reason \in {"filled", "presig", "balance", "allowance"} :
            /\ seen(reason)
            /\ CASE reason = "filled" -> /\ r["filled"] > 0
                                         /\ ~o.partial \/ r["filled"] >= Target(o)
                 [] reason = "presig" -> r["presig"] = 0
                 [] OTHER -> r[reason] < required}

Dropped(chain, uids, lost) ==
    {u \in ToSet(uids) : ReasonsToDrop(Orders[u], Readings(chain, u, lost)) # {}}

FilterValidOrders(chain, uids, lost) == Only(uids, ToSet(uids) \ Dropped(chain, uids, lost))

-----------------------------------------------------------------------------
(* External: an execution the settlement contract accepts. An order that   *)
(* is not partial executes whole. Hooks run first and may approve.         *)

Fillable(chain, u, executed, pulled) ==
    LET o == Orders[u]
    IN  /\ IF o.partial THEN chain.filled[u] + executed <= Target(o) ELSE chain.filled[u] = 0
        /\ o.scheme = "presign" => u \in chain.presigned
        /\ o.source = "erc20" => /\ chain.balance[u] >= pulled
                                 /\ o.hooks \/ chain.allowance[u] >= pulled

\* What the router executes of an order, whole or by a fraction; nothing is
\* quoted for nothing.
Executions(o) ==
    {Target(o)} \cup
        (IF o.partial /\ o.kind = "sell"
         THEN {(3 * o.sellAmount) \div 4, o.sellAmount \div 2} \ {0} ELSE {})

\* What its owner pays for an execution at the limit price.
PulledAtLimit(o, executed) ==
    IF o.kind = "sell" THEN executed ELSE (executed * o.sellAmount) \div o.buyAmount

Dead(chain, u) ==
    \A e \in Executions(Orders[u]) : ~Fillable(chain, u, e, PulledAtLimit(Orders[u], e))
=============================================================================
