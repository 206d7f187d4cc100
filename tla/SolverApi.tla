------------------------------- MODULE SolverApi -------------------------------
(***************************************************************************)
(* What POST /solve promises its callers, whatever happens inside: a       *)
(* request is answered at most once, the answer never changes, it holds at *)
(* most one solution, that solution settles trades of competing strategies *)
(* only, and the death of the process drops every open request together.   *)
(***************************************************************************)
CONSTANTS
    Requests,     \* the auctions sent to the solver
    Competing     \* the strategies whose solutions may be submitted

VARIABLES
    status,       \* where a request stands, seen from its sender
    answer        \* strategies whose trades the answer settles; {} if empty

vars == <<status, answer>>

Init ==
    /\ status = [r \in Requests |-> "idle"]
    /\ answer = [r \in Requests |-> {}]

Open(r) ==
    /\ status[r] = "idle"
    /\ status' = [status EXCEPT ![r] = "open"]
    /\ UNCHANGED answer

Reply(r) ==
    /\ status[r] = "open"
    /\ status' = [status EXCEPT ![r] = "replying"]
    /\ \E parts \in SUBSET Competing : answer' = [answer EXCEPT ![r] = parts]

Close(r) ==
    /\ status[r] = "replying"
    /\ status' = [status EXCEPT ![r] = "closed"]
    /\ UNCHANGED answer

DropAll ==
    /\ status' = [r \in Requests |->
                    IF status[r] \in {"open", "replying"} THEN "dropped" ELSE status[r]]
    /\ UNCHANGED answer

Next == DropAll \/ \E r \in Requests : Open(r) \/ Reply(r) \/ Close(r)

Spec == Init /\ [][Next]_vars
=============================================================================
