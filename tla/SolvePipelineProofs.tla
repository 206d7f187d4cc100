-------------------------- MODULE SolvePipelineProofs --------------------------
(***************************************************************************)
(* For every chain, salvage order, set of requests and configuration: what *)
(* SolvePipeline submits, that it leaves no candidate and no record out,   *)
(* and that it implements SolverApi; and that every deployment meets what  *)
(* this asks of the chain and the salvage order.                           *)
(***************************************************************************)
EXTENDS SolvePipeline, Wiring, SequenceTheorems, TLAPS

USE DEF Composer, EbboRejected, GateRejected

\* The chain is a sequence of strategies with a first one.
LEMMA ChainFacts ==
    /\ Chain \in Seq(Strategies)
    /\ Len(Chain) \in Nat /\ DOMAIN Chain = 1..Len(Chain)
    /\ 1 \in DOMAIN Chain
    /\ \A i \in DOMAIN Chain : Chain[i] \in Strategies
  BY ConfigAssumption DEF Strategies

\* What a strategy finds itself is a solution.
LEMMA OwnType == \A n \in Strategies : Own(n) \in Solutions
  BY DEF Own, Solutions

\* The phases and response values a Return writes are of their types.
LEMMA ReturnType ==
    ASSUME TypeOK, NEW r \in Requests,
           NEW kind \in {"solution", "empty", "http4xx", "http500"},
           NEW via \in {"early", "pipeline", "salvage", "error"},
           NEW sol \in Solutions \cup {NoSolution},
           Return(r, kind, via, sol)
    PROVE  /\ pc' \in [Requests -> Phases]
           /\ response' \in [Requests -> Response]
  BY DEF TypeOK, Return, Phases, Response

\* The log lines and the persist task a logged Return leaves are of their types.
LEMMA ReturnLoggedType ==
    ASSUME TypeOK, NEW r \in Requests,
           NEW kind \in {"solution", "empty"},
           NEW via \in {"pipeline", "salvage"},
           NEW sol \in Solutions \cup {NoSolution},
           ReturnLogged(r, kind, via, sol)
    PROVE  /\ pc' \in [Requests -> Phases]
           /\ response' \in [Requests -> Response]
           /\ bg' \in [Requests -> {"none", "pending", "done", "lost"}]
           /\ jsonl' \subseteq Requests
  <1>1. CASE Return(r, kind, via, sol) /\ bg' = [bg EXCEPT ![r] = "pending"]
               /\ jsonl' = jsonl \cup {r}
    BY <1>1, ReturnType DEF TypeOK
  <1>2. CASE Return(r, "http500", via, NoSolution) /\ UNCHANGED <<bg, jsonl>>
    BY <1>2, ReturnType DEF TypeOK
  <1>3. QED
    BY <1>1, <1>2 DEF ReturnLogged

\* An attempt is appended as an attempt record.
LEMMA RecordType ==
    ASSUME TypeOK, NEW r \in Requests,
           NEW name \in Strategies \cup {Composer, EbboRejected, GateRejected},
           NEW status \in {"solved", "no_solution", "error", "timeout", "rejected"},
           NEW sol \in Solutions \cup {NoSolution},
           Record(r, name, status, sol)
    PROVE  attempts' \in [Requests -> Seq(AttemptRecord)]
  <1>1. [strategy |-> name, status |-> status, solution |-> sol] \in AttemptRecord
    BY DEF AttemptRecord
  <1>2. Append(attempts[r], [strategy |-> name, status |-> status, solution |-> sol])
          \in Seq(AttemptRecord)
    BY <1>1 DEF TypeOK
  <1>3. QED
    BY <1>2 DEF TypeOK, Record

\* What the salvage can pick is the name of a strategy of the chain.
LEMMA CompletedStrategy ==
    ASSUME TypeOK, NEW r \in Requests, NEW k \in Completed(r)
    PROVE  /\ SalvageOrder[k] \in Strategies
           /\ \E i \in DOMAIN attempts[r] :
                /\ attempts[r][i].strategy = SalvageOrder[k]
                /\ attempts[r][i].status = "solved"
  <1>1. PICK i \in DOMAIN attempts[r] :
           /\ attempts[r][i].strategy = SalvageOrder[k]
           /\ attempts[r][i].status = "solved"
    BY DEF Completed, HasSolved
  <1>2. attempts[r][i] \in AttemptRecord
    BY DEF TypeOK
  <1>3. SalvageOrder[k] \in Salvageable
    BY DEF Completed, Salvageable
  <1>4. QED
    BY <1>1, <1>2, <1>3, ConfigAssumption DEF AttemptRecord

\* Going on to the next candidate, or giving up, keeps the types.
LEMMA NextCandidateType ==
    ASSUME TypeOK, NEW r \in Requests, NEW cands \in SUBSET Strategies,
           NextCandidate(r, cands)
    PROVE  /\ pc' \in [Requests -> Phases]
           /\ response' \in [Requests -> Response]
           /\ bg' \in [Requests -> {"none", "pending", "done", "lost"}]
           /\ jsonl' \subseteq Requests
           /\ todo' \in [Requests -> SUBSET Strategies]
           /\ current' \in [Requests -> Solutions \cup {NoSolution}]
  <1>1. CASE /\ ReturnLogged(r, "empty", "pipeline", NoSolution)
             /\ todo' = [todo EXCEPT ![r] = {}]
             /\ current' = [current EXCEPT ![r] = NoSolution]
    BY <1>1, ReturnLoggedType DEF TypeOK
  <1>2. ASSUME NEW n \in cands,
               todo' = [todo EXCEPT ![r] = cands \ {n}],
               current' = [current EXCEPT ![r] = Own(n)],
               pc' = [pc EXCEPT ![r] = "ebbo"],
               UNCHANGED <<response, bg, jsonl>>
        PROVE  /\ pc' \in [Requests -> Phases]
               /\ response' \in [Requests -> Response]
               /\ bg' \in [Requests -> {"none", "pending", "done", "lost"}]
               /\ jsonl' \subseteq Requests
               /\ todo' \in [Requests -> SUBSET Strategies]
               /\ current' \in [Requests -> Solutions \cup {NoSolution}]
    BY <1>2, OwnType DEF TypeOK, Phases
  <1>3. QED
    BY <1>1, <1>2 DEF NextCandidate

-----------------------------------------------------------------------------
(* Type correctness, one step per action.                                  *)

\* Every step of every request, and a crash, keep the type.
LEMMA TypeStep == TypeOK /\ [Next]_vars => TypeOK'
  <1> SUFFICES ASSUME TypeOK, [Next]_vars PROVE TypeOK'
    OBVIOUS
  <1> USE ChainFacts
  <1>1. ASSUME NEW r \in Requests, Receive(r) PROVE TypeOK'
    BY <1>1 DEF TypeOK, Receive, Phases
  <1>2. ASSUME NEW r \in Requests, RejectBody(r) PROVE TypeOK'
    BY <1>2, ReturnType DEF TypeOK, RejectBody, ReturnEarly
  <1>3. ASSUME NEW r \in Requests, DeclineAuction(r) PROVE TypeOK'
    BY <1>3, ReturnType DEF TypeOK, DeclineAuction, ReturnEarly
  <1>4. ASSUME NEW r \in Requests, StartSolve(r) PROVE TypeOK'
    BY <1>4 DEF TypeOK, StartSolve, Phases
  <1>5. ASSUME NEW r \in Requests,
               NEW s \in {"solved", "no_solution", "timeout", "error"},
               FinishStrategy(r, s)
        PROVE  TypeOK'
    <2> DEFINE name == Chain[idx[r]]
    <2>1. name \in Strategies /\ idx[r] \in 1..Len(Chain)
      BY DEF TypeOK
    <2>2. attempts' \in [Requests -> Seq(AttemptRecord)]
      <3>1. (IF s = "solved" THEN Own(name) ELSE NoSolution)
               \in Solutions \cup {NoSolution}
        BY <2>1, OwnType
      <3>2. QED
        BY <1>5, <2>1, <3>1, RecordType DEF FinishStrategy
    <2>3. winning' \in [Requests -> SUBSET Strategies]
      BY <1>5, <2>1 DEF FinishStrategy, TypeOK
    <2>4. idx' \in [Requests -> DOMAIN Chain] /\ pc' \in [Requests -> Phases]
      <3>1. CASE LeavesLoop(r, s = "solved")
        BY <1>5, <3>1 DEF FinishStrategy, TypeOK, Phases
      <3>2. CASE ~LeavesLoop(r, s = "solved")
        <4>1. idx[r] + 1 \in DOMAIN Chain
          BY <2>1, <3>2 DEF LeavesLoop
        <4>2. idx' = [idx EXCEPT ![r] = @ + 1] /\ UNCHANGED pc
          BY <1>5, <3>2 DEF FinishStrategy
        <4>3. QED
          BY <4>1, <4>2 DEF TypeOK
      <3>3. QED
        BY <3>1, <3>2
    <2>5. QED
      BY <1>5, <2>2, <2>3, <2>4 DEF FinishStrategy, TypeOK
  <1>6. ASSUME NEW r \in Requests, SkipCompose(r) PROVE TypeOK'
    <2>1. Composable(r) \in SUBSET Strategies
      BY DEF TypeOK, Composable
    <2>2. QED
      BY <1>6, <2>1, NextCandidateType DEF TypeOK, SkipCompose
  <1>7. ASSUME NEW r \in Requests, ComposeMerged(r) PROVE TypeOK'
    <2>1. Composable(r) \in SUBSET Strategies
      BY DEF TypeOK, Composable
    <2>2. PICK parts \in (SUBSET Composable(r)) \ {{}} :
            /\ Record(r, Composer, "solved", [by |-> Composer, parts |-> parts])
            /\ current' = [current EXCEPT ![r] = [by |-> Composer, parts |-> parts]]
      BY <1>7 DEF ComposeMerged
    <2>3. [by |-> Composer, parts |-> parts] \in Solutions
      BY <2>1 DEF Solutions
    <2>4. attempts' \in [Requests -> Seq(AttemptRecord)]
      BY <2>2, <2>3, RecordType
    <2>5. QED
      BY <1>7, <2>1, <2>2, <2>3, <2>4 DEF TypeOK, ComposeMerged, Phases
  <1>8. ASSUME NEW r \in Requests, ComposeRaises(r) PROVE TypeOK'
    BY <1>8, ReturnType DEF TypeOK, ComposeRaises, ReturnUnlogged
  <1>9. ASSUME NEW r \in Requests, NEW v \in EbboVerdicts, EbboValidate(r, v)
        PROVE  TypeOK'
    <2>1. CASE RejectCurrent(r, EbboRejected)
      BY <1>9, <2>1, RecordType, NextCandidateType
        DEF TypeOK, EbboValidate, RejectCurrent
    <2>2. CASE /\ pc' = [pc EXCEPT ![r] = "gate"]
               /\ UNCHANGED <<attempts, todo, current, response, bg, jsonl>>
      BY <1>9, <2>2 DEF TypeOK, EbboValidate, Phases
    <2>3. QED
      BY <1>9, <2>1, <2>2 DEF EbboValidate
  <1>10. ASSUME NEW r \in Requests, NEW v \in GateVerdicts, FeasibilityValidate(r, v)
         PROVE  TypeOK'
    <2>1. proved' \in [Requests -> SUBSET (Solutions \cup {NoSolution})]
      BY <1>10 DEF TypeOK, FeasibilityValidate
    <2>2. CASE RejectCurrent(r, GateRejected)
      BY <1>10, <2>1, <2>2, RecordType, NextCandidateType
        DEF TypeOK, FeasibilityValidate, RejectCurrent
    <2>3. CASE /\ ReturnLogged(r, "solution", "pipeline", current[r])
               /\ UNCHANGED <<attempts, todo, current>>
      BY <1>10, <2>1, <2>3, ReturnLoggedType DEF TypeOK, FeasibilityValidate
    <2>4. QED
      BY <1>10, <2>2, <2>3 DEF FeasibilityValidate
  <1>11. ASSUME NEW r \in Requests, SolveTimeout(r) PROVE TypeOK'
    <2>1. CASE ReturnUnlogged(r, "salvage")
      BY <1>11, <2>1, ReturnType DEF TypeOK, SolveTimeout, ReturnUnlogged
    <2>2. ASSUME NEW k \in Completed(r),
                 ReturnLogged(r, "solution", "salvage", Own(SalvageOrder[k]))
          PROVE  TypeOK'
      <3>1. Own(SalvageOrder[k]) \in Solutions
        BY CompletedStrategy, OwnType
      <3>2. QED
        BY <1>11, <2>2, <3>1, ReturnLoggedType DEF TypeOK, SolveTimeout
    <2>3. QED
      BY <1>11, <2>1, <2>2 DEF SolveTimeout
  <1>12. ASSUME NEW r \in Requests, Deliver(r) PROVE TypeOK'
    BY <1>12 DEF TypeOK, Deliver, Phases
  <1>13. ASSUME NEW r \in Requests, Persist(r) PROVE TypeOK'
    BY <1>13 DEF TypeOK, Persist
  <1>14. CASE Crash
    BY <1>14, ConfigAssumption DEF TypeOK, Crash, Phases
  <1>15. CASE UNCHANGED vars
    BY <1>15 DEF TypeOK, vars
  <1>16. QED
    BY <1>1, <1>2, <1>3, <1>4, <1>5, <1>6, <1>7, <1>8, <1>9, <1>10, <1>11,
       <1>12, <1>13, <1>14, <1>15 DEF Next, Handle

\* Every reachable state of the pipeline is well typed.
THEOREM TypeCorrect == Spec => []TypeOK
  <1>1. Init => TypeOK
    BY ChainFacts, ConfigAssumption
      DEF Init, TypeOK, Phases, Response, NoResponse
  <1>2. QED
    BY <1>1, TypeStep, PTL DEF Spec

-----------------------------------------------------------------------------
(* The inductive invariant behind the safety theorems.                     *)

\* A winner of the loop stands in the attempts, with its own solution.
WinnersRecorded(r) ==
    \A n \in winning[r] : \E i \in DOMAIN attempts[r] :
        attempts[r][i] = [strategy |-> n, status |-> "solved", solution |-> Own(n)]

\* What the salvage reads under a strategy's name is that strategy's.
OwnRecorded(r) ==
    \A i \in DOMAIN attempts[r] :
        attempts[r][i].status = "solved" /\ attempts[r][i].strategy \in Strategies
            => attempts[r][i].solution = Own(attempts[r][i].strategy)

\* The candidate under validation, and those to follow, are competing
\* solutions that the attempts hold.
ValidationInv(r) ==
    pc[r] \in {"ebbo", "gate"} =>
        /\ current[r] \in SolvedSolutions(r)
        /\ Naive \notin current[r].parts
        /\ todo[r] \subseteq Composable(r)

Answered(r) == pc[r] \in {"replying", "closed", "dead"}

AnswerInv(r) == ~Answered(r) => response[r] = NoResponse

Outcome(r) ==
    /\ Submitted(r) => Naive \notin response[r].solution.parts
    /\ GateEnabled /\ Submitted(r) /\ response[r].via = "pipeline"
         => response[r].solution \in proved[r]
    /\ Submitted(r) => /\ r \in jsonl
                       /\ bg[r] # "none"
                       /\ response[r].solution \in SolvedSolutions(r)
    /\ response[r].via = "salvage" /\ response[r].kind = "empty"
         => (winning[r] \cap Salvageable) \subseteq Unparsable

ReqInv(r) ==
    /\ WinnersRecorded(r) /\ OwnRecorded(r) /\ ValidationInv(r)
    /\ AnswerInv(r) /\ Outcome(r)

IInv == TypeOK /\ \A r \in Requests : ReqInv(r)

\* No request has arrived, so nothing is to be shown of one.
LEMMA InitInv == Init => IInv
  <1>1. Init => TypeOK
    BY ChainFacts, ConfigAssumption
      DEF Init, TypeOK, Phases, Response, NoResponse
  <1>2. ASSUME Init, NEW r \in Requests PROVE ReqInv(r)
    BY <1>2 DEF Init, ReqInv, WinnersRecorded, OwnRecorded, ValidationInv,
                AnswerInv, Answered, Outcome, Submitted, NoResponse
  <1>3. QED
    BY <1>1, <1>2 DEF IInv

\* A request that a step leaves alone keeps its invariant.
LEMMA Frame ==
    ASSUME NEW q \in Requests, ReqInv(q),
           pc'[q] = pc[q], attempts'[q] = attempts[q], winning'[q] = winning[q],
           todo'[q] = todo[q], current'[q] = current[q],
           response'[q] = response[q], bg'[q] = bg[q], proved'[q] = proved[q],
           jsonl \subseteq jsonl'
    PROVE  ReqInv(q)'
  <1>1. SolvedSolutions(q)' = SolvedSolutions(q)
    BY DEF SolvedSolutions
  <1>2. WinnersRecorded(q)' /\ OwnRecorded(q)'
    BY DEF ReqInv, WinnersRecorded, OwnRecorded
  <1>3. ValidationInv(q)' /\ AnswerInv(q)'
    BY <1>1 DEF ReqInv, ValidationInv, AnswerInv, Answered, Composable
  <1>4. Outcome(q)'
    BY <1>1 DEF ReqInv, Outcome, Submitted
  <1>5. QED
    BY <1>2, <1>3, <1>4 DEF ReqInv

\* A record is appended; those before it stay where they are.
LEMMA RecordGrows ==
    ASSUME TypeOK, NEW r \in Requests, NEW name, NEW status, NEW sol,
           Record(r, name, status, sol)
    PROVE  LET n == Len(attempts[r]) IN
           /\ n \in Nat /\ DOMAIN attempts[r] = 1..n
           /\ DOMAIN attempts'[r] = 1..(n + 1)
           /\ \A i \in 1..n : attempts'[r][i] = attempts[r][i]
           /\ attempts'[r][n + 1] =
                 [strategy |-> name, status |-> status, solution |-> sol]
  <1>1. attempts[r] \in Seq(AttemptRecord)
    BY DEF TypeOK
  <1>2. attempts'[r] = Append(attempts[r],
              [strategy |-> name, status |-> status, solution |-> sol])
    BY DEF TypeOK, Record
  <1>3. QED
    BY <1>1, <1>2

\* Recording only adds: what was on record as solved stays so.
LEMMA RecordKeeps ==
    ASSUME TypeOK, NEW r \in Requests, NEW name, NEW status, NEW sol,
           Record(r, name, status, sol)
    PROVE  /\ SolvedSolutions(r) \subseteq SolvedSolutions(r)'
           /\ status = "solved" => sol \in SolvedSolutions(r)'
           /\ WinnersRecorded(r) /\ winning'[r] = winning[r] => WinnersRecorded(r)'
           /\ OwnRecorded(r) /\ (status # "solved" \/ name \notin Strategies \/ sol = Own(name))
                => OwnRecorded(r)'
  <1> DEFINE n == Len(attempts[r])
  <1> HIDE DEF n
  <1>1. /\ n \in Nat /\ DOMAIN attempts[r] = 1..n
        /\ DOMAIN attempts'[r] = 1..(n + 1)
        /\ \A i \in 1..n : attempts'[r][i] = attempts[r][i]
        /\ attempts'[r][n + 1] =
              [strategy |-> name, status |-> status, solution |-> sol]
    BY RecordGrows DEF n
  <1>2. SolvedSolutions(r) \subseteq SolvedSolutions(r)'
    BY <1>1 DEF SolvedSolutions
  <1>3. status = "solved" => sol \in SolvedSolutions(r)'
    BY <1>1 DEF SolvedSolutions
  <1>4. ASSUME WinnersRecorded(r), winning'[r] = winning[r] PROVE WinnersRecorded(r)'
    BY <1>1, <1>4 DEF WinnersRecorded
  <1>5. ASSUME OwnRecorded(r),
               status # "solved" \/ name \notin Strategies \/ sol = Own(name)
        PROVE  OwnRecorded(r)'
    BY <1>1, <1>5 DEF OwnRecorded
  <1>6. QED
    BY <1>2, <1>3, <1>4, <1>5

\* A recorded winner is among the solved solutions of the next state.
LEMMA WinnersSolved ==
    ASSUME NEW r \in Requests, WinnersRecorded(r)', NEW n \in winning'[r]
    PROVE  Own(n) \in SolvedSolutions(r)'
  <1>1. PICK i \in DOMAIN attempts'[r] :
          attempts'[r][i] = [strategy |-> n, status |-> "solved", solution |-> Own(n)]
    BY DEF WinnersRecorded
  <1>2. attempts'[r][i].status = "solved" /\ attempts'[r][i].solution = Own(n)
    BY <1>1
  <1>3. QED
    BY <1>2 DEF SolvedSolutions

\* Returning a solution: what it has to satisfy for the outcome to be sound.
LEMMA ReturnLoggedInv ==
    ASSUME TypeOK, NEW r \in Requests, NEW kind \in {"solution", "empty"},
           NEW via \in {"pipeline", "salvage"}, NEW sol,
           ReturnLogged(r, kind, via, sol),
           via = "salvage" => kind = "solution",
           kind = "solution" =>
               /\ Naive \notin sol.parts
               /\ sol \in SolvedSolutions(r)'
               /\ via = "pipeline" /\ GateEnabled => sol \in proved'[r]
    PROVE  ValidationInv(r)' /\ AnswerInv(r)' /\ Outcome(r)'
  <1>1. pc'[r] = "replying"
    BY DEF ReturnLogged, Return, TypeOK
  <1>2. CASE /\ Return(r, kind, via, sol)
             /\ bg' = [bg EXCEPT ![r] = "pending"]
             /\ jsonl' = jsonl \cup {r}
    <2>1. /\ response'[r] = [kind |-> kind, via |-> via, solution |-> sol]
          /\ bg'[r] = "pending" /\ r \in jsonl'
      BY <1>2 DEF Return, TypeOK
    <2>2. QED
      BY <1>1, <2>1 DEF ValidationInv, AnswerInv, Answered, Outcome, Submitted
  <1>3. CASE Return(r, "http500", via, NoSolution) /\ UNCHANGED <<bg, jsonl>>
    <2>1. response'[r] = [kind |-> "http500", via |-> via, solution |-> NoSolution]
      BY <1>3 DEF Return, TypeOK
    <2>2. QED
      BY <1>1, <2>1 DEF ValidationInv, AnswerInv, Answered, Outcome, Submitted
  <1>4. QED
    BY <1>2, <1>3 DEF ReturnLogged

\* The fallback loop validates competing winners, or answers empty.
LEMMA NextCandidateInv ==
    ASSUME TypeOK, NEW r \in Requests, NEW cands \in SUBSET Composable(r),
           NextCandidate(r, cands), winning' = winning, WinnersRecorded(r)',
           response[r] = NoResponse
    PROVE  ValidationInv(r)' /\ AnswerInv(r)' /\ Outcome(r)'
  <1>1. CASE ReturnLogged(r, "empty", "pipeline", NoSolution)
    BY <1>1, ReturnLoggedInv
  <1>2. ASSUME NEW n \in cands,
               todo' = [todo EXCEPT ![r] = cands \ {n}],
               current' = [current EXCEPT ![r] = Own(n)],
               pc' = [pc EXCEPT ![r] = "ebbo"],
               UNCHANGED <<response, bg, jsonl>>
        PROVE  ValidationInv(r)' /\ AnswerInv(r)' /\ Outcome(r)'
    <2>1. /\ todo'[r] \subseteq Composable(r)' /\ current'[r] = Own(n)
          /\ pc'[r] = "ebbo" /\ response'[r] = NoResponse
      BY <1>2 DEF TypeOK, Composable
    <2>2. n \in winning'[r] /\ n # Naive
      BY DEF Composable
    <2>3. Own(n) \in SolvedSolutions(r)'
      BY <2>2, WinnersSolved
    <2>4. Naive \notin Own(n).parts
      BY <2>2 DEF Own
    <2>5. QED
      BY <2>1, <2>3, <2>4
        DEF ValidationInv, AnswerInv, Outcome, Submitted, NoResponse
  <1>3. QED
    BY <1>1, <1>2 DEF NextCandidate

\* A step of one request leaves the others as they are.
LEMMA OthersUnchanged ==
    ASSUME TypeOK, NEW r \in Requests, NEW q \in Requests, q # r, Handle(r)
    PROVE  /\ pc'[q] = pc[q] /\ attempts'[q] = attempts[q]
           /\ winning'[q] = winning[q] /\ todo'[q] = todo[q]
           /\ current'[q] = current[q] /\ response'[q] = response[q]
           /\ bg'[q] = bg[q] /\ proved'[q] = proved[q]
           /\ jsonl \subseteq jsonl'
  <1> DEFINE Same == /\ pc'[q] = pc[q] /\ attempts'[q] = attempts[q]
                     /\ winning'[q] = winning[q] /\ todo'[q] = todo[q]
                     /\ current'[q] = current[q] /\ response'[q] = response[q]
                     /\ bg'[q] = bg[q] /\ proved'[q] = proved[q]
                     /\ jsonl \subseteq jsonl'
  <1> USE DEF TypeOK, Record, Return, ReturnEarly, ReturnUnlogged, ReturnLogged
  <1>1. ASSUME Receive(r) \/ RejectBody(r) \/ DeclineAuction(r) \/ StartSolve(r)
                 \/ ComposeRaises(r) \/ SolveTimeout(r) \/ Deliver(r) \/ Persist(r)
        PROVE  Same
    BY <1>1 DEF Receive, RejectBody, DeclineAuction, StartSolve, ComposeRaises,
                SolveTimeout, Deliver, Persist
  <1>2. ASSUME NEW s, FinishStrategy(r, s) PROVE Same
    BY <1>2 DEF FinishStrategy
  <1>3. ASSUME NEW cands, NextCandidate(r, cands)
        PROVE  /\ pc'[q] = pc[q] /\ todo'[q] = todo[q] /\ current'[q] = current[q]
               /\ response'[q] = response[q] /\ bg'[q] = bg[q]
               /\ jsonl \subseteq jsonl'
    BY <1>3 DEF NextCandidate
  <1>4. ASSUME SkipCompose(r) \/ ComposeMerged(r) PROVE Same
    BY <1>3, <1>4 DEF SkipCompose, ComposeMerged
  <1>5. ASSUME NEW v, EbboValidate(r, v) PROVE Same
    BY <1>3, <1>5 DEF EbboValidate, RejectCurrent
  <1>6. ASSUME NEW v, FeasibilityValidate(r, v) PROVE Same
    BY <1>3, <1>6 DEF FeasibilityValidate, RejectCurrent
  <1>7. QED
    BY <1>1, <1>2, <1>4, <1>5, <1>6 DEF Handle

\* A step of one request leaves the invariant of the others alone.
LEMMA OtherRequests ==
    ASSUME TypeOK, NEW r \in Requests, NEW q \in Requests, q # r,
           ReqInv(q), Handle(r)
    PROVE  ReqInv(q)'
  BY OthersUnchanged, Frame

\* The salvage answers with a recorded winner that the salvage order names.
LEMMA SalvageInv ==
    ASSUME TypeOK, NEW r \in Requests, ReqInv(r), SolveTimeout(r)
    PROVE  ValidationInv(r)' /\ AnswerInv(r)' /\ Outcome(r)'
  <1>1. /\ winning' = winning /\ attempts' = attempts /\ proved' = proved
        /\ SolvedSolutions(r)' = SolvedSolutions(r)
    BY DEF SolveTimeout, SolvedSolutions
  <1>2. CASE Completed(r) = {} /\ ReturnUnlogged(r, "salvage")
    <2>1. /\ pc'[r] = "replying"
          /\ response'[r] =
               [kind |-> "empty", via |-> "salvage", solution |-> NoSolution]
      BY <1>2 DEF ReturnUnlogged, Return, TypeOK
    <2>2. (winning[r] \cap Salvageable) \subseteq Unparsable
      <3> SUFFICES ASSUME NEW n \in winning[r], n \in Salvageable, n \notin Unparsable
                   PROVE  FALSE
        OBVIOUS
      <3>1. PICK k \in DOMAIN SalvageOrder : SalvageOrder[k] = n
        BY DEF Salvageable
      <3>2. PICK i \in DOMAIN attempts[r] :
              attempts[r][i] = [strategy |-> n, status |-> "solved", solution |-> Own(n)]
        BY DEF ReqInv, WinnersRecorded
      <3>3. attempts[r][i].strategy = n /\ attempts[r][i].status = "solved"
        BY <3>2
      <3>4. k \in Completed(r)
        BY <3>1, <3>3 DEF Completed, HasSolved
      <3>5. QED
        BY <3>4, <1>2
    <2>3. QED
      BY <1>1, <2>1, <2>2 DEF ValidationInv, AnswerInv, Answered, Outcome, Submitted
  <1>3. ASSUME NEW k \in Completed(r),
               ReturnLogged(r, "solution", "salvage", Own(SalvageOrder[k]))
        PROVE  ValidationInv(r)' /\ AnswerInv(r)' /\ Outcome(r)'
    <2>1. /\ SalvageOrder[k] \in Strategies
          /\ \E i \in DOMAIN attempts[r] :
               /\ attempts[r][i].strategy = SalvageOrder[k]
               /\ attempts[r][i].status = "solved"
      BY CompletedStrategy
    <2>2. Own(SalvageOrder[k]) \in SolvedSolutions(r)
      BY <2>1 DEF ReqInv, OwnRecorded, SolvedSolutions
    <2>3. Naive \notin Own(SalvageOrder[k]).parts
      BY ConfigAssumption DEF Own, Completed, Salvageable
    <2>4. QED
      BY <1>1, <1>3, <2>2, <2>3, ReturnLoggedInv
  <1>4. QED
    BY <1>2, <1>3 DEF SolveTimeout

\* Every step of a request keeps its own invariant.
LEMMA RequestStep ==
    ASSUME TypeOK, NEW r \in Requests, ReqInv(r), Handle(r)
    PROVE  ReqInv(r)'
  <1>1. CASE Receive(r) \/ StartSolve(r) \/ Deliver(r)
    <2>1. SolvedSolutions(r)' = SolvedSolutions(r)
      BY <1>1 DEF Receive, StartSolve, Deliver, SolvedSolutions
    <2>2. QED
      BY <1>1, <2>1
        DEF Receive, StartSolve, Deliver, TypeOK, ReqInv, WinnersRecorded, OwnRecorded,
            ValidationInv, AnswerInv, Answered, Outcome, Submitted
  <1>2. CASE Persist(r)
    <2>1. SolvedSolutions(r)' = SolvedSolutions(r) /\ bg'[r] # "none"
      BY <1>2 DEF Persist, SolvedSolutions, TypeOK
    <2>2. QED
      BY <1>2, <2>1
        DEF Persist, ReqInv, WinnersRecorded, OwnRecorded, Composable,
            ValidationInv, AnswerInv, Answered, Outcome, Submitted
  <1>3. CASE RejectBody(r) \/ DeclineAuction(r) \/ ComposeRaises(r)
    <2>1. /\ winning' = winning /\ attempts' = attempts /\ pc'[r] = "replying"
          /\ response'[r].kind # "solution" /\ response'[r].via # "salvage"
      BY <1>3 DEF RejectBody, DeclineAuction, ComposeRaises, ReturnEarly,
                  ReturnUnlogged, Return, TypeOK
    <2>2. QED
      BY <2>1 DEF ReqInv, WinnersRecorded, OwnRecorded, ValidationInv, AnswerInv,
                  Answered, Outcome, Submitted
  <1>4. ASSUME NEW s \in {"solved", "no_solution", "timeout", "error"},
               FinishStrategy(r, s)
        PROVE  ReqInv(r)'
    <2> DEFINE name == Chain[idx[r]]
               sol == IF s = "solved" THEN Own(name) ELSE NoSolution
               n == Len(attempts[r])
    <2>1. /\ pc[r] = "strategy" /\ Record(r, name, s, sol)
          /\ winning' = [winning EXCEPT ![r] = IF s = "solved" THEN @ \cup {name} ELSE @]
          /\ pc'[r] \in {"strategy", "compose"}
          /\ UNCHANGED <<response, bg, jsonl, proved>>
      BY <1>4 DEF FinishStrategy, TypeOK
    <2>2. OwnRecorded(r)' /\ SolvedSolutions(r) \subseteq SolvedSolutions(r)'
      BY <2>1, RecordKeeps DEF ReqInv
    <2>3. WinnersRecorded(r)'
      <3>1. /\ DOMAIN attempts[r] = 1..n /\ n \in Nat
            /\ DOMAIN attempts'[r] = 1..(n + 1)
            /\ \A i \in 1..n : attempts'[r][i] = attempts[r][i]
            /\ attempts'[r][n + 1] =
                  [strategy |-> name, status |-> s, solution |-> sol]
        BY <2>1, RecordGrows
      <3> HIDE DEF n
      <3>2. winning'[r] = winning[r] \cup (IF s = "solved" THEN {name} ELSE {})
        BY <2>1 DEF TypeOK
      <3>3. ASSUME NEW m \in winning[r]
            PROVE  \E i \in DOMAIN attempts'[r] : attempts'[r][i] =
                     [strategy |-> m, status |-> "solved", solution |-> Own(m)]
        BY <3>1 DEF ReqInv, WinnersRecorded
      <3>4. ASSUME s = "solved"
            PROVE  \E i \in DOMAIN attempts'[r] : attempts'[r][i] =
                     [strategy |-> name, status |-> "solved", solution |-> Own(name)]
        BY <3>1, <3>4
      <3>5. QED
        BY <3>2, <3>3, <3>4 DEF WinnersRecorded
    <2>4. response'[r] = NoResponse
      BY <2>1 DEF ReqInv, AnswerInv, Answered
    <2>5. ValidationInv(r)' /\ AnswerInv(r)' /\ Outcome(r)'
      BY <2>1, <2>4 DEF ValidationInv, AnswerInv, Answered, Outcome, Submitted, NoResponse
    <2>6. QED
      BY <2>2, <2>3, <2>5 DEF ReqInv
  <1>5. CASE SkipCompose(r)
    <2>1. /\ NextCandidate(r, Composable(r)) /\ winning' = winning
          /\ attempts' = attempts /\ response[r] = NoResponse
      BY <1>5 DEF SkipCompose, ReqInv, AnswerInv, Answered
    <2>2. WinnersRecorded(r)' /\ OwnRecorded(r)'
      BY <2>1 DEF ReqInv, WinnersRecorded, OwnRecorded
    <2>3. QED
      BY <2>1, <2>2, NextCandidateInv DEF ReqInv
  <1>6. CASE ComposeMerged(r)
    <2>1. PICK parts \in (SUBSET Composable(r)) \ {{}} :
            /\ Record(r, Composer, "solved", [by |-> Composer, parts |-> parts])
            /\ current' = [current EXCEPT ![r] = [by |-> Composer, parts |-> parts]]
      BY <1>6 DEF ComposeMerged
    <2> DEFINE composed == [by |-> Composer, parts |-> parts]
    <2>2. /\ current'[r] = composed /\ todo'[r] = Composable(r) /\ pc'[r] = "ebbo"
          /\ winning' = winning /\ response'[r] = NoResponse
      BY <1>6, <2>1 DEF ComposeMerged, TypeOK, ReqInv, AnswerInv, Answered
    <2>3. /\ composed \in SolvedSolutions(r)'
          /\ WinnersRecorded(r)' /\ OwnRecorded(r)'
      BY <2>1, <2>2, RecordKeeps, ConfigAssumption DEF ReqInv
    <2>4. Naive \notin composed.parts
      BY DEF Composable
    <2>5. QED
      BY <2>2, <2>3, <2>4
        DEF ReqInv, ValidationInv, AnswerInv, Outcome, Submitted, NoResponse, Composable
  <1>7. ASSUME NEW name \in {EbboRejected, GateRejected}, pc[r] \in {"ebbo", "gate"},
               RejectCurrent(r, name), winning' = winning
        PROVE  ReqInv(r)'
    <2>1. /\ Record(r, name, "rejected", current[r]) /\ NextCandidate(r, todo[r])
          /\ todo[r] \subseteq Composable(r) /\ response[r] = NoResponse
      BY <1>7 DEF RejectCurrent, ReqInv, ValidationInv, AnswerInv, Answered
    <2>2. WinnersRecorded(r)' /\ OwnRecorded(r)'
      BY <1>7, <2>1, RecordKeeps DEF ReqInv
    <2>3. QED
      BY <1>7, <2>1, <2>2, NextCandidateInv DEF ReqInv
  <1>8. ASSUME NEW v \in EbboVerdicts, EbboValidate(r, v) PROVE ReqInv(r)'
    <2>1. CASE RejectCurrent(r, EbboRejected)
      BY <1>7, <1>8, <2>1 DEF EbboValidate
    <2>2. CASE /\ pc' = [pc EXCEPT ![r] = "gate"]
               /\ UNCHANGED <<attempts, todo, current, response, bg, jsonl>>
      <3>1. /\ pc[r] = "ebbo" /\ pc'[r] = "gate" /\ UNCHANGED <<winning, proved>>
            /\ SolvedSolutions(r)' = SolvedSolutions(r)
        BY <1>8, <2>2 DEF EbboValidate, TypeOK, SolvedSolutions
      <3>2. QED
        BY <2>2, <3>1
          DEF ReqInv, WinnersRecorded, OwnRecorded, ValidationInv, Composable,
              AnswerInv, Answered, Outcome, Submitted
    <2>3. QED
      BY <1>8, <2>1, <2>2 DEF EbboValidate
  <1>9. ASSUME NEW v \in GateVerdicts, FeasibilityValidate(r, v) PROVE ReqInv(r)'
    <2>1. pc[r] = "gate" /\ winning' = winning
      BY <1>9 DEF FeasibilityValidate
    <2>2. CASE RejectCurrent(r, GateRejected)
      BY <1>7, <2>1, <2>2
    <2>3. CASE /\ GateLetsThrough(v)
               /\ ReturnLogged(r, "solution", "pipeline", current[r])
               /\ UNCHANGED <<attempts, todo, current>>
      <3>1. GateEnabled => current[r] \in proved'[r]
        BY <1>9, <2>3 DEF FeasibilityValidate, GateLetsThrough, GateVerdicts, TypeOK
      <3>2. SolvedSolutions(r)' = SolvedSolutions(r)
        BY <2>3 DEF SolvedSolutions
      <3>3. Naive \notin current[r].parts /\ current[r] \in SolvedSolutions(r)
        BY <2>1 DEF ReqInv, ValidationInv
      <3>4. ValidationInv(r)' /\ AnswerInv(r)' /\ Outcome(r)'
        BY <2>3, <3>1, <3>2, <3>3, ReturnLoggedInv
      <3>5. QED
        BY <2>1, <2>3, <3>4 DEF ReqInv, WinnersRecorded, OwnRecorded
    <2>4. QED
      BY <1>9, <2>2, <2>3 DEF FeasibilityValidate
  <1>10. CASE SolveTimeout(r)
    BY <1>10, SalvageInv DEF SolveTimeout, ReqInv, WinnersRecorded, OwnRecorded
  <1>11. QED
    BY <1>1, <1>2, <1>3, <1>4, <1>5, <1>6, <1>8, <1>9, <1>10 DEF Handle

\* A crash answers nobody and takes nothing back.
LEMMA CrashStep ==
    ASSUME TypeOK, NEW r \in Requests, ReqInv(r), Crash
    PROVE  ReqInv(r)'
  <1>1. /\ pc'[r] = (IF pc[r] \in {"idle", "closed"} THEN pc[r] ELSE "dead")
        /\ bg'[r] = (IF bg[r] = "pending" THEN "lost" ELSE bg[r])
        /\ UNCHANGED <<attempts, winning, todo, current, response, jsonl, proved>>
        /\ SolvedSolutions(r)' = SolvedSolutions(r)
    BY DEF Crash, SolvedSolutions
  <1>2. QED
    BY <1>1 DEF ReqInv, WinnersRecorded, OwnRecorded, ValidationInv, AnswerInv,
                Answered, Outcome, Submitted

\* Every step keeps the invariant of every request.
LEMMA InvStep == IInv /\ [Next]_vars => IInv'
  <1> SUFFICES ASSUME IInv, [Next]_vars PROVE IInv'
    OBVIOUS
  <1>1. TypeOK'
    BY TypeStep DEF IInv
  <1>2. ASSUME NEW q \in Requests PROVE ReqInv(q)'
    <2>1. CASE Crash
      BY <2>1, CrashStep DEF IInv
    <2>2. ASSUME NEW r \in Requests, Handle(r) PROVE ReqInv(q)'
      BY <2>2, RequestStep, OtherRequests DEF IInv
    <2>3. CASE UNCHANGED vars
      BY <2>3, Frame DEF vars, IInv
    <2>4. QED
      BY <2>1, <2>2, <2>3 DEF Next
  <1>3. QED
    BY <1>1, <1>2 DEF IInv

\* The inductive invariant, in every state.
LEMMA Invariance == Spec => []IInv
  BY InitInv, InvStep, PTL DEF Spec

-----------------------------------------------------------------------------
(* The safety theorems                                                     *)

\* naive's trades are submitted on no path: for every chain that may contain
\* it, provided only that the salvage order does not name it.
THEOREM NaiveIsNeverSubmitted == Spec => []NaiveNeverSubmitted
  <1>1. IInv => NaiveNeverSubmitted
    BY DEF IInv, ReqInv, Outcome, NaiveNeverSubmitted
  <1>2. QED
    BY <1>1, Invariance, PTL

\* What solve() returns with the gate wired had a True verdict.
THEOREM GateIsFailClosed == Spec => []GateFailsClosed
  <1>1. IInv => GateFailsClosed
    BY DEF IInv, ReqInv, Outcome, GateFailsClosed
  <1>2. QED
    BY <1>1, Invariance, PTL

\* Every submission has its JSONL line, its persist task and its attempt.
THEOREM SubmissionsAreOnRecord == Spec => []SubmissionIsOnRecord
  <1>1. IInv => SubmissionIsOnRecord
    BY DEF IInv, ReqInv, Outcome, SubmissionIsOnRecord
  <1>2. QED
    BY <1>1, Invariance, PTL

\* A timeout answers empty only when the loop had no salvageable winner.
THEOREM NoWinnerIsThrownAway == Spec => []SalvageLosesNothing
  <1>1. IInv => SalvageLosesNothing
    BY DEF IInv, ReqInv, Outcome, SalvageLosesNothing
  <1>2. QED
    BY <1>1, Invariance, PTL
-----------------------------------------------------------------------------
(* Answers are final, and the pipeline implements SolverApi.               *)

Solving(phase) == phase \in {"parsing", "strategy", "compose", "ebbo", "gate"}

\* The ways a step moves the phase of its request, and the only one that
\* writes its response.
LEMMA PhaseMoves ==
    ASSUME TypeOK, NEW r \in Requests, Handle(r)
    PROVE  \/ pc[r] = "idle" /\ pc'[r] = "parsing" /\ response'[r] = response[r]
           \/ Solving(pc[r]) /\ Solving(pc'[r]) /\ response'[r] = response[r]
           \/ Solving(pc[r]) /\ pc'[r] = "replying"
           \/ /\ pc[r] = "replying" /\ pc'[r] = "closed"
              /\ response'[r] = response[r] /\ attempts'[r] = attempts[r]
           \/ /\ pc'[r] = pc[r]
              /\ response'[r] = response[r] /\ attempts'[r] = attempts[r]
  <1> DEFINE Moves ==
           \/ pc[r] = "idle" /\ pc'[r] = "parsing" /\ response'[r] = response[r]
           \/ Solving(pc[r]) /\ Solving(pc'[r]) /\ response'[r] = response[r]
           \/ Solving(pc[r]) /\ pc'[r] = "replying"
           \/ /\ pc[r] = "replying" /\ pc'[r] = "closed"
              /\ response'[r] = response[r] /\ attempts'[r] = attempts[r]
           \/ /\ pc'[r] = pc[r]
              /\ response'[r] = response[r] /\ attempts'[r] = attempts[r]
  <1> USE DEF TypeOK, Solving
  <1>1. ASSUME NEW k, NEW v, NEW sol, ReturnLogged(r, k, v, sol) PROVE pc'[r] = "replying"
    BY <1>1 DEF ReturnLogged, Return
  <1>2. ASSUME NEW cands, NextCandidate(r, cands)
        PROVE  pc'[r] = "replying" \/ (pc'[r] = "ebbo" /\ response'[r] = response[r])
    BY <1>1, <1>2 DEF NextCandidate
  <1>3. CASE Receive(r) \/ StartSolve(r) \/ Deliver(r) \/ Persist(r) \/ ComposeMerged(r)
    BY <1>3 DEF Receive, StartSolve, Deliver, Persist, ComposeMerged
  <1>4. CASE RejectBody(r) \/ DeclineAuction(r) \/ ComposeRaises(r)
    BY <1>4 DEF RejectBody, DeclineAuction, ComposeRaises, ReturnEarly,
                ReturnUnlogged, Return
  <1>5. ASSUME NEW s, FinishStrategy(r, s) PROVE Moves
    BY <1>5 DEF FinishStrategy
  <1>6. CASE SkipCompose(r)
    BY <1>2, <1>6 DEF SkipCompose
  <1>7. ASSUME NEW v, EbboValidate(r, v) PROVE Moves
    BY <1>2, <1>7 DEF EbboValidate, RejectCurrent
  <1>8. ASSUME NEW v, FeasibilityValidate(r, v) PROVE Moves
    BY <1>1, <1>2, <1>8 DEF FeasibilityValidate, RejectCurrent
  <1>9. CASE SolveTimeout(r)
    BY <1>1, <1>9 DEF SolveTimeout, Awaiting, ReturnUnlogged, Return
  <1>10. QED
    BY <1>3, <1>4, <1>5, <1>6, <1>7, <1>8, <1>9 DEF Handle

\* The answer of a request, and the attempts its persist task will write,
\* are fixed from the moment the handler returned.
THEOREM AnswersAreFinal == Spec => AnswerIsFinal
  <1>1. IInv /\ [Next]_vars => [AnswersKept]_vars
    <2> SUFFICES ASSUME IInv, Next, NEW q \in Requests, response[q] # NoResponse
                 PROVE  response'[q] = response[q] /\ attempts'[q] = attempts[q]
      BY DEF AnswersKept
    <2>1. ~Solving(pc[q]) /\ pc[q] # "idle"
      BY DEF IInv, ReqInv, AnswerInv, Answered, Solving
    <2>2. CASE Crash
      BY <2>2 DEF Crash
    <2>3. ASSUME NEW r \in Requests, Handle(r)
          PROVE  response'[q] = response[q] /\ attempts'[q] = attempts[q]
      <3>1. CASE q = r
        BY <2>1, <2>3, <3>1, PhaseMoves DEF IInv
      <3>2. CASE q # r
        BY <2>3, <3>2, OthersUnchanged DEF IInv
      <3>3. QED
        BY <3>1, <3>2
    <2>4. QED
      BY <2>2, <2>3 DEF Next
  <1>2. QED
    BY <1>1, Invariance, PTL DEF Spec, AnswerIsFinal

Answer(r) == IF Submitted(r) THEN response[r].solution.parts ELSE {}

\* Every step of the pipeline is a step of the abstract API or a stutter.
LEMMA ApiStep == IInv /\ IInv' /\ [Next]_vars => [Api!Next]_(Api!vars)
  <1> SUFFICES ASSUME IInv, IInv', [Next]_vars
               PROVE  Api!Next \/ UNCHANGED Api!vars
    OBVIOUS
  <1> DEFINE status == [q \in Requests |-> Outside(pc[q])]
             answer == [q \in Requests |-> Answer(q)]
  <1>1. CASE UNCHANGED vars
    BY <1>1 DEF vars, Api!vars, Submitted
  <1>2. CASE Crash
    <2>1. status' = [q \in Requests |->
               IF status[q] \in {"open", "replying"} THEN "dropped" ELSE status[q]]
      <3> SUFFICES ASSUME NEW q \in Requests
                   PROVE  Outside(pc'[q]) =
                            IF Outside(pc[q]) \in {"open", "replying"} THEN "dropped"
                                                                       ELSE Outside(pc[q])
        OBVIOUS
      <3>1. pc[q] \in Phases
        BY DEF IInv, TypeOK
      <3>2. pc'[q] = IF pc[q] \in {"idle", "closed"} THEN pc[q] ELSE "dead"
        BY <1>2 DEF Crash
      <3>3. QED
        BY <3>1, <3>2 DEF Phases, Outside
    <2>2. answer' = answer
      BY <1>2 DEF Crash, Answer, Submitted
    <2>3. QED
      BY <2>1, <2>2 DEF Api!Next, Api!DropAll, Answer
  <1>3. ASSUME NEW r \in Requests, Handle(r)
        PROVE  Api!Next \/ UNCHANGED Api!vars
    <2>1. ASSUME NEW q \in Requests, q # r
          PROVE  Outside(pc'[q]) = Outside(pc[q]) /\ Answer(q)' = Answer(q)
      BY <1>3, <2>1, OthersUnchanged DEF IInv, Answer, Submitted
    <2>2. Answer(r)' \in SUBSET (Strategies \ {Naive})
      <3>1. response'[r] \in Response /\ Outcome(r)'
        BY DEF IInv, ReqInv, TypeOK
      <3>2. response'[r].solution \in Solutions \cup {NoSolution}
        BY <3>1 DEF Response
      <3>3. response'[r].solution.parts \in SUBSET Strategies
        BY <3>2 DEF Solutions, NoSolution
      <3>4. QED
        BY <3>1, <3>3 DEF Outcome, Answer, Submitted
    <2>3. \/ Outside(pc[r]) = "idle" /\ Outside(pc'[r]) = "open" /\ Answer(r)' = Answer(r)
          \/ Outside(pc[r]) = "open" /\ Outside(pc'[r]) = "replying"
          \/ Outside(pc[r]) = "replying" /\ Outside(pc'[r]) = "closed" /\ Answer(r)' = Answer(r)
          \/ Outside(pc[r]) = Outside(pc'[r]) /\ Answer(r)' = Answer(r)
      BY <1>3, PhaseMoves DEF IInv, Outside, Solving, Answer, Submitted
    <2>4. /\ status' = [status EXCEPT ![r] = Outside(pc'[r])]
          /\ answer' = [answer EXCEPT ![r] = Answer(r)']
      BY <2>1
    <2>5. CASE Outside(pc[r]) = Outside(pc'[r]) /\ Answer(r)' = Answer(r)
      <3>1. status' = status /\ answer' = answer
        BY <2>4, <2>5
      <3>2. QED
        BY <3>1 DEF Api!vars, Answer
    <2>6. CASE Outside(pc[r]) = "idle" /\ Outside(pc'[r]) = "open" /\ Answer(r)' = Answer(r)
      <3>1. answer' = answer
        BY <2>4, <2>6
      <3>2. QED
        BY <2>4, <2>6, <3>1 DEF Api!Next, Api!Open, Answer
    <2>7. CASE Outside(pc[r]) = "replying" /\ Outside(pc'[r]) = "closed" /\ Answer(r)' = Answer(r)
      <3>1. answer' = answer
        BY <2>4, <2>7
      <3>2. QED
        BY <2>4, <2>7, <3>1 DEF Api!Next, Api!Close, Answer
    <2>8. CASE Outside(pc[r]) = "open" /\ Outside(pc'[r]) = "replying"
      BY <2>2, <2>4, <2>8 DEF Api!Next, Api!Reply, Answer
    <2>9. QED
      BY <2>3, <2>5, <2>6, <2>7, <2>8
  <1>4. QED
    BY <1>1, <1>2, <1>3 DEF Next

\* Whatever strategies, validators, timers and crashes do, callers see what
\* SolverApi promises.
THEOREM Implementation == Spec => ImplementsApi
  <1>1. Init => Api!Init
    BY DEF Init, Api!Init, Outside, Submitted, NoResponse
  <1>2. QED
    BY <1>1, ApiStep, Invariance, PTL DEF Spec, ImplementsApi, Api!Spec

-----------------------------------------------------------------------------
(* The loop and the fallback chain are complete.                           *)

ComposedSolutions(r) == {s \in SolvedSolutions(r) : s.by = Composer}

\* The first n records are the chain's, in its order; no later one is filed
\* under the name of a strategy.
ChainRecorded(r, n) ==
    /\ n \in 0..Len(attempts[r])
    /\ \A i \in DOMAIN attempts[r] :
         IF i <= n THEN attempts[r][i].strategy = Chain[i]
                   ELSE attempts[r][i].strategy \notin Strategies

\* Where the loop stands, and what it leaves behind.
LoopInv(r) ==
    /\ pc[r] \in {"idle", "parsing"} =>
         attempts[r] = <<>> /\ winning[r] = {} /\ idx[r] = 1
    /\ pc[r] = "strategy" =>
         /\ Len(attempts[r]) + 1 = idx[r] /\ ChainRecorded(r, Len(attempts[r]))
         /\ ~RunAll => winning[r] = {}
    /\ pc[r] \in {"compose", "ebbo", "gate"} \/ response[r].via = "pipeline" =>
         IF RunAll THEN ChainRecorded(r, Len(Chain))
                   ELSE \A m, n \in winning[r] : m = n

\* Until the fallback loop starts, nothing is composed and nothing rejected.
UntriedInv(r) ==
    pc[r] \in {"idle", "parsing", "strategy", "compose"} =>
        RejectedSolutions(r) = {} /\ ComposedSolutions(r) = {}

\* In the loop: what is neither rejected nor current is still to come, in
\* the order of the chain.
FallbackInv(r) ==
    pc[r] \in {"ebbo", "gate"} =>
        /\ current[r].parts # {} /\ \A s \in RejectedSolutions(r) : s.parts # {}
        /\ current[r] \notin RejectedSolutions(r)
        /\ ComposedSolutions(r) \subseteq RejectedSolutions(r) \cup {current[r]}
        /\ \A n \in Composable(r) \ todo[r] : Own(n) \in RejectedSolutions(r) \cup {current[r]}
        /\ \A n \in todo[r] : Own(n) \notin RejectedSolutions(r) \cup {current[r]}
        /\ \/ current[r].by = Composer
           \/ \E m \in Strategies : /\ current[r] = Own(m)
                                    /\ \A n \in todo[r] : Position(m) < Position(n)

\* What NoCandidateSkipped says of one request.
ShippedInv(r) ==
    response[r].kind \in {"solution", "empty"} /\ response[r].via = "pipeline" =>
        /\ response[r].solution \notin RejectedSolutions(r)
        /\ response[r].kind = "empty" =>
             /\ ComposedSolutions(r) \subseteq RejectedSolutions(r)
             /\ \A n \in Composable(r) : Own(n) \in RejectedSolutions(r)
        /\ response[r].kind = "solution" /\ response[r].solution.by # Composer =>
             /\ ComposedSolutions(r) \subseteq RejectedSolutions(r)
             /\ \A n \in Composable(r) :
                  Position(n) < Position(response[r].solution.by)
                      => Own(n) \in RejectedSolutions(r)

CompleteInv(r) == LoopInv(r) /\ UntriedInv(r) /\ FallbackInv(r) /\ ShippedInv(r)

\* Strategies are found at their position, and at no other.
LEMMA PositionFacts ==
    /\ \A n \in Strategies : Position(n) \in Nat /\ Chain[Position(n)] = n
    /\ \A m, n \in Strategies :
         m # n => Position(m) < Position(n) \/ Position(n) < Position(m)
  <1>1. \A n \in Strategies : Position(n) \in DOMAIN Chain /\ Chain[Position(n)] = n
    BY DEF Position, Strategies
  <1>2. DOMAIN Chain \subseteq Nat
    BY ChainFacts
  <1>3. QED
    BY <1>1, <1>2

\* What a record adds to the rejected and to the solved solutions.
LEMMA RecordAdds ==
    ASSUME TypeOK, NEW r \in Requests, NEW name, NEW status, NEW sol,
           Record(r, name, status, sol)
    PROVE  /\ RejectedSolutions(r)' =
                RejectedSolutions(r) \cup (IF status = "rejected" THEN {sol} ELSE {})
           /\ SolvedSolutions(r)' =
                SolvedSolutions(r) \cup (IF status = "solved" THEN {sol} ELSE {})
  <1> DEFINE n == Len(attempts[r])
  <1> HIDE DEF n
  <1>1. /\ n \in Nat /\ DOMAIN attempts[r] = 1..n
        /\ DOMAIN attempts'[r] = 1..(n + 1)
        /\ \A i \in 1..n : attempts'[r][i] = attempts[r][i]
        /\ attempts'[r][n + 1] =
              [strategy |-> name, status |-> status, solution |-> sol]
    BY RecordGrows DEF n
  <1>2. ASSUME NEW st, NEW x
        PROVE  (\E i \in DOMAIN attempts'[r] : attempts'[r][i].status = st
                                               /\ attempts'[r][i].solution = x)
               <=> \/ \E i \in DOMAIN attempts[r] : attempts[r][i].status = st
                                                    /\ attempts[r][i].solution = x
                   \/ status = st /\ sol = x
    <2>1. n + 1 \in DOMAIN attempts'[r] /\ DOMAIN attempts[r] \subseteq DOMAIN attempts'[r]
      BY <1>1
    <2>2. attempts'[r][n + 1].status = status /\ attempts'[r][n + 1].solution = sol
      BY <1>1
    <2>3. \A i \in DOMAIN attempts'[r] : i \in DOMAIN attempts[r] \/ i = n + 1
      BY <1>1
    <2>4. QED
      BY <1>1, <2>1, <2>2, <2>3
  <1>3. ASSUME NEW x
        PROVE  x \in RejectedSolutions(r)'
                 <=> x \in RejectedSolutions(r) \/ (status = "rejected" /\ sol = x)
    <2>1. x \in RejectedSolutions(r) <=>
            \E i \in DOMAIN attempts[r] : attempts[r][i].status = "rejected"
                                          /\ attempts[r][i].solution = x
      BY DEF RejectedSolutions
    <2>2. x \in RejectedSolutions(r)' <=>
            \E i \in DOMAIN attempts'[r] : attempts'[r][i].status = "rejected"
                                           /\ attempts'[r][i].solution = x
      BY DEF RejectedSolutions
    <2>3. (\E i \in DOMAIN attempts'[r] : attempts'[r][i].status = "rejected"
                                           /\ attempts'[r][i].solution = x)
          <=> \/ \E i \in DOMAIN attempts[r] : attempts[r][i].status = "rejected"
                                                /\ attempts[r][i].solution = x
              \/ status = "rejected" /\ sol = x
      BY <1>2
    <2>4. QED
      BY <2>1, <2>2, <2>3
  <1>4. ASSUME NEW x
        PROVE  x \in SolvedSolutions(r)'
                 <=> x \in SolvedSolutions(r) \/ (status = "solved" /\ sol = x)
    <2>1. x \in SolvedSolutions(r) <=>
            \E i \in DOMAIN attempts[r] : attempts[r][i].status = "solved"
                                          /\ attempts[r][i].solution = x
      BY DEF SolvedSolutions
    <2>2. x \in SolvedSolutions(r)' <=>
            \E i \in DOMAIN attempts'[r] : attempts'[r][i].status = "solved"
                                           /\ attempts'[r][i].solution = x
      BY DEF SolvedSolutions
    <2>3. (\E i \in DOMAIN attempts'[r] : attempts'[r][i].status = "solved"
                                           /\ attempts'[r][i].solution = x)
          <=> \/ \E i \in DOMAIN attempts[r] : attempts[r][i].status = "solved"
                                                /\ attempts[r][i].solution = x
              \/ status = "solved" /\ sol = x
      BY <1>2
    <2>4. QED
      BY <2>1, <2>2, <2>3
  <1>5. QED
    BY <1>3, <1>4

\* A record makes the list longer by one.
LEMMA RecordLength ==
    ASSUME TypeOK, NEW r \in Requests, NEW name, NEW status, NEW sol,
           Record(r, name, status, sol)
    PROVE  Len(attempts'[r]) = Len(attempts[r]) + 1
  <1>1. attempts[r] \in Seq(AttemptRecord)
    BY DEF TypeOK
  <1>2. attempts'[r] = Append(attempts[r],
              [strategy |-> name, status |-> status, solution |-> sol])
    BY DEF TypeOK, Record
  <1>3. QED
    BY <1>1, <1>2

\* A record of a later phase leaves the chain's records where they are.
LEMMA RecordExtends ==
    ASSUME TypeOK, NEW r \in Requests, NEW name, NEW status, NEW sol,
           Record(r, name, status, sol), NEW n, ChainRecorded(r, n),
           name \notin Strategies
    PROVE  ChainRecorded(r, n)'
  <1>1. /\ Len(attempts[r]) \in Nat /\ DOMAIN attempts[r] = 1..Len(attempts[r])
        /\ DOMAIN attempts'[r] = 1..(Len(attempts[r]) + 1)
        /\ \A i \in 1..Len(attempts[r]) : attempts'[r][i] = attempts[r][i]
        /\ attempts'[r][Len(attempts[r]) + 1] =
              [strategy |-> name, status |-> status, solution |-> sol]
    BY RecordGrows
  <1>2. Len(attempts'[r]) = Len(attempts[r]) + 1
    BY <1>1, RecordLength
  <1>3. QED
    BY <1>1, <1>2 DEF ChainRecorded

\* A request that keeps its records, phase and answer keeps the invariant.
LEMMA CompleteFrame ==
    ASSUME NEW q \in Requests, CompleteInv(q),
           pc'[q] = pc[q], attempts'[q] = attempts[q], winning'[q] = winning[q],
           idx'[q] = idx[q], todo'[q] = todo[q], current'[q] = current[q],
           response'[q] = response[q]
    PROVE  CompleteInv(q)'
  <1>1. /\ SolvedSolutions(q)' = SolvedSolutions(q)
        /\ RejectedSolutions(q)' = RejectedSolutions(q)
        /\ ComposedSolutions(q)' = ComposedSolutions(q)
        /\ Composable(q)' = Composable(q)
    BY DEF SolvedSolutions, RejectedSolutions, ComposedSolutions, Composable
  <1>2. LoopInv(q)'
    BY DEF CompleteInv, LoopInv, ChainRecorded
  <1>3. UntriedInv(q)' /\ FallbackInv(q)' /\ ShippedInv(q)'
    BY <1>1 DEF CompleteInv, UntriedInv, FallbackInv, ShippedInv
  <1>4. QED
    BY <1>2, <1>3 DEF CompleteInv

\* A step of one request leaves the others' index alone, too.
LEMMA OthersIndex ==
    ASSUME TypeOK, NEW r \in Requests, NEW q \in Requests, q # r, Handle(r)
    PROVE  idx'[q] = idx[q]
  BY DEF TypeOK, Handle, Receive, RejectBody, DeclineAuction, StartSolve, FinishStrategy,
         SkipCompose, ComposeMerged, ComposeRaises, EbboValidate, FeasibilityValidate,
         SolveTimeout, Deliver, Persist

\* The handler has returned with something other than an answer of solve().
LEMMA OtherAnswer ==
    ASSUME NEW r \in Requests, pc'[r] = "replying",
           response'[r].via # "pipeline"
    PROVE  CompleteInv(r)'
  BY DEF CompleteInv, LoopInv, UntriedInv, FallbackInv, ShippedInv

\* solve() returned: the loop has been left, and the fallback chain with it.
LEMMA PipelineAnswer ==
    ASSUME TypeOK, NEW r \in Requests, NEW kind \in {"solution", "empty"}, NEW sol,
           ReturnLogged(r, kind, "pipeline", sol),
           IF RunAll THEN ChainRecorded(r, Len(Chain))' ELSE \A m, n \in winning'[r] : m = n,
           sol \notin RejectedSolutions(r)',
           kind = "empty" =>
             /\ ComposedSolutions(r)' \subseteq RejectedSolutions(r)'
             /\ \A n \in Composable(r)' : Own(n) \in RejectedSolutions(r)',
           kind = "solution" /\ sol.by # Composer =>
             /\ ComposedSolutions(r)' \subseteq RejectedSolutions(r)'
             /\ \A n \in Composable(r)' :
                  Position(n) < Position(sol.by) => Own(n) \in RejectedSolutions(r)'
    PROVE  CompleteInv(r)'
  <1>1. pc'[r] = "replying"
    BY DEF ReturnLogged, Return, TypeOK
  <1>2. \/ response'[r] = [kind |-> kind, via |-> "pipeline", solution |-> sol]
        \/ response'[r] = [kind |-> "http500", via |-> "pipeline", solution |-> NoSolution]
    BY DEF ReturnLogged, Return, TypeOK
  <1>3. LoopInv(r)' /\ UntriedInv(r)' /\ FallbackInv(r)'
    BY <1>1 DEF LoopInv, UntriedInv, FallbackInv
  <1>4. ShippedInv(r)'
    BY <1>2 DEF ShippedInv
  <1>5. QED
    BY <1>3, <1>4 DEF CompleteInv

\* The fallback loop goes on, or ends, with all but the candidates rejected.
LEMMA NextCandidateComplete ==
    ASSUME TypeOK, NEW r \in Requests, NEW cands \in SUBSET Composable(r),
           NextCandidate(r, cands), winning' = winning, response[r] = NoResponse,
           IF RunAll THEN ChainRecorded(r, Len(Chain))' ELSE \A m, n \in winning'[r] : m = n,
           \A s \in RejectedSolutions(r)' : s.parts # {},
           ComposedSolutions(r)' \subseteq RejectedSolutions(r)',
           \A n \in Composable(r) \ cands : Own(n) \in RejectedSolutions(r)',
           \A n \in cands : Own(n) \notin RejectedSolutions(r)'
    PROVE  CompleteInv(r)'
  <1>1. Composable(r)' = Composable(r) /\ Composable(r) \subseteq Strategies
    BY DEF Composable, TypeOK
  <1>2. NoSolution \notin RejectedSolutions(r)'
    BY DEF NoSolution
  <1>3. CASE cands = {} /\ ReturnLogged(r, "empty", "pipeline", NoSolution)
    <2>1. \A n \in Composable(r)' : Own(n) \in RejectedSolutions(r)'
      BY <1>1, <1>3
    <2>2. QED
      BY <1>2, <1>3, <2>1, PipelineAnswer
  <1>4. ASSUME NEW n \in cands, IsFirst(n, cands),
               todo' = [todo EXCEPT ![r] = cands \ {n}],
               current' = [current EXCEPT ![r] = Own(n)],
               pc' = [pc EXCEPT ![r] = "ebbo"],
               UNCHANGED <<response, bg, jsonl>>
        PROVE  CompleteInv(r)'
    <2>1. /\ todo'[r] = cands \ {n} /\ current'[r] = Own(n) /\ pc'[r] = "ebbo"
          /\ response'[r] = NoResponse /\ n \in Strategies
      BY <1>1, <1>4 DEF TypeOK
    <2>2. \A m \in cands \ {n} : Position(n) < Position(m)
      <3>1. \A m \in cands \ {n} : Position(n) <= Position(m)
        BY <1>4 DEF IsFirst
      <3>2. \A m \in cands : Position(m) \in Nat
        BY <1>1, PositionFacts
      <3>3. QED
        BY <1>1, <3>1, <3>2, PositionFacts
    <2>3. FallbackInv(r)'
      <3>1. Own(n).parts # {} /\ \A m : m # n => Own(m) # Own(n)
        BY DEF Own
      <3>2. QED
        BY <1>1, <2>1, <2>2, <3>1 DEF FallbackInv
    <2>4. LoopInv(r)' /\ UntriedInv(r)' /\ ShippedInv(r)'
      BY <2>1 DEF LoopInv, UntriedInv, ShippedInv, NoResponse
    <2>5. QED
      BY <2>3, <2>4 DEF CompleteInv
  <1>5. QED
    BY <1>3, <1>4 DEF NextCandidate

\* Whatever validator rejects the current candidate, the chain goes on.
LEMMA RejectComplete ==
    ASSUME TypeOK, NEW r \in Requests, ReqInv(r), CompleteInv(r),
           NEW name \in {EbboRejected, GateRejected}, pc[r] \in {"ebbo", "gate"},
           RejectCurrent(r, name), winning' = winning
    PROVE  CompleteInv(r)'
  <1>1. /\ Record(r, name, "rejected", current[r]) /\ NextCandidate(r, todo[r])
        /\ todo[r] \in SUBSET Composable(r) /\ response[r] = NoResponse
    BY DEF RejectCurrent, ReqInv, ValidationInv, AnswerInv, Answered
  <1>2. /\ RejectedSolutions(r)' = RejectedSolutions(r) \cup {current[r]}
        /\ ComposedSolutions(r)' = ComposedSolutions(r)
    BY <1>1, RecordAdds DEF ComposedSolutions
  <1>3. IF RunAll THEN ChainRecorded(r, Len(Chain))' ELSE \A m, n \in winning'[r] : m = n
    <2>1. name \notin Strategies
      BY ConfigAssumption
    <2>2. QED
      BY <1>1, <2>1, RecordExtends DEF CompleteInv, LoopInv
  <1>4. /\ \A s \in RejectedSolutions(r)' : s.parts # {}
        /\ ComposedSolutions(r)' \subseteq RejectedSolutions(r)'
        /\ \A n \in Composable(r) \ todo[r] : Own(n) \in RejectedSolutions(r)'
        /\ \A n \in todo[r] : Own(n) \notin RejectedSolutions(r)'
    BY <1>2 DEF CompleteInv, FallbackInv
  <1>5. QED
    BY <1>1, <1>3, <1>4, NextCandidateComplete

\* The step of a request, action by action.
LEMMA CompleteRequestStep ==
    ASSUME TypeOK, NEW r \in Requests, ReqInv(r), CompleteInv(r), Handle(r)
    PROVE  CompleteInv(r)'
  <1>1. CASE Receive(r) \/ StartSolve(r)
    <2>1. /\ UNCHANGED <<attempts, winning, idx, response>>
          /\ pc[r] \in {"idle", "parsing"} /\ pc'[r] \in {"parsing", "strategy"}
          /\ RejectedSolutions(r)' = RejectedSolutions(r)
          /\ ComposedSolutions(r)' = ComposedSolutions(r)
      BY <1>1 DEF Receive, StartSolve, TypeOK, RejectedSolutions, ComposedSolutions,
                  SolvedSolutions
    <2>2. response'[r] = NoResponse
      BY <2>1 DEF ReqInv, AnswerInv, Answered
    <2>3. attempts'[r] = <<>> /\ winning'[r] = {} /\ idx'[r] = 1
      BY <2>1 DEF CompleteInv, LoopInv
    <2>4. LoopInv(r)'
      BY <2>1, <2>2, <2>3 DEF LoopInv, ChainRecorded, NoResponse
    <2>5. UntriedInv(r)' /\ FallbackInv(r)' /\ ShippedInv(r)'
      BY <2>1, <2>2 DEF CompleteInv, UntriedInv, FallbackInv, ShippedInv, NoResponse
    <2>6. QED
      BY <2>4, <2>5 DEF CompleteInv
  <1>2. CASE RejectBody(r) \/ DeclineAuction(r) \/ ComposeRaises(r)
    <2>1. pc'[r] = "replying" /\ response'[r].via # "pipeline"
      BY <1>2 DEF RejectBody, DeclineAuction, ComposeRaises, ReturnEarly,
                  ReturnUnlogged, Return, TypeOK
    <2>2. QED
      BY <2>1, OtherAnswer
  <1>3. CASE SolveTimeout(r)
    <2>1. pc'[r] = "replying" /\ response'[r].via # "pipeline"
      BY <1>3 DEF SolveTimeout, ReturnLogged, ReturnUnlogged, Return, TypeOK
    <2>2. QED
      BY <2>1, OtherAnswer
  <1>4. ASSUME NEW s \in {"solved", "no_solution", "timeout", "error"},
               FinishStrategy(r, s)
        PROVE  CompleteInv(r)'
    <2> DEFINE name == Chain[idx[r]]
               sol == IF s = "solved" THEN Own(name) ELSE NoSolution
               k == Len(attempts[r])
    <2>1. /\ pc[r] = "strategy" /\ Record(r, name, s, sol)
          /\ winning'[r] = IF s = "solved" THEN winning[r] \cup {name} ELSE winning[r]
          /\ UNCHANGED <<todo, current, response, bg, jsonl, proved>>
          /\ response'[r] = NoResponse /\ response[r] = NoResponse
      BY <1>4 DEF FinishStrategy, TypeOK, ReqInv, AnswerInv, Answered
    <2>2. /\ k \in Nat /\ k + 1 = idx[r] /\ k < Len(Chain) /\ Len(Chain) \in Nat
          /\ ChainRecorded(r, k) /\ (~RunAll => winning[r] = {})
          /\ name \in Strategies
      BY <2>1, RecordGrows, ChainFacts DEF CompleteInv, LoopInv, TypeOK
    <2>3. ChainRecorded(r, Len(attempts[r]))' /\ Len(attempts'[r]) = k + 1
      <3>1. /\ DOMAIN attempts[r] = 1..k
            /\ DOMAIN attempts'[r] = 1..(k + 1)
            /\ \A i \in 1..k : attempts'[r][i] = attempts[r][i]
            /\ attempts'[r][k + 1] = [strategy |-> name, status |-> s, solution |-> sol]
            /\ Len(attempts'[r]) = k + 1
        BY <2>1, RecordGrows, RecordLength
      <3>2. name = Chain[k + 1]
        BY <2>2
      <3>3. /\ k + 1 \in 0..Len(attempts'[r])
            /\ \A i \in DOMAIN attempts'[r] :
                 i <= k + 1 /\ attempts'[r][i].strategy = Chain[i]
        <4> HIDE DEF k
        <4>1. \A i \in 1..k : attempts'[r][i].strategy = Chain[i]
          BY <2>2, <3>1 DEF ChainRecorded
        <4>2. attempts'[r][k + 1].strategy = Chain[k + 1]
          BY <3>1, <3>2
        <4>3. QED
          BY <2>2, <3>1, <4>1, <4>2
      <3>4. QED
        BY <3>1, <3>3 DEF ChainRecorded
    <2>4. UntriedInv(r)'
      <3>1. RejectedSolutions(r)' = RejectedSolutions(r) /\ RejectedSolutions(r) = {}
        BY <2>1, RecordAdds DEF CompleteInv, UntriedInv
      <3>2. \A n \in Strategies : Own(n).by # Composer
        BY ConfigAssumption DEF Own
      <3>3. ComposedSolutions(r)' = {}
        BY <2>1, <2>2, <3>2, RecordAdds DEF CompleteInv, UntriedInv, ComposedSolutions
      <3>4. QED
        BY <3>1, <3>3 DEF UntriedInv
    <2>5. LoopInv(r)' /\ pc'[r] \in {"strategy", "compose"}
      <3>1. CASE LeavesLoop(r, s = "solved")
        <4>1. pc'[r] = "compose"
          BY <1>4, <3>1 DEF FinishStrategy, TypeOK
        <4>2. RunAll => k + 1 = Len(Chain)
          BY <2>2, <3>1 DEF LeavesLoop
        <4>3. ~RunAll => \A m, n \in winning'[r] : m = n
          BY <2>1, <2>2
        <4>4. QED
          BY <2>1, <2>3, <4>1, <4>2, <4>3 DEF LoopInv, ChainRecorded
      <3>2. CASE ~LeavesLoop(r, s = "solved")
        <4>1. pc'[r] = "strategy" /\ idx'[r] = (k + 1) + 1
          BY <1>4, <2>1, <2>2, <3>2 DEF FinishStrategy, TypeOK
        <4>2. ~RunAll => winning'[r] = {}
          BY <2>1, <2>2, <3>2 DEF LeavesLoop
        <4>3. QED
          BY <2>1, <2>2, <2>3, <4>1, <4>2 DEF LoopInv, NoResponse
      <3>3. QED
        BY <3>1, <3>2
    <2>6. FallbackInv(r)' /\ ShippedInv(r)'
      BY <2>1, <2>5 DEF FallbackInv, ShippedInv, NoResponse
    <2>7. QED
      BY <2>4, <2>5, <2>6 DEF CompleteInv
  <1>5. CASE SkipCompose(r)
    <2>1. /\ pc[r] = "compose" /\ NextCandidate(r, Composable(r)) /\ winning' = winning
          /\ attempts' = attempts /\ response[r] = NoResponse
          /\ RejectedSolutions(r)' = {} /\ ComposedSolutions(r)' = {}
      BY <1>5 DEF SkipCompose, ReqInv, AnswerInv, Answered, CompleteInv, UntriedInv,
                  RejectedSolutions, ComposedSolutions, SolvedSolutions
    <2>2. IF RunAll THEN ChainRecorded(r, Len(Chain))' ELSE \A m, n \in winning'[r] : m = n
      BY <2>1 DEF CompleteInv, LoopInv, ChainRecorded
    <2>3. QED
      BY <2>1, <2>2, NextCandidateComplete
  <1>6. CASE ComposeMerged(r)
    <2>1. PICK parts \in (SUBSET Composable(r)) \ {{}} :
            /\ Record(r, Composer, "solved", [by |-> Composer, parts |-> parts])
            /\ current' = [current EXCEPT ![r] = [by |-> Composer, parts |-> parts]]
      BY <1>6 DEF ComposeMerged
    <2> DEFINE composed == [by |-> Composer, parts |-> parts]
    <2>2. /\ current'[r] = composed /\ todo'[r] = Composable(r) /\ pc'[r] = "ebbo"
          /\ pc[r] = "compose" /\ winning' = winning /\ response'[r] = NoResponse
          /\ Composable(r)' = Composable(r) /\ Composable(r) \subseteq Strategies
      BY <1>6, <2>1 DEF ComposeMerged, TypeOK, ReqInv, AnswerInv, Answered, Composable
    <2>3. RejectedSolutions(r)' = {} /\ ComposedSolutions(r)' = {composed}
      BY <2>1, <2>2, RecordAdds DEF CompleteInv, UntriedInv, ComposedSolutions
    <2>4. \A n \in Composable(r) : Own(n) # composed
      BY <2>2, ConfigAssumption DEF Own
    <2>5. FallbackInv(r)'
      <3>1. composed.parts # {} /\ composed.by = Composer
        OBVIOUS
      <3> HIDE DEF composed
      <3>2. QED
        BY <2>2, <2>3, <2>4, <3>1 DEF FallbackInv
    <2>6. IF RunAll THEN ChainRecorded(r, Len(Chain))' ELSE \A m, n \in winning'[r] : m = n
      BY <2>1, <2>2, RecordExtends, ConfigAssumption DEF CompleteInv, LoopInv
    <2>7. LoopInv(r)' /\ UntriedInv(r)' /\ ShippedInv(r)'
      BY <2>2, <2>6 DEF LoopInv, UntriedInv, ShippedInv, NoResponse
    <2>8. QED
      BY <2>5, <2>7 DEF CompleteInv
  <1>7. ASSUME NEW v \in EbboVerdicts, EbboValidate(r, v) PROVE CompleteInv(r)'
    <2>1. CASE RejectCurrent(r, EbboRejected)
      BY <1>7, <2>1, RejectComplete DEF EbboValidate
    <2>2. CASE /\ pc' = [pc EXCEPT ![r] = "gate"]
               /\ UNCHANGED <<attempts, todo, current, response, bg, jsonl>>
      <3>1. /\ pc[r] = "ebbo" /\ pc'[r] = "gate" /\ UNCHANGED <<winning, idx>>
            /\ RejectedSolutions(r)' = RejectedSolutions(r)
            /\ ComposedSolutions(r)' = ComposedSolutions(r)
            /\ Composable(r)' = Composable(r)
        BY <1>7, <2>2 DEF EbboValidate, TypeOK, RejectedSolutions, ComposedSolutions,
                          SolvedSolutions, Composable
      <3>2. LoopInv(r)'
        BY <2>2, <3>1 DEF CompleteInv, LoopInv, ChainRecorded
      <3>3. UntriedInv(r)' /\ FallbackInv(r)' /\ ShippedInv(r)'
        BY <2>2, <3>1 DEF CompleteInv, UntriedInv, FallbackInv, ShippedInv
      <3>4. QED
        BY <3>2, <3>3 DEF CompleteInv
    <2>3. QED
      BY <1>7, <2>1, <2>2 DEF EbboValidate
  <1>8. ASSUME NEW v \in GateVerdicts, FeasibilityValidate(r, v) PROVE CompleteInv(r)'
    <2>1. pc[r] = "gate" /\ winning' = winning
      BY <1>8 DEF FeasibilityValidate
    <2>2. CASE RejectCurrent(r, GateRejected)
      BY <2>1, <2>2, RejectComplete
    <2>3. CASE /\ ReturnLogged(r, "solution", "pipeline", current[r])
               /\ UNCHANGED <<attempts, todo, current>>
      <3>1. /\ RejectedSolutions(r)' = RejectedSolutions(r)
            /\ ComposedSolutions(r)' = ComposedSolutions(r)
            /\ Composable(r)' = Composable(r) /\ Composable(r) \subseteq Strategies
        BY <2>1, <2>3 DEF RejectedSolutions, ComposedSolutions, SolvedSolutions,
                          Composable, TypeOK
      <3>2. IF RunAll THEN ChainRecorded(r, Len(Chain))' ELSE \A m, n \in winning'[r] : m = n
        BY <2>1, <2>3 DEF CompleteInv, LoopInv, ChainRecorded
      <3>3. ASSUME current[r].by # Composer
            PROVE  /\ ComposedSolutions(r) \subseteq RejectedSolutions(r)
                   /\ \A n \in Composable(r) :
                        Position(n) < Position(current[r].by) => Own(n) \in RejectedSolutions(r)
        <4>1. PICK m \in Strategies : /\ current[r] = Own(m)
                                      /\ \A n \in todo[r] : Position(m) < Position(n)
          BY <2>1, <3>3 DEF CompleteInv, FallbackInv
        <4>2. ComposedSolutions(r) \subseteq RejectedSolutions(r)
          BY <2>1, <3>3 DEF CompleteInv, FallbackInv, ComposedSolutions
        <4>3. ASSUME NEW n \in Composable(r), Position(n) < Position(m)
              PROVE  Own(n) \in RejectedSolutions(r)
          <5>1. Position(n) \in Nat /\ Position(m) \in Nat /\ todo[r] \subseteq Strategies
            BY <3>1, PositionFacts DEF TypeOK
          <5>2. n # m /\ n \notin todo[r]
            BY <4>1, <4>3, <5>1
          <5>3. Own(n) # current[r]
            BY <4>1, <5>2 DEF Own
          <5>4. QED
            BY <2>1, <5>2, <5>3 DEF CompleteInv, FallbackInv
        <4>4. current[r].by = m
          BY <4>1 DEF Own
        <4>5. QED
          BY <4>2, <4>3, <4>4
      <3>4. current[r] \notin RejectedSolutions(r)
        BY <2>1 DEF CompleteInv, FallbackInv
      <3>5. QED
        BY <2>3, <3>1, <3>2, <3>3, <3>4, PipelineAnswer
    <2>4. QED
      BY <1>8, <2>2, <2>3 DEF FeasibilityValidate
  <1>9. CASE Deliver(r) \/ Persist(r)
    <2>1. /\ pc[r] \in {"replying", "closed"} /\ pc'[r] = "closed"
          /\ UNCHANGED <<attempts, winning, response>>
          /\ RejectedSolutions(r)' = RejectedSolutions(r)
          /\ ComposedSolutions(r)' = ComposedSolutions(r)
          /\ Composable(r)' = Composable(r)
      BY <1>9 DEF Deliver, Persist, TypeOK, RejectedSolutions, ComposedSolutions,
                  SolvedSolutions, Composable
    <2>2. LoopInv(r)'
      BY <2>1 DEF CompleteInv, LoopInv, ChainRecorded
    <2>3. UntriedInv(r)' /\ FallbackInv(r)' /\ ShippedInv(r)'
      BY <2>1 DEF CompleteInv, UntriedInv, FallbackInv, ShippedInv
    <2>4. QED
      BY <2>2, <2>3 DEF CompleteInv
  <1>10. QED
    BY <1>1, <1>2, <1>3, <1>4, <1>5, <1>6, <1>7, <1>8, <1>9 DEF Handle

\* A crash leaves the records of every request, and its answer, as they are.
LEMMA CompleteCrash ==
    ASSUME TypeOK, NEW r \in Requests, CompleteInv(r), Crash
    PROVE  CompleteInv(r)'
  <1>1. /\ pc'[r] = (IF pc[r] \in {"idle", "closed"} THEN pc[r] ELSE "dead")
        /\ UNCHANGED <<attempts, winning, idx, response>>
        /\ RejectedSolutions(r)' = RejectedSolutions(r)
        /\ ComposedSolutions(r)' = ComposedSolutions(r)
        /\ Composable(r)' = Composable(r)
    BY DEF Crash, RejectedSolutions, ComposedSolutions, SolvedSolutions, Composable
  <1>2. LoopInv(r)'
    BY <1>1 DEF CompleteInv, LoopInv, ChainRecorded
  <1>3. UntriedInv(r)' /\ FallbackInv(r)' /\ ShippedInv(r)'
    BY <1>1 DEF CompleteInv, UntriedInv, FallbackInv, ShippedInv
  <1>4. QED
    BY <1>2, <1>3 DEF CompleteInv

\* The loop and the fallback chain of every request, in every state.
LEMMA Completeness == Spec => [](\A r \in Requests : CompleteInv(r))
  <1> DEFINE AllComplete == \A r \in Requests : CompleteInv(r)
  <1>1. Init => AllComplete
    <2> SUFFICES ASSUME Init, NEW r \in Requests PROVE CompleteInv(r)
      OBVIOUS
    <2>1. /\ pc[r] = "idle" /\ attempts[r] = <<>> /\ winning[r] = {} /\ idx[r] = 1
          /\ response[r].kind = "none" /\ response[r].via = "none"
      BY DEF Init, NoResponse
    <2>2. RejectedSolutions(r) = {} /\ ComposedSolutions(r) = {}
      BY <2>1 DEF RejectedSolutions, ComposedSolutions, SolvedSolutions
    <2>3. QED
      BY <2>1, <2>2 DEF CompleteInv, LoopInv, UntriedInv, FallbackInv, ShippedInv
  <1>2. IInv /\ AllComplete /\ [Next]_vars => AllComplete'
    <2> SUFFICES ASSUME IInv, AllComplete, [Next]_vars, NEW q \in Requests
                 PROVE  CompleteInv(q)'
      OBVIOUS
    <2>1. CASE Crash
      BY <2>1, CompleteCrash DEF IInv
    <2>2. ASSUME NEW r \in Requests, Handle(r) PROVE CompleteInv(q)'
      <3>1. CASE q = r
        BY <2>2, <3>1, CompleteRequestStep DEF IInv
      <3>2. CASE q # r
        BY <2>2, <3>2, OthersUnchanged, OthersIndex, CompleteFrame DEF IInv
      <3>3. QED
        BY <3>1, <3>2
    <2>3. CASE UNCHANGED vars
      BY <2>3, CompleteFrame DEF vars
    <2>4. QED
      BY <2>1, <2>2, <2>3 DEF Next
  <1>3. QED
    BY <1>1, <1>2, Invariance, PTL DEF Spec

\* solve() ships a candidate only after composed and every earlier one were
\* rejected on record, and none only after all of them were.
THEOREM FallbackIsComplete == Spec => []NoCandidateSkipped
  <1>1. (\A r \in Requests : CompleteInv(r)) => NoCandidateSkipped
    <2> SUFFICES ASSUME NEW r \in Requests, CompleteInv(r),
                        response[r].kind \in {"solution", "empty"}, response[r].via = "pipeline"
                 PROVE  LET shipped  == response[r].solution
                            composed == {s \in SolvedSolutions(r) : s.by = Composer}
                            fallback == {Own(n) : n \in Composable(r)}
                            earlier  == {Own(n) : n \in {m \in Composable(r) :
                                              Position(m) < Position(shipped.by)}}
                            due == IF response[r].kind = "empty" THEN composed \cup fallback
                                   ELSE IF shipped.by = Composer THEN {}
                                   ELSE composed \cup earlier
                        IN  /\ due \subseteq RejectedSolutions(r)
                            /\ shipped \notin RejectedSolutions(r)
      BY DEF NoCandidateSkipped
    <2>1. ShippedInv(r)
      BY DEF CompleteInv
    <2>2. QED
      BY <2>1 DEF ShippedInv, ComposedSolutions
  <1>2. QED
    BY <1>1, Completeness, PTL

\* With run_all_strategies every strategy has exactly one record when solve()
\* returns; without it the loop stopped at the only winner.
THEOREM AttemptsAreComplete == Spec => []AttemptsComplete
  <1>1. (\A r \in Requests : CompleteInv(r)) => AttemptsComplete
    <2> SUFFICES ASSUME NEW r \in Requests, CompleteInv(r), response[r].via = "pipeline"
                 PROVE  LET records(n) == {i \in DOMAIN attempts[r] :
                                             attempts[r][i].strategy = n}
                        IN  IF RunAll
                            THEN \A n \in Strategies : \E i \in records(n) : records(n) = {i}
                            ELSE \A m, n \in winning[r] : m = n
      BY DEF AttemptsComplete
    <2>1. CASE ~RunAll
      BY <2>1 DEF CompleteInv, LoopInv
    <2>2. CASE RunAll
      <3>1. ChainRecorded(r, Len(Chain))
        BY <2>2 DEF CompleteInv, LoopInv
      <3>2. QED
        BY <2>2, <3>1, ConfigAssumption, ChainFacts DEF ChainRecorded, Strategies
    <2>3. QED
      BY <2>1, <2>2
  <1>2. QED
    BY <1>1, Completeness, PTL

-----------------------------------------------------------------------------
(* For every deployment: the wiring meets what SolvePipeline assumes of    *)
(* its constants, and where the salvage falls short of the chain.          *)

Names(s) == {s[i] : i \in DOMAIN s}
Known == {Router, NaiveName, Bipartite, MultiParty, LongTail, JointClearing}

\* A chain that starts with the router and names each of these once.
ChainOf(s, names) ==
    /\ s \in Seq(Known) /\ s # <<>> /\ s[1] = Router
    /\ \A i, j \in DOMAIN s : s[i] = s[j] => i = j
    /\ Names(s) = names

If(condition, names) == IF condition THEN names ELSE {}

\* Appending a new name, or not, leaves a chain.
LEMMA AppendKeepsChain ==
    ASSUME NEW s, NEW names, ChainOf(s, names), NEW c \in BOOLEAN,
           NEW x \in Known, x \notin names
    PROVE  ChainOf(AppendIf(s, c, x), names \cup If(c, {x}))
  <1>1. CASE ~c
    BY <1>1 DEF AppendIf, If, ChainOf
  <1>2. CASE c
    <2> DEFINE t == Append(s, x)
    <2>1. s \in Seq(Known) /\ Len(s) \in Nat \ {0} /\ s[1] = Router /\ DOMAIN s = 1..Len(s)
      BY DEF ChainOf
    <2>2. /\ t \in Seq(Known) /\ t # <<>> /\ DOMAIN t = 1..(Len(s) + 1)
          /\ t[Len(s) + 1] = x
          /\ \A i \in DOMAIN s : t[i] = s[i]
      BY <2>1, AppendProperties
    <2>3. \A i \in DOMAIN s : s[i] # x
      BY DEF ChainOf, Names
    <2>4. \A i, j \in DOMAIN t : t[i] = t[j] => i = j
      BY <2>1, <2>2, <2>3 DEF ChainOf
    <2>5. Names(t) = names \cup {x}
      <3>1. Names(t) = Names(s) \cup {x}
        BY <2>1, <2>2 DEF Names
      <3>2. QED
        BY <3>1 DEF ChainOf
    <2>6. t[1] = Router
      BY <2>1, <2>2
    <2>7. QED
      BY <1>2, <2>2, <2>4, <2>5, <2>6 DEF AppendIf, If, ChainOf
  <1>3. QED
    BY <1>1, <1>2

\* The chain starts with the router and names the strategies wired, once each.
LEMMA ChainNames ==
    ASSUME NEW d \in Deployments
    PROVE  ChainOf(StrategyChain(d),
                   {Router, NaiveName} \cup If(d.edge, {Bipartite})
                     \cup If(d.edge, {MultiParty}) \cup If(d.edge /\ d.longTail, {LongTail})
                     \cup If(d.jointClearing, {JointClearing}))
  <1> DEFINE s1 == AppendIf(<<Router, NaiveName>>, d.edge, Bipartite)
             n1 == {Router, NaiveName} \cup If(d.edge, {Bipartite})
             s2 == AppendIf(s1, d.edge, MultiParty)
             n2 == n1 \cup If(d.edge, {MultiParty})
             s3 == AppendIf(s2, d.edge /\ d.longTail, LongTail)
             n3 == n2 \cup If(d.edge /\ d.longTail, {LongTail})
  <1>1. d.edge \in BOOLEAN /\ d.longTail \in BOOLEAN /\ d.jointClearing \in BOOLEAN
    BY DEF Deployments
  <1>2. ChainOf(<<Router, NaiveName>>, {Router, NaiveName})
    BY DEF ChainOf, Names, Known, Router, NaiveName
  <1>3. ChainOf(s1, n1)
    <2>1. Bipartite \in Known /\ Bipartite \notin {Router, NaiveName}
      BY DEF Known, Bipartite, Router, NaiveName
    <2>2. QED
      BY <1>1, <1>2, <2>1, AppendKeepsChain
  <1>4. ChainOf(s2, n2)
    <2>1. MultiParty \in Known /\ MultiParty \notin n1
      BY DEF Known, MultiParty, Bipartite, Router, NaiveName, If
    <2> HIDE DEF s1, n1
    <2>2. QED
      BY <1>1, <1>3, <2>1, AppendKeepsChain
  <1>5. ChainOf(s3, n3)
    <2>1. LongTail \in Known /\ LongTail \notin n2
      BY DEF Known, LongTail, MultiParty, Bipartite, Router, NaiveName, If
    <2>2. (d.edge /\ d.longTail) \in BOOLEAN
      OBVIOUS
    <2> HIDE DEF s2, n2
    <2>3. QED
      BY <1>4, <2>1, <2>2, AppendKeepsChain
  <1>6. ChainOf(AppendIf(s3, d.jointClearing, JointClearing),
                n3 \cup If(d.jointClearing, {JointClearing}))
    <2>1. JointClearing \in Known /\ JointClearing \notin n3
      BY DEF Known, JointClearing, LongTail, MultiParty, Bipartite, Router, NaiveName, If
    <2> HIDE DEF s3, n3
    <2>2. QED
      BY <1>1, <1>5, <2>1, AppendKeepsChain
  <1>7. QED
    BY <1>6 DEF StrategyChain

\* The names the salvage knows.
LEMMA SalvageNames == Names(SalvageOrderOf) = {Router, Bipartite, MultiParty}
  BY DEF Names, SalvageOrderOf

\* Whatever the settings and whatever can be imported: the router has the
\* first share of the deadline, no strategy is registered twice (records are
\* found by name), none takes the name of a record that is no strategy's,
\* and the salvage does not know naive.
THEOREM WiringIsSound ==
    ASSUME NEW d \in Deployments
    PROVE  LET c == StrategyChain(d) IN
           /\ c \in Seq(Known) /\ c # <<>> /\ c[1] = Router
           /\ \A i, j \in DOMAIN c : c[i] = c[j] => i = j
           /\ SalvageOrderOf \in Seq(Known) /\ NaiveName \notin Names(SalvageOrderOf)
           /\ {"composer", "ebbo-rejected", "feasibility-rejected"}
                \cap (Names(c) \cup Names(SalvageOrderOf)) = {}
  <1>1. SalvageOrderOf \in Seq(Known)
    BY DEF SalvageOrderOf, Known
  <1>2. NaiveName \notin Names(SalvageOrderOf)
    BY SalvageNames DEF NaiveName, Router, Bipartite, MultiParty
  <1>3. {"composer", "ebbo-rejected", "feasibility-rejected"}
          \cap (Names(StrategyChain(d)) \cup Names(SalvageOrderOf)) = {}
    BY ChainNames, SalvageNames
    DEF ChainOf, If, Router, NaiveName, Bipartite, MultiParty, LongTail, JointClearing
  <1>4. QED
    BY <1>1, <1>2, <1>3, ChainNames DEF ChainOf

\* What a timed-out solve cannot salvage of the competing strategies: the
\* long-tail router and joint clearing, wherever they are wired, and no
\* other.
THEOREM SalvageBlindSpot ==
    ASSUME NEW d \in Deployments
    PROVE  (Names(StrategyChain(d)) \ {NaiveName}) \ Names(SalvageOrderOf) =
               If(d.edge /\ d.longTail, {LongTail}) \cup If(d.jointClearing, {JointClearing})
  BY ChainNames, SalvageNames
  DEF ChainOf, If, Router, NaiveName, Bipartite, MultiParty, LongTail, JointClearing
=============================================================================
