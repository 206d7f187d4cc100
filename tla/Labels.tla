--------------------------------- MODULE Labels ---------------------------------
(***************************************************************************)
(* What the classifier is trained on: the outcomes of tokens in auctions   *)
(* (src/src/shadow/token_outcomes.py, persist.py), and the labels and      *)
(* features that the GoPlus service gives for them                         *)
(* (src/scripts/auto_seed_labels.py, seed_scam_labels.py).                 *)
(***************************************************************************)
EXTENDS Integers, SequencesExt

CONSTANTS
    Tokens,
    Entries,        \* what GoPlus may answer for a token
    SeedBatch,      \* --batch-size
    MaxAttempts,    \* MAX_RETRY_ATTEMPTS
    KnownScams,     \* KNOWN_SCAM_TOKENS
    MaxObserved     \* bound: auctions with an outcome

\* An entry is [honeypot, cannotBuy, openSource, tax, proxy], each field "1",
\* "0" or "none" when it is missing; tax is in hundredths, Unknown when missing.
Flag == {"1", "0", "none"}
Unknown == -1
NoEntry == [honeypot |-> "none", cannotBuy |-> "none", openSource |-> "none", tax |-> Unknown,
            proxy |-> "none"]

ASSUME LabelsAssumption ==
    /\ \A e \in Entries : e.honeypot \in Flag /\ e.cannotBuy \in Flag /\ e.openSource \in Flag
                          /\ e.proxy \in Flag /\ e.tax \in Int
    /\ MaxAttempts \in Nat \ {0} /\ SeedBatch \in Nat \ {0}

VARIABLES
    features,       \* token -> its row of token_features; the tokens without one are absent
    outcomes,       \* the rows of token_outcomes, equal ones once: [token, winner, ours, revert]
    observed,       \* auctions stored, the anchors of labels
    seeder          \* the run of auto_seed_labels under way

labelVars == <<features, outcomes, observed, seeder>>

NoRun == [stage |-> "idle", left |-> <<>>, attempt |-> 1, verdicts |-> {}, found |-> <<>>]
Blank == [proxy |-> "none", tax |-> Unknown, transferTax |-> "none"]

LabelsInit ==
    /\ features \in {[t \in known |-> Blank] : known \in SUBSET Tokens}
    /\ outcomes = {} /\ observed = 0 /\ seeder = NoRun

-----------------------------------------------------------------------------
(* The outcomes of an auction.                                             *)

\* A winner whose tokens are not known vouches for every token.
ExtractTokenOutcomes(tokens, won, winnerTokens, ourTokens) ==
    LET vouched == IF won /\ winnerTokens = {} THEN tokens ELSE winnerTokens
    IN  {[token |-> t, winner |-> t \in vouched, ours |-> t \in ourTokens, revert |-> FALSE] :
            t \in tokens}

PersistOutcomes ==
    /\ observed < MaxObserved /\ observed' = observed + 1
    /\ \E tokens \in SUBSET Tokens : \E winnerTokens, ourTokens \in SUBSET tokens, won \in BOOLEAN :
          /\ won \/ winnerTokens = {}
          /\ outcomes' = outcomes \cup ExtractTokenOutcomes(tokens, won, winnerTokens, ourTokens)
    /\ UNCHANGED <<features, seeder>>

-----------------------------------------------------------------------------
(* auto_seed_labels.                                                       *)

IsScam(e) == e.honeypot = "1" \/ e.cannotBuy = "1"
IsLegit(e) ==
    /\ e.honeypot = "0" /\ e.openSource = "1" /\ e.cannotBuy \in {"none", "0"}
    /\ e.tax < 5

\* One sign of a scam is enough; legit needs all the evidence.
ClassifyOne(e) ==
    IF IsScam(e) THEN "scam" ELSE IF IsLegit(e) THEN "legit" ELSE "skip"

\* The columns worth keeping; a tax above the whole is clipped.
ExtractSecurityFeatures(e) ==
    [proxy |-> e.proxy, tax |-> IF e.tax > 100 THEN 100 ELSE e.tax]
NothingKnown == [proxy |-> "none", tax |-> Unknown]

ConfirmedScam == {o.token : o \in {p \in outcomes : p.revert}}
Unlabeled == DOMAIN features \ ConfirmedScam

\* A run takes tokens in no order; without an auction to refer to it ends.
StartSeed ==
    /\ seeder = NoRun /\ Unlabeled # {} /\ observed > 0
    /\ \E picked \in SUBSET Unlabeled :
          /\ Cardinality(picked) = IF Cardinality(Unlabeled) < SeedBatch
                                   THEN Cardinality(Unlabeled) ELSE SeedBatch
          /\ seeder' = [NoRun EXCEPT !.stage = "asking", !.left = SetToSeq(picked)]
    /\ UNCHANGED <<features, outcomes, observed>>

\* The verdict on the first token left, and what is known of it.
Verdict(kind, known) ==
    LET t == Head(seeder.left)
        left == Tail(seeder.left)
        found == seeder.found
    IN  seeder' = [seeder EXCEPT
            !.left = left, !.attempt = 1,
            !.stage = IF left = <<>> THEN "labels" ELSE "asking",
            !.verdicts = @ \cup {<<t, kind>>},
            !.found = IF known = NothingKnown THEN @
                      ELSE [u \in DOMAIN found \cup {t} |-> IF u = t THEN known ELSE found[u]]]

\* GoPlus answers; it may not know the token.
Answered ==
    /\ seeder.stage = "asking"
    /\ \E e \in Entries \cup {NoEntry} : Verdict(ClassifyOne(e), ExtractSecurityFeatures(e))
    /\ UNCHANGED <<features, outcomes, observed>>

\* A rate limit, as a status or as a code in the body: wait and ask again,
\* MaxAttempts times.
RateLimited ==
    /\ seeder.stage = "asking"
    /\ IF seeder.attempt < MaxAttempts THEN seeder' = [seeder EXCEPT !.attempt = @ + 1]
       ELSE Verdict("error", NothingKnown)
    /\ UNCHANGED <<features, outcomes, observed>>

\* A timeout, a network error, any other status, a body that is no JSON.
AskFails ==
    /\ seeder.stage = "asking" /\ Verdict("error", NothingKnown)
    /\ UNCHANGED <<features, outcomes, observed>>

Label(t, kind) == [token |-> t, winner |-> kind = "legit", ours |-> FALSE, revert |-> kind = "scam"]

WriteLabels ==
    /\ seeder.stage = "labels"
    /\ outcomes' = outcomes \cup {Label(v[1], v[2]) :
                                     v \in {w \in seeder.verdicts : w[2] \in {"scam", "legit"}}}
    /\ seeder' = [seeder EXCEPT !.stage = "features"]
    /\ UNCHANGED <<features, observed>>

\* Variant: what the answer does not say is written too.
MergedWithNulls(row, known) == [row EXCEPT !.proxy = known.proxy, !.tax = known.tax]

\* Only what the answer says overwrites the row.
Merged(row, known) ==
    [row EXCEPT !.proxy = IF known.proxy = "none" THEN @ ELSE known.proxy,
                !.tax = IF known.tax = Unknown THEN @ ELSE known.tax]

RowOf(t) == IF t \in DOMAIN features THEN features[t] ELSE Blank

UpsertSecurityFeatures ==
    /\ seeder.stage = "features"
    /\ features' = [t \in DOMAIN features \cup DOMAIN seeder.found |->
                       IF t \in DOMAIN seeder.found THEN Merged(RowOf(t), seeder.found[t])
                                                    ELSE features[t]]
    /\ seeder' = NoRun
    /\ UNCHANGED <<outcomes, observed>>

\* The run dies, or a write fails: main_async swallows it; what was
\* committed stays.
SeedDies ==
    /\ seeder # NoRun /\ seeder' = NoRun
    /\ UNCHANGED <<features, outcomes, observed>>

-----------------------------------------------------------------------------
(* seed_scam_labels, run by hand.                                          *)

\* The tax counts from ten times the whole here.
IsTaxed(e) == e.honeypot = "1" \/ e.tax >= 1000

\* GoPlus may leave tokens out of its answer; those it flags are marked.
CheckAndFlagExisting ==
    /\ \E flagged \in SUBSET DOMAIN features :
          /\ flagged = {} \/ \E e \in Entries : IsTaxed(e)
          /\ features' = [t \in DOMAIN features |->
                IF t \in flagged THEN [features[t] EXCEPT !.transferTax = "1"] ELSE features[t]]
    /\ UNCHANGED <<outcomes, observed, seeder>>

\* Each injected token comes with outcomes of auctions with negative ids. The
\* foreign key of token_outcomes wants auctions that exist: where it holds,
\* the transaction fails and takes the features along.
InjectKnownScamTokens ==
    LET fresh == KnownScams \ DOMAIN features
        referred == {-n : n \in 1..Cardinality(fresh)}
    IN  /\ fresh # {}
        /\ IF referred \subseteq 1..observed
           THEN /\ features' = [t \in DOMAIN features \cup fresh |->
                      IF t \in fresh THEN [Blank EXCEPT !.transferTax = "1"] ELSE features[t]]
                /\ outcomes' = outcomes \cup {Label(t, "scam") : t \in fresh}
           ELSE UNCHANGED <<features, outcomes>>
        /\ UNCHANGED <<observed, seeder>>

-----------------------------------------------------------------------------
LabelsNext ==
    \/ PersistOutcomes \/ StartSeed \/ Answered \/ RateLimited \/ AskFails
    \/ WriteLabels \/ UpsertSecurityFeatures \/ SeedDies \/ CheckAndFlagExisting
    \/ InjectKnownScamTokens

-----------------------------------------------------------------------------
(* Properties.                                                             *)

\* What is known of a token is not forgotten: a column of its features may
\* change but never become empty again, a scam stays a scam, whatever later
\* runs, partial answers, rate limits and deaths of a run do.
KnowledgeIsKept ==
    [][/\ ConfirmedScam \subseteq ConfirmedScam'
       /\ \A t \in DOMAIN features :
             /\ t \in DOMAIN features'
             /\ \A c \in {"proxy", "tax", "transferTax"} :
                   features[t][c] # Blank[c] => features'[t][c] # Blank[c]]_labelVars
=============================================================================
