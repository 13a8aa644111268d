------------------------- MODULE ScrapeClientProofs -------------------------
(***************************************************************************)
(* Proofs about ScrapeClient, for any number of items and URLs and any     *)
(* concurrency.                                                            *)
(***************************************************************************)
EXTENDS ScrapeClient, FiniteSetTheorems, TLAPS

-----------------------------------------------------------------------------
(* Counting items by their stage *)

\* The number of items in one of the stages X.
Count(X) == Cardinality({i \in Items : stage[i] \in X})

Working == {"testing", "polling", "answered"}

LEMMA ItemsAreFinite == IsFiniteSet(Items) /\ Cardinality(Items) = JobCount
  BY FS_Interval, ClientAssumption DEF Items

LEMMA CountIsNatural ==
    ASSUME NEW X
    PROVE  Count(X) \in Nat /\ Count(X)' \in Nat
  <1>1. ASSUME NEW S \in SUBSET Items PROVE Cardinality(S) \in Nat
    BY ItemsAreFinite, FS_Subset, FS_CardinalityType
  <1>2. QED BY <1>1 DEF Count

\* By how much the number of items in X changes when one goes from stage
\* `from' to stage `to'.
Gain(X, from, to) == CASE from \in X /\ to \notin X -> 0 - 1
                       [] from \notin X /\ to \in X -> 1
                       [] OTHER -> 0

\* An item that changes its stage changes the numbers of the two stages only.
LEMMA GoesCounts ==
    ASSUME NEW i \in Items, NEW s, NEW X, stage \in [Items -> Waiting \cup Outcomes \cup {"todo", "unused"}],
           Goes(i, s)
    PROVE  Count(X)' = Count(X) + Gain(X, stage[i], s)
  <1> DEFINE before == {k \in Items : stage[k] \in X}
             after  == {k \in Items : stage'[k] \in X}
  <1>1. IsFiniteSet(before) /\ Cardinality(before) \in Nat
    BY ItemsAreFinite, FS_Subset, FS_CardinalityType
  <1>2. stage'[i] = s /\ \A k \in Items \ {i} : stage'[k] = stage[k]
    BY DEF Goes
  <1>3. Count(X) = Cardinality(before) /\ Count(X)' = Cardinality(after)
    BY DEF Count
  <1>4. stage[i] \in X /\ s \notin X => after = before \ {i} /\ i \in before
    BY <1>2
  <1>5. stage[i] \notin X /\ s \in X => after = before \cup {i} /\ i \notin before
    BY <1>2
  <1>6. (stage[i] \in X <=> s \in X) => after = before
    BY <1>2
  <1> HIDE DEF before, after
  <1>7. CASE stage[i] \in X /\ s \notin X
    <2>1. Cardinality(after) = Cardinality(before) - 1
      BY <1>1, <1>4, <1>7, FS_RemoveElement
    <2>2. QED BY <1>1, <1>3, <1>7, <2>1 DEF Gain
  <1>8. CASE stage[i] \notin X /\ s \in X
    <2>1. Cardinality(after) = Cardinality(before) + 1
      BY <1>1, <1>5, <1>8, FS_AddElement
    <2>2. QED BY <1>1, <1>3, <1>8, <2>1 DEF Gain
  <1>9. CASE stage[i] \in X <=> s \in X
    <2>1. Gain(X, stage[i], s) = 0
      BY <1>9 DEF Gain
    <2>2. QED BY <1>1, <1>3, <1>6, <1>9, <2>1
  <1>10. QED BY <1>7, <1>8, <1>9

LEMMA GoesBeside ==
    ASSUME NEW i \in Items, NEW s, NEW X, stage \in [Items -> Waiting \cup Outcomes \cup {"todo", "unused"}],
           Goes(i, s), Gain(X, stage[i], s) = 0
    PROVE  Count(X)' = Count(X)
  BY GoesCounts, CountIsNatural

LEMMA SetsAsCounts ==
    /\ Cardinality(Todo) = Count({"todo"})
    /\ Cardinality(Active) = Count(Waiting)
    /\ Cardinality(Settled) = Count(Outcomes)
    /\ Cardinality(InWork) = Count(Working)
    /\ \A outcome : Counts(outcome) = Count({outcome})
  <1>1. /\ Todo = {i \in Items : stage[i] \in {"todo"}}
        /\ \A outcome : {i \in Items : stage[i] = outcome} = {i \in Items : stage[i] \in {outcome}}
    BY DEF Todo
  <1>2. QED BY <1>1 DEF Count, Active, Settled, InWork, Working, Counts

LEMMA SetsAsCountsAfter ==
    /\ Cardinality(Todo') = Count({"todo"})'
    /\ Cardinality(Active') = Count(Waiting)'
    /\ Cardinality(Settled') = Count(Outcomes)'
    /\ Cardinality(InWork') = Count(Working)'
    /\ \A outcome : Counts(outcome)' = Count({outcome})'
  <1>1. /\ Todo' = {i \in Items : stage'[i] \in {"todo"}}
        /\ \A outcome : {i \in Items : stage'[i] = outcome} = {i \in Items : stage'[i] \in {outcome}}
    BY DEF Todo
  <1>2. QED BY <1>1 DEF Count, Active, Settled, InWork, Working, Counts

-----------------------------------------------------------------------------
(* The metrics *)

Fields == {"acceptedJobs", "completedRuns", "completedJobs", "failedJobs",
           "timedOutJobs", "submitErrors", "failures"}

LEMMA MetricsDomain == DOMAIN NoMetrics = Fields
  BY DEF NoMetrics, Fields

\* What the end of an item does to each of the metrics.
LEMMA CountedMetrics ==
    ASSUME metrics \in [Fields -> Nat], NEW outcome \in Outcomes, metrics' = Counted(outcome)
    PROVE  /\ metrics' \in [Fields -> Nat]
           /\ metrics'.acceptedJobs = metrics.acceptedJobs
           /\ metrics'.completedRuns = Inc(metrics.completedRuns, outcome \in {"completed", "failed"})
           /\ metrics'.completedJobs = Inc(metrics.completedJobs, outcome = "completed")
           /\ metrics'.failedJobs = Inc(metrics.failedJobs, outcome = "failed")
           /\ metrics'.timedOutJobs = Inc(metrics.timedOutJobs, outcome = "timedOut")
           /\ metrics'.submitErrors = Inc(metrics.submitErrors, outcome = "submitError")
           /\ metrics'.failures = Inc(metrics.failures, outcome # "completed")
  BY DEF Fields, Counted, Inc

-----------------------------------------------------------------------------
(* The types *)

\* The part of TypeOK that each step keeps for itself.
Types ==
    /\ status \in [Jobs -> Statuses]
    /\ requested \subseteq Jobs
    /\ stress \in BOOLEAN
    /\ stage \in [Items -> Waiting \cup Outcomes \cup {"todo", "unused"}]
    /\ answer \in [Items -> Statuses]
    /\ late \subseteq Items
    /\ metrics \in [Fields -> Nat]
    /\ exitCode \in {"running", "success", "failure"}
    /\ seen \subseteq Items

LEMMA JobOfItem ==
    ASSUME NEW i \in Items
    PROVE  JobOf(i) \in Jobs
  BY ClientAssumption DEF Jobs, JobOf, Items

LEMMA TypeOKGivesTypes == TypeOK => Types
  BY MetricsDomain DEF TypeOK, Types

LEMMA InitTypes == Init => Types
  BY MetricsDomain DEF Init, Service!Init, Types, Statuses, Waiting, Outcomes, NoMetrics, Fields

\* A step of the service or of one of its users.
LEMMA ServiceTypes ==
    ASSUME Types, Service!Next
    PROVE  status' \in [Jobs -> Statuses] /\ requested' \subseteq Jobs
  BY DEF Types, Statuses, Service!Next, Service!Submit, Service!Request, Service!Enqueue,
     Service!Process, Service!Finish, Service!Expire, Service!Delete, Service!Move

LEMMA EndsTypes ==
    ASSUME Types, NEW i \in Items, NEW outcome \in Outcomes, Ends(i, outcome)
    PROVE  /\ stage' \in [Items -> Waiting \cup Outcomes \cup {"todo", "unused"}]
           /\ late' \subseteq Items
           /\ metrics' \in [Fields -> Nat]
           /\ exitCode' \in {"running", "success", "failure"}
  <1>1. CASE stress
    BY <1>1, CountedMetrics DEF Types, Ends, Goes
  <1>2. CASE ~stress
    BY <1>2 DEF Types, Ends, Goes, Waiting
  <1>3. QED BY <1>1, <1>2

LEMMA ItemTypes ==
    ASSUME Types, NEW i \in Items, ItemStep(i) \/ RequestFails(i) \/ TimeIsUp(i), Observes
    PROVE  Types'
  <1> USE JobOfItem DEF Types
  <1>0. seen' \subseteq Items
    BY DEF Observes
  <1>1. CASE Start(i)
    BY <1>0, <1>1 DEF Start, Goes, serviceVars, Waiting
  <1>2. CASE SubmitExecutes(i)
    BY <1>0, <1>2 DEF SubmitExecutes, Goes, serviceVars, Waiting, Statuses, Service!Submit, Service!Move
  <1>3. CASE Accepted(i)
    <2>1. metrics' \in [Fields -> Nat]
      BY <1>3 DEF Accepted, Fields
    <2>2. QED BY <1>0, <1>3, <2>1 DEF Accepted, Goes, serviceVars, Waiting
  <1>4. CASE Polled(i)
    BY <1>0, <1>4 DEF Polled, Goes, serviceVars, Waiting
  <1>5. CASE Answered(i)
    <2>1. answer' \in [Items -> Statuses] /\ UNCHANGED <<serviceVars, stress>>
      BY <1>5 DEF Answered, Statuses
    <2>2. \/ \E outcome \in Outcomes : Ends(i, outcome)
          \/ Continues(i, "testing")
      BY <1>5 DEF Answered, Outcomes
    <2>3. QED BY <1>0, <2>1, <2>2, EndsTypes DEF Continues, Goes, serviceVars, Waiting
  <1>6. CASE TestsDeadline(i)
    <2>1. Ends(i, "timedOut") \/ Continues(i, "polling")
      BY <1>6 DEF TestsDeadline, PollsOrGivesUp
    <2>2. QED BY <1>0, <1>6, <2>1, EndsTypes
              DEF TestsDeadline, Continues, Goes, serviceVars, Waiting, Outcomes
  <1>7. CASE Resolves(i)
    BY <1>0, <1>7 DEF Resolves, Goes, serviceVars, Outcomes
  <1>8. CASE RequestFails(i)
    BY <1>0, <1>8, EndsTypes DEF RequestFails, serviceVars, Outcomes, Statuses
  <1>9. CASE TimeIsUp(i)
    BY <1>0, <1>9 DEF TimeIsUp, serviceVars
  <1>10. QED BY <1>1, <1>2, <1>3, <1>4, <1>5, <1>6, <1>7, <1>8, <1>9 DEF ItemStep

LEMMA TypesStep ==
    ASSUME Types, [Next]_vars
    PROVE  Types'
  <1>1. CASE ServiceStep /\ Observes
    BY <1>1, ServiceTypes DEF Types, ServiceStep, Observes
  <1>2. CASE StressEnds /\ Observes
    BY <1>2 DEF Types, StressEnds, Observes, serviceVars
  <1>3. CASE \E i \in Items : (ItemStep(i) \/ RequestFails(i) \/ TimeIsUp(i)) /\ Observes
    BY <1>3, ItemTypes
  <1>4. CASE UNCHANGED vars
    BY <1>4 DEF Types, vars, serviceVars
  <1>5. QED BY <1>1, <1>2, <1>3, <1>4 DEF Next, ClientStep, Exited

-----------------------------------------------------------------------------
(* Where the items are, and what the client has seen *)

LEMMA InitPlaces == Init => Places /\ Evidence /\ ExitIsEarned
  BY DEF Init, Places, Evidence, ExitIsEarned, Items

\* A step of the client changes the stage of item i at most.
LEMMA OneItem ==
    ASSUME Types, NEW i \in Items, ItemStep(i) \/ RequestFails(i) \/ TimeIsUp(i)
    PROVE  /\ stress' = stress
           /\ \A k \in Items \ {i} : stage'[k] = stage[k] /\ answer'[k] = answer[k]
           /\ exitCode = "running"
  <1> USE DEF Types, Goes
  <1>1. CASE Start(i) \/ SubmitExecutes(i) \/ Accepted(i) \/ Polled(i) \/ TimeIsUp(i)
    BY <1>1 DEF Start, SubmitExecutes, Accepted, Polled, TimeIsUp, Running
  <1>2. CASE Answered(i)
    BY <1>2 DEF Answered, Ends, Continues, Running
  <1>3. CASE TestsDeadline(i) \/ Resolves(i)
    BY <1>3 DEF TestsDeadline, PollsOrGivesUp, Resolves, Ends, Continues, Running
  <1>4. CASE RequestFails(i)
    BY <1>4 DEF RequestFails, Ends, Running
  <1>5. QED BY <1>1, <1>2, <1>3, <1>4 DEF ItemStep

LEMMA PlacesStep ==
    ASSUME Types, Places, NEW i \in Items,
           ItemStep(i) \/ RequestFails(i) \/ TimeIsUp(i)
    PROVE  Places'
  <1>1. stage[i] # "unused"
    BY DEF ItemStep, Start, Todo, SubmitExecutes, Accepted, Polled, Answered, TestsDeadline,
           Resolves, RequestFails, TimeIsUp, Active, Waiting
  <1>2. CASE stress
    <2>1. stage[i] \notin {"unused", "resolving"}
      BY <1>2 DEF Places
    <2>2. stage'[i] \notin {"unused", "resolving"}
      <3> USE <1>2, <2>1 DEF Types, Goes
      <3>1. CASE Start(i) \/ SubmitExecutes(i) \/ Accepted(i) \/ Polled(i) \/ TimeIsUp(i)
        BY <3>1 DEF Start, SubmitExecutes, Accepted, Polled, TimeIsUp
      <3>2. CASE Answered(i)
        BY <3>2 DEF Answered, Ends, Continues
      <3>3. CASE TestsDeadline(i) \/ Resolves(i)
        BY <3>3 DEF TestsDeadline, PollsOrGivesUp, Resolves, Ends, Continues
      <3>4. CASE RequestFails(i)
        BY <3>4 DEF RequestFails, Ends
      <3>5. QED BY <3>1, <3>2, <3>3, <3>4 DEF ItemStep
    <2>3. QED BY <1>2, <2>2, OneItem DEF Places
  <1>3. CASE ~stress
    <2>1. i = 0
      BY <1>1, <1>3 DEF Places
    <2>2. metrics' = metrics
      BY <1>3 DEF ItemStep, Start, SubmitExecutes, Accepted, Polled, Answered, TestsDeadline,
             PollsOrGivesUp, Resolves, RequestFails, TimeIsUp, Ends, Continues
    <2>3. \A k \in Items \ {0} : stage'[k] = "unused"
      BY <1>3, <2>1, OneItem DEF Places
    <2>4. ~stress' /\ metrics' = NoMetrics
      BY <1>3, <2>2, OneItem DEF Places
    <2>5. QED BY <2>3, <2>4 DEF Places
  <1>4. QED BY <1>2, <1>3

\* Only the answer COMPLETED leads on to the stages that need evidence.
LEMMA EvidenceStep ==
    ASSUME Types, Evidence, NEW i \in Items,
           ItemStep(i) \/ RequestFails(i) \/ TimeIsUp(i), Observes
    PROVE  Evidence'
  <1>1. seen \subseteq seen'
    BY DEF Observes
  <1>2. \/ stage'[i] \in {"resolving", "completed"}
        \/ stage'[i] = "answered" /\ answer'[i] = "COMPLETED"
        => i \in seen'
    <2> USE <1>1 DEF Types, Goes, Evidence
    <2>1. CASE Start(i)
      BY <2>1 DEF Start, Todo
    <2>2. CASE SubmitExecutes(i) \/ Accepted(i) \/ TimeIsUp(i)
      BY <2>2 DEF SubmitExecutes, Accepted, TimeIsUp
    <2>3. CASE Polled(i)
      BY <2>3 DEF Polled, Observes, serviceVars
    <2>4. CASE Answered(i)
      BY <2>4 DEF Answered, Ends, Continues
    <2>5. CASE TestsDeadline(i)
      BY <2>5 DEF TestsDeadline, PollsOrGivesUp, Ends, Continues
    <2>6. CASE Resolves(i)
      BY <2>6 DEF Resolves
    <2>7. CASE RequestFails(i)
      BY <2>7 DEF RequestFails, Ends
    <2>8. QED BY <2>1, <2>2, <2>3, <2>4, <2>5, <2>6, <2>7 DEF ItemStep
  <1>3. QED BY <1>1, <1>2, OneItem DEF Evidence

\* Only the single run, which has one item, ends with the step of an item.
LEMMA ExitStep ==
    ASSUME Types, Places, ExitIsEarned, NEW i \in Items,
           ItemStep(i) \/ RequestFails(i) \/ TimeIsUp(i)
    PROVE  ExitIsEarned'
  <1>1. CASE Resolves(i)
    <2>1. ~stress /\ i = 0
      BY <1>1 DEF Resolves, Places
    <2>2. stage'[0] = "completed"
      BY <1>1, <2>1 DEF Resolves, Goes, Types
    <2>3. \A k \in Items \ {0} : stage'[k] = "unused"
      BY <2>1, OneItem DEF Places
    <2>4. QED BY <2>2, <2>3 DEF ExitIsEarned
  <1>2. CASE ~Resolves(i)
    <2>1. exitCode' # "success"
      BY <1>2, OneItem DEF ItemStep, Start, SubmitExecutes, Accepted, Polled, Answered, TestsDeadline,
             PollsOrGivesUp, RequestFails, TimeIsUp, Ends, Continues
    <2>2. QED BY <2>1 DEF ExitIsEarned
  <1>3. QED BY <1>1, <1>2

-----------------------------------------------------------------------------
(* The books of a durability run *)

\* Tally, in numbers of items by stage.
Books ==
    /\ Count({"todo"}) + Count(Waiting) + Count(Outcomes) = JobCount
    /\ Count(Outcomes) = Count({"completed"}) + Count({"failed"})
                            + Count({"timedOut"}) + Count({"submitError"})
    /\ metrics.completedJobs = Count({"completed"})
    /\ metrics.failedJobs = Count({"failed"})
    /\ metrics.timedOutJobs = Count({"timedOut"})
    /\ metrics.submitErrors = Count({"submitError"})
    /\ metrics.completedRuns = metrics.completedJobs + metrics.failedJobs
    /\ metrics.failures = metrics.failedJobs + metrics.timedOutJobs + metrics.submitErrors
    /\ Count(Working) + metrics.completedRuns + metrics.timedOutJobs <= metrics.acceptedJobs
    /\ metrics.acceptedJobs
         <= Count(Working) + metrics.completedRuns + metrics.timedOutJobs + metrics.submitErrors

LEMMA TallyIsBooks == Tally <=> (stress => Books)
  BY SetsAsCounts DEF Tally, Books, FailureCount

LEMMA TallyIsBooksAfter == Tally' <=> (stress' => Books')
  BY SetsAsCountsAfter DEF Tally, Books, FailureCount

\* The step of an item between two stages of work on it.
LEMMA BooksKept ==
    ASSUME Types, Books, metrics' = metrics, NEW i \in Items, NEW s \in Waiting, Goes(i, s),
           stage[i] \in Waiting, stage[i] \in Working <=> s \in Working
    PROVE  Books'
  <1>1. \A X \in {{"todo"}, Waiting, Outcomes, Working, {"completed"}, {"failed"},
                  {"timedOut"}, {"submitError"}} : Gain(X, stage[i], s) = 0
    BY DEF Gain, Waiting, Outcomes, Working
  <1>2. \A X \in {{"todo"}, Waiting, Outcomes, Working, {"completed"}, {"failed"},
                  {"timedOut"}, {"submitError"}} : Count(X)' = Count(X)
    BY <1>1, GoesBeside DEF Types
  <1>3. QED BY <1>2 DEF Books

LEMMA BooksOfStart ==
    ASSUME Types, Books, metrics' = metrics, NEW i \in Items, Goes(i, "submitting"),
           stage[i] = "todo"
    PROVE  Books'
  <1>1. \A X \in {Outcomes, Working, {"completed"}, {"failed"}, {"timedOut"}, {"submitError"}} :
            Gain(X, stage[i], "submitting") = 0
    BY DEF Gain, Outcomes, Working
  <1>2. /\ Gain({"todo"}, stage[i], "submitting") = 0 - 1
        /\ Gain(Waiting, stage[i], "submitting") = 1
    BY DEF Gain, Waiting
  <1>3. \A X \in {Outcomes, Working, {"completed"}, {"failed"}, {"timedOut"}, {"submitError"}} :
            Count(X)' = Count(X)
    BY <1>1, GoesBeside DEF Types
  <1>4. /\ Count({"todo"})' = Count({"todo"}) - 1
        /\ Count(Waiting)' = Count(Waiting) + 1
    BY <1>2, GoesCounts, CountIsNatural DEF Types
  <1>5. /\ Count({"todo"}) \in Nat
        /\ Count(Waiting) \in Nat
        /\ Count(Outcomes) \in Nat
    BY CountIsNatural
  <1>6. QED BY <1>3, <1>4, <1>5 DEF Books

LEMMA BooksOfAccepted ==
    ASSUME Types, Books, metrics' = [metrics EXCEPT !.acceptedJobs = @ + 1],
           NEW i \in Items, Goes(i, "testing"), stage[i] = "submitted"
    PROVE  Books'
  <1>1. \A X \in {{"todo"}, Waiting, Outcomes, {"completed"}, {"failed"},
                  {"timedOut"}, {"submitError"}} : Gain(X, stage[i], "testing") = 0
    BY DEF Gain, Outcomes, Waiting
  <1>2. Gain(Working, stage[i], "testing") = 1
    BY DEF Gain, Working
  <1>3. \A X \in {{"todo"}, Waiting, Outcomes, {"completed"}, {"failed"},
                  {"timedOut"}, {"submitError"}} : Count(X)' = Count(X)
    BY <1>1, GoesBeside DEF Types
  <1>4. Count(Working)' = Count(Working) + 1 /\ Count(Working) \in Nat
    BY <1>2, GoesCounts, CountIsNatural DEF Types
  <1>5. /\ metrics'.acceptedJobs = metrics.acceptedJobs + 1
        /\ metrics'.completedRuns = metrics.completedRuns
        /\ metrics'.completedJobs = metrics.completedJobs
        /\ metrics'.failedJobs = metrics.failedJobs
        /\ metrics'.timedOutJobs = metrics.timedOutJobs
        /\ metrics'.submitErrors = metrics.submitErrors
        /\ metrics'.failures = metrics.failures
    BY DEF Types, Fields
  <1>6. /\ metrics.acceptedJobs \in Nat
        /\ metrics.completedRuns \in Nat
        /\ metrics.timedOutJobs \in Nat
        /\ metrics.submitErrors \in Nat
    BY DEF Types, Fields
  <1>7. QED BY <1>3, <1>4, <1>5, <1>6 DEF Books

\* An item is over.  Only an error ends one that had not been acknowledged.
LEMMA BooksOfEnd ==
    ASSUME Types, Books, NEW i \in Items, NEW outcome \in Outcomes, Goes(i, outcome),
           metrics' = Counted(outcome), stage[i] \in Waiting,
           stage[i] \in Working \/ outcome = "submitError"
    PROVE  Books'
  <1>1. /\ Count({"todo"})' = Count({"todo"})
        /\ \A other \in Outcomes \ {outcome} : Count({other})' = Count({other})
        /\ Count({outcome})' = Count({outcome}) + 1
    <2>1. Gain({"todo"}, stage[i], outcome) = 0
      BY DEF Gain, Waiting, Outcomes
    <2>2. ASSUME NEW other \in Outcomes \ {outcome} PROVE Gain({other}, stage[i], outcome) = 0
      BY DEF Gain, Waiting, Outcomes
    <2>3. Gain({outcome}, stage[i], outcome) = 1
      BY DEF Gain, Waiting, Outcomes
    <2>4. Count({outcome})' = Count({outcome}) + 1
      BY <2>3, GoesCounts, CountIsNatural DEF Types
    <2>5. QED BY <2>1, <2>2, <2>4, GoesBeside DEF Types
  <1>2. /\ Count(Waiting)' = Count(Waiting) - 1
        /\ Count(Outcomes)' = Count(Outcomes) + 1
    <2>1. /\ Gain(Waiting, stage[i], outcome) = 0 - 1
          /\ Gain(Outcomes, stage[i], outcome) = 1
      BY DEF Gain, Waiting, Outcomes
    <2>2. QED BY <2>1, GoesCounts, CountIsNatural DEF Types
  <1>3. Count(Working)' = IF stage[i] \in Working THEN Count(Working) - 1 ELSE Count(Working)
    <2>1. CASE stage[i] \in Working
      <3>1. Gain(Working, stage[i], outcome) = 0 - 1
        BY <2>1 DEF Gain, Working, Outcomes
      <3>2. QED BY <2>1, <3>1, GoesCounts, CountIsNatural DEF Types
    <2>2. CASE stage[i] \notin Working
      <3>1. Gain(Working, stage[i], outcome) = 0
        BY <2>2 DEF Gain, Working, Outcomes
      <3>2. QED BY <2>2, <3>1, GoesBeside DEF Types
    <2>3. QED BY <2>1, <2>2
  <1>4. /\ Count({"todo"}) \in Nat /\ Count(Waiting) \in Nat /\ Count(Outcomes) \in Nat
        /\ Count(Working) \in Nat
        /\ Count({"completed"}) \in Nat /\ Count({"failed"}) \in Nat
        /\ Count({"timedOut"}) \in Nat /\ Count({"submitError"}) \in Nat
    BY CountIsNatural
  <1>5. /\ metrics.acceptedJobs \in Nat /\ metrics.completedRuns \in Nat
        /\ metrics.completedJobs \in Nat /\ metrics.failedJobs \in Nat
        /\ metrics.timedOutJobs \in Nat /\ metrics.submitErrors \in Nat
        /\ metrics.failures \in Nat
    BY DEF Types, Fields
  <1>6. CASE outcome = "completed"
    <2>1. /\ Count({"todo"})' = Count({"todo"})
          /\ Count({"completed"})' = Count({"completed"}) + 1
          /\ Count({"failed"})' = Count({"failed"})
          /\ Count({"timedOut"})' = Count({"timedOut"})
          /\ Count({"submitError"})' = Count({"submitError"})
      BY <1>1, <1>6 DEF Outcomes
    <2>2. /\ metrics'.acceptedJobs = metrics.acceptedJobs
          /\ metrics'.completedRuns = metrics.completedRuns + 1
          /\ metrics'.completedJobs = metrics.completedJobs + 1
          /\ metrics'.failedJobs = metrics.failedJobs
          /\ metrics'.timedOutJobs = metrics.timedOutJobs
          /\ metrics'.submitErrors = metrics.submitErrors
          /\ metrics'.failures = metrics.failures
      BY <1>6, CountedMetrics DEF Types, Inc
    <2>3. Count(Working)' = Count(Working) - 1
      BY <1>3, <1>6
    <2>4. QED BY <1>2, <1>4, <1>5, <2>1, <2>2, <2>3 DEF Books
  <1>7. CASE outcome = "failed"
    <2>1. /\ Count({"todo"})' = Count({"todo"})
          /\ Count({"completed"})' = Count({"completed"})
          /\ Count({"failed"})' = Count({"failed"}) + 1
          /\ Count({"timedOut"})' = Count({"timedOut"})
          /\ Count({"submitError"})' = Count({"submitError"})
      BY <1>1, <1>7 DEF Outcomes
    <2>2. /\ metrics'.acceptedJobs = metrics.acceptedJobs
          /\ metrics'.completedRuns = metrics.completedRuns + 1
          /\ metrics'.completedJobs = metrics.completedJobs
          /\ metrics'.failedJobs = metrics.failedJobs + 1
          /\ metrics'.timedOutJobs = metrics.timedOutJobs
          /\ metrics'.submitErrors = metrics.submitErrors
          /\ metrics'.failures = metrics.failures + 1
      BY <1>7, CountedMetrics DEF Types, Inc
    <2>3. Count(Working)' = Count(Working) - 1
      BY <1>3, <1>7
    <2>4. QED BY <1>2, <1>4, <1>5, <2>1, <2>2, <2>3 DEF Books
  <1>8. CASE outcome = "timedOut"
    <2>1. /\ Count({"todo"})' = Count({"todo"})
          /\ Count({"completed"})' = Count({"completed"})
          /\ Count({"failed"})' = Count({"failed"})
          /\ Count({"timedOut"})' = Count({"timedOut"}) + 1
          /\ Count({"submitError"})' = Count({"submitError"})
      BY <1>1, <1>8 DEF Outcomes
    <2>2. /\ metrics'.acceptedJobs = metrics.acceptedJobs
          /\ metrics'.completedRuns = metrics.completedRuns
          /\ metrics'.completedJobs = metrics.completedJobs
          /\ metrics'.failedJobs = metrics.failedJobs
          /\ metrics'.timedOutJobs = metrics.timedOutJobs + 1
          /\ metrics'.submitErrors = metrics.submitErrors
          /\ metrics'.failures = metrics.failures + 1
      BY <1>8, CountedMetrics DEF Types, Inc
    <2>3. Count(Working)' = Count(Working) - 1
      BY <1>3, <1>8
    <2>4. QED BY <1>2, <1>4, <1>5, <2>1, <2>2, <2>3 DEF Books
  <1>9. CASE outcome = "submitError"
    <2>1. /\ Count({"todo"})' = Count({"todo"})
          /\ Count({"completed"})' = Count({"completed"})
          /\ Count({"failed"})' = Count({"failed"})
          /\ Count({"timedOut"})' = Count({"timedOut"})
          /\ Count({"submitError"})' = Count({"submitError"}) + 1
      BY <1>1, <1>9 DEF Outcomes
    <2>2. /\ metrics'.acceptedJobs = metrics.acceptedJobs
          /\ metrics'.completedRuns = metrics.completedRuns
          /\ metrics'.completedJobs = metrics.completedJobs
          /\ metrics'.failedJobs = metrics.failedJobs
          /\ metrics'.timedOutJobs = metrics.timedOutJobs
          /\ metrics'.submitErrors = metrics.submitErrors + 1
          /\ metrics'.failures = metrics.failures + 1
      BY <1>9, CountedMetrics DEF Types, Inc
    <2>3. QED BY <1>2, <1>3, <1>4, <1>5, <2>1, <2>2 DEF Books
  <1>10. QED BY <1>6, <1>7, <1>8, <1>9 DEF Outcomes

LEMMA NothingStarted ==
    ASSUME stage \in [Items -> {"todo", "unused"}]
    PROVE  /\ Count(Waiting) = 0 /\ Count(Outcomes) = 0 /\ Count(Working) = 0
           /\ \A outcome \in Outcomes : Count({outcome}) = 0
  <1>1. ASSUME NEW X, "todo" \notin X, "unused" \notin X PROVE Count(X) = 0
    <2>1. {i \in Items : stage[i] \in X} = {}
      BY <1>1
    <2>2. QED BY <2>1, FS_EmptySet DEF Count
  <1>2. QED BY <1>1 DEF Waiting, Outcomes, Working

LEMMA InitBooks ==
    ASSUME Init
    PROVE  Tally /\ Cardinality(Active) <= Concurrency
  <1>1. stage \in [Items -> {"todo", "unused"}]
    BY DEF Init
  <1>2. Cardinality(Active) <= Concurrency
    BY <1>1, NothingStarted, SetsAsCounts, ClientAssumption
  <1>3. CASE stress
    <2>1. {i \in Items : stage[i] \in {"todo"}} = Items
      BY <1>3 DEF Init
    <2>2. Count({"todo"}) = JobCount
      BY <2>1, ItemsAreFinite DEF Count
    <2>3. Books
      BY <1>1, <2>2, NothingStarted, ClientAssumption DEF Books, Init, NoMetrics, Outcomes
    <2>4. QED BY <1>2, <2>3, TallyIsBooks
  <1>4. QED BY <1>2, <1>3 DEF Tally

LEMMA EndsTally ==
    ASSUME Types, Tally, NEW i \in Items, NEW outcome \in Outcomes, Ends(i, outcome), stress' = stress,
           stage[i] \in Waiting, stage[i] \in Working \/ outcome = "submitError"
    PROVE  Tally'
  <1>1. CASE stress
    <2>1. Books
      BY <1>1, TallyIsBooks
    <2>2. Goes(i, outcome) /\ metrics' = Counted(outcome)
      BY <1>1 DEF Ends
    <2>3. QED BY <2>1, <2>2, BooksOfEnd, TallyIsBooksAfter
  <1>2. QED BY <1>1, TallyIsBooksAfter

LEMMA ContinuesTally ==
    ASSUME Types, Tally, NEW i \in Items, NEW s \in Waiting, Goes(i, s), metrics' = metrics, stress' = stress,
           stage[i] \in Waiting, stage[i] \in Working <=> s \in Working
    PROVE  Tally'
  BY BooksKept, TallyIsBooks, TallyIsBooksAfter

LEMMA UnchangedTally ==
    ASSUME Tally, UNCHANGED <<stage, metrics, stress>>
    PROVE  Tally'
  BY DEF Tally, Todo, Active, Settled, InWork, Counts, FailureCount

LEMMA TallyStep ==
    ASSUME Types, Places, Tally, NEW i \in Items,
           ItemStep(i) \/ RequestFails(i) \/ TimeIsUp(i)
    PROVE  Tally'
  <1>0. stress' = stress
    BY OneItem
  <1>1. CASE Start(i)
    <2>1. stage[i] = "todo" /\ metrics' = metrics
      BY <1>1 DEF Start, Todo
    <2>2. CASE Goes(i, "submitting")
      BY <1>0, <2>1, <2>2, BooksOfStart, TallyIsBooks, TallyIsBooksAfter
    <2>3. CASE UNCHANGED stage
      BY <1>0, <2>1, <2>3, UnchangedTally
    <2>4. QED BY <1>1, <2>2, <2>3 DEF Start
  <1>2. CASE SubmitExecutes(i)
    <2>1. Goes(i, "submitted") /\ stage[i] = "submitting" /\ metrics' = metrics
      BY <1>2 DEF SubmitExecutes
    <2>2. QED BY <1>0, <2>1, ContinuesTally DEF Waiting, Working
  <1>3. CASE Accepted(i)
    <2>1. Goes(i, "testing") /\ stage[i] = "submitted"
      BY <1>3 DEF Accepted
    <2>2. stress => metrics' = [metrics EXCEPT !.acceptedJobs = @ + 1]
      BY <1>3 DEF Accepted
    <2>3. QED BY <1>0, <2>1, <2>2, BooksOfAccepted, TallyIsBooks, TallyIsBooksAfter
  <1>4. CASE Polled(i)
    <2>1. Goes(i, "answered") /\ stage[i] = "polling" /\ metrics' = metrics
      BY <1>4 DEF Polled
    <2>2. QED BY <1>0, <2>1, ContinuesTally DEF Waiting, Working
  <1>5. CASE Answered(i)
    <2>1. stage[i] = "answered"
      BY <1>5 DEF Answered
    <2>2. CASE Continues(i, "testing")
      BY <1>0, <2>1, <2>2, ContinuesTally DEF Continues, Waiting, Working
    <2>3. CASE \E outcome \in Outcomes : Ends(i, outcome)
      BY <1>0, <2>1, <2>3, EndsTally DEF Waiting, Working
    <2>4. QED BY <1>5, <2>2, <2>3 DEF Answered, Outcomes
  <1>6. CASE TestsDeadline(i)
    <2>1. stage[i] = "testing"
      BY <1>6 DEF TestsDeadline
    <2>2. CASE Continues(i, "polling")
      BY <1>0, <2>1, <2>2, ContinuesTally DEF Continues, Waiting, Working
    <2>3. CASE Ends(i, "timedOut")
      BY <1>0, <2>1, <2>3, EndsTally DEF Waiting, Working, Outcomes
    <2>4. QED BY <1>6, <2>2, <2>3 DEF TestsDeadline, PollsOrGivesUp
  <1>7. CASE Resolves(i)
    BY <1>0, <1>7, TallyIsBooksAfter DEF Resolves, Places
  <1>8. CASE RequestFails(i)
    <2>1. stage[i] \in Waiting /\ Ends(i, "submitError")
      BY <1>8 DEF RequestFails, Waiting
    <2>2. QED BY <1>0, <2>1, EndsTally DEF Outcomes
  <1>9. CASE TimeIsUp(i)
    BY <1>0, <1>9, UnchangedTally DEF TimeIsUp
  <1>10. QED BY <1>1, <1>2, <1>3, <1>4, <1>5, <1>6, <1>7, <1>8, <1>9 DEF ItemStep

\* Only runPool adds an item to those under way, when it has room.
LEMMA RoomStep ==
    ASSUME Types, Cardinality(Active) <= Concurrency, NEW i \in Items,
           ItemStep(i) \/ RequestFails(i) \/ TimeIsUp(i)
    PROVE  Cardinality(Active') <= Concurrency
  <1>1. /\ Cardinality(Active) = Count(Waiting)
        /\ Cardinality(Active') = Count(Waiting)'
        /\ Count(Waiting) \in Nat
    BY SetsAsCounts, SetsAsCountsAfter, CountIsNatural
  <1>2. CASE Start(i)
    <2>1. stage[i] = "todo" /\ Cardinality(Active) < Concurrency
      BY <1>2 DEF Start, Todo, HasRoom
    <2>2. CASE Goes(i, "submitting")
      <3>1. Gain(Waiting, stage[i], "submitting") = 1
        BY <2>1 DEF Gain, Waiting
      <3>2. Count(Waiting)' = Count(Waiting) + 1
        BY <2>2, <3>1, GoesCounts DEF Types
      <3>3. QED BY <1>1, <2>1, <3>2, ClientAssumption
    <2>3. CASE UNCHANGED stage
      BY <2>3 DEF Active
    <2>4. QED BY <1>2, <2>2, <2>3 DEF Start
  <1>3. CASE ~Start(i)
    <2>1. stage[i] \in Waiting
      BY <1>3 DEF ItemStep, SubmitExecutes, Accepted, Polled, Answered, TestsDeadline,
             Resolves, RequestFails, TimeIsUp, Active, Waiting
    <2>2. PICK s : Goes(i, s)
      <3>1. CASE TimeIsUp(i)
        <4>1. Goes(i, stage[i])
          BY <3>1 DEF TimeIsUp, Goes, Types
        <4>2. QED BY <4>1
      <3>2. CASE ~TimeIsUp(i)
        BY <1>3, <3>2 DEF ItemStep, SubmitExecutes, Accepted, Polled, Answered, TestsDeadline,
               PollsOrGivesUp, Resolves, RequestFails, Ends, Continues
      <3>3. QED BY <3>1, <3>2
    <2>3. Gain(Waiting, stage[i], s) \in {0 - 1, 0}
      BY <2>1 DEF Gain
    <2>4. Count(Waiting)' = Count(Waiting) + Gain(Waiting, stage[i], s)
      BY <2>2, GoesCounts DEF Types
    <2>5. QED BY <1>1, <2>3, <2>4, ClientAssumption
  <1>4. QED BY <1>2, <1>3

-----------------------------------------------------------------------------
(* The invariant *)

LEMMA WorkingAreActive == Count(Working) <= Count(Waiting)
  <1> DEFINE S == {i \in Items : stage[i] \in Working}
             T == {i \in Items : stage[i] \in Waiting}
  <1>1. S \subseteq T
    BY DEF Working, Waiting
  <1>2. IsFiniteSet(T)
    BY ItemsAreFinite, FS_Subset
  <1>3. Cardinality(S) <= Cardinality(T)
    <2> HIDE DEF S, T
    <2>1. QED BY <1>1, <1>2, FS_Subset
  <1>4. QED BY <1>3 DEF Count

\* No counter of a durability run outgrows --jobs.
LEMMA TallyBoundsMetrics ==
    ASSUME Types, Places, Tally
    PROVE  metrics \in [Fields -> 0..JobCount]
  <1>1. CASE stress
    <2>1. Books
      BY <1>1, TallyIsBooks
    <2>2. /\ Count({"todo"}) \in Nat /\ Count(Waiting) \in Nat /\ Count(Outcomes) \in Nat
          /\ Count(Working) \in Nat
          /\ Count({"completed"}) \in Nat /\ Count({"failed"}) \in Nat
          /\ Count({"timedOut"}) \in Nat /\ Count({"submitError"}) \in Nat
      BY CountIsNatural
    <2>3. /\ metrics.acceptedJobs \in Nat /\ metrics.completedRuns \in Nat
          /\ metrics.completedJobs \in Nat /\ metrics.failedJobs \in Nat
          /\ metrics.timedOutJobs \in Nat /\ metrics.submitErrors \in Nat
          /\ metrics.failures \in Nat
      BY DEF Types, Fields
    <2>4. /\ metrics.acceptedJobs <= JobCount /\ metrics.completedRuns <= JobCount
          /\ metrics.completedJobs <= JobCount /\ metrics.failedJobs <= JobCount
          /\ metrics.timedOutJobs <= JobCount /\ metrics.submitErrors <= JobCount
          /\ metrics.failures <= JobCount
      BY <2>1, <2>2, <2>3, WorkingAreActive, ClientAssumption DEF Books
    <2>5. ASSUME NEW f \in Fields PROVE metrics[f] \in 0..JobCount
      BY <2>3, <2>4, ClientAssumption DEF Fields
    <2>6. QED BY <2>5 DEF Types
  <1>2. CASE ~stress
    BY <1>2, ClientAssumption DEF Places, NoMetrics, Fields
  <1>3. QED BY <1>1, <1>2

LEMMA PartsMakeIInv ==
    ASSUME Types, Places, Tally, Evidence, ExitIsEarned, Cardinality(Active) <= Concurrency
    PROVE  IInv
  BY TallyBoundsMetrics, MetricsDomain DEF IInv, TypeOK, Types

\* When the pool is empty and nothing was counted as a failure, every item has
\* completed.
LEMMA NoFailureMeansCompleted ==
    ASSUME Types, Tally, stress, Settled = Items, FailureCount = 0
    PROVE  \A i \in Items : stage[i] = "completed"
  <1>1. /\ Count({"failed"}) = 0
        /\ Count({"timedOut"}) = 0
        /\ Count({"submitError"}) = 0
    <2>1. Books
      BY TallyIsBooks
    <2>2. Count({"failed"}) \in Nat /\ Count({"timedOut"}) \in Nat /\ Count({"submitError"}) \in Nat
      BY CountIsNatural
    <2>3. QED BY <2>1, <2>2 DEF Books, FailureCount
  <1>2. ASSUME NEW X, Count(X) = 0, NEW i \in Items PROVE stage[i] \notin X
    <2> DEFINE S == {k \in Items : stage[k] \in X}
    <2>1. IsFiniteSet(S)
      BY ItemsAreFinite, FS_Subset
    <2>2. Cardinality(S) = 0
      BY <1>2 DEF Count
    <2>3. S = {}
      <3> HIDE DEF S
      <3>1. QED BY <2>1, <2>2, FS_EmptySet
    <2>4. QED BY <2>3
  <1>3. ASSUME NEW i \in Items PROVE stage[i] = "completed"
    <2>1. stage[i] \in Outcomes
      BY DEF Settled
    <2>2. stage[i] \notin {"failed"} /\ stage[i] \notin {"timedOut"} /\ stage[i] \notin {"submitError"}
      BY <1>1, <1>2
    <2>3. QED BY <2>1, <2>2 DEF Outcomes
  <1>4. QED BY <1>3

\* The books, what the client has seen and what its exit code means hold when
\* it starts ...
THEOREM ClientInitInvariant == Init => IInv
  BY InitTypes, InitPlaces, InitBooks, PartsMakeIInv

\* ... and after every step of the client, of the service and of its users.
THEOREM ClientStepInvariant == IInv /\ [Next]_vars => IInv'
  <1> SUFFICES ASSUME IInv, [Next]_vars PROVE IInv'
    OBVIOUS
  <1>0. /\ Types /\ Places /\ Tally /\ Evidence /\ ExitIsEarned
        /\ Cardinality(Active) <= Concurrency
    BY TypeOKGivesTypes DEF IInv, TypeOK
  <1>1. Types'
    BY <1>0, TypesStep
  <1>2. /\ Places' /\ Tally' /\ Evidence' /\ ExitIsEarned'
        /\ Cardinality(Active') <= Concurrency
    <2>1. CASE ServiceStep /\ Observes
      <3>1. UNCHANGED <<stress, stage, answer, metrics, exitCode>> /\ seen \subseteq seen'
        BY <2>1 DEF ServiceStep, Observes
      <3>2. Tally'
        BY <1>0, <3>1, UnchangedTally
      <3>3. QED BY <1>0, <3>1, <3>2 DEF Places, Evidence, ExitIsEarned, Active
    <2>2. CASE StressEnds /\ Observes
      <3>1. UNCHANGED <<stress, stage, answer, metrics>> /\ seen \subseteq seen'
        BY <2>2 DEF StressEnds, Observes
      <3>2. Tally'
        BY <1>0, <3>1, UnchangedTally
      <3>3. ExitIsEarned'
        <4>1. FailureCount \in Nat
          BY <1>0 DEF FailureCount, Types, Fields
        <4>2. exitCode' = "success" => \A i \in Items : stage[i] = "completed"
          BY <1>0, <2>2, <4>1, NoFailureMeansCompleted DEF StressEnds
        <4>3. QED BY <3>1, <4>2 DEF ExitIsEarned
      <3>4. QED BY <1>0, <3>1, <3>2, <3>3 DEF Places, Evidence, Active
    <2>3. CASE \E i \in Items : (ItemStep(i) \/ RequestFails(i) \/ TimeIsUp(i)) /\ Observes
      BY <1>0, <2>3, PlacesStep, TallyStep, EvidenceStep, ExitStep, RoomStep
    <2>4. CASE UNCHANGED vars
      <3>1. Tally'
        BY <1>0, <2>4, UnchangedTally DEF vars
      <3>2. QED BY <1>0, <2>4, <3>1 DEF vars, Places, Evidence, ExitIsEarned, Active
    <2>5. QED BY <2>1, <2>2, <2>3, <2>4 DEF Next, ClientStep, Exited
  <1>3. (Types /\ Places /\ Tally /\ Evidence /\ ExitIsEarned /\ Cardinality(Active) <= Concurrency => IInv)'
    BY PartsMakeIInv, PTL
  <1>4. QED BY <1>1, <1>2, <1>3

THEOREM ClientInvariance == Spec => []IInv
  <1>1. Init => IInv
    BY ClientInitInvariant
  <1>2. IInv /\ [Next]_vars => IInv'
    BY ClientStepInvariant
  <1>3. QED BY <1>1, <1>2, PTL DEF Spec

-----------------------------------------------------------------------------
(* What it gives *)

\* The types, among them that runPool keeps to --submit-concurrency and that no
\* counter exceeds --jobs.
THEOREM ClientTypeCorrect == Spec => []TypeOK
  <1>1. IInv => TypeOK
    BY DEF IInv
  <1>2. QED BY <1>1, ClientInvariance, PTL

\* The summary accounts for every job once, for any number of jobs.
THEOREM SummaryAddsUp == Spec => []CountsAddUp
  <1>1. IInv => CountsAddUp
    <2> SUFFICES ASSUME Types, Tally, stress PROVE CountsAddUp
      BY TypeOKGivesTypes DEF IInv, CountsAddUp
    <2>1. Books
      BY TallyIsBooks
    <2>2. /\ Count({"todo"}) \in Nat /\ Count(Waiting) \in Nat /\ Count(Outcomes) \in Nat
          /\ Count(Working) \in Nat
      BY CountIsNatural
    <2>3. /\ metrics.acceptedJobs \in Nat /\ metrics.completedRuns \in Nat
          /\ metrics.completedJobs \in Nat /\ metrics.failedJobs \in Nat
          /\ metrics.timedOutJobs \in Nat /\ metrics.submitErrors \in Nat
      BY DEF Types, Fields
    <2>4. /\ metrics.acceptedJobs >= metrics.completedRuns + metrics.timedOutJobs
          /\ metrics.acceptedJobs + metrics.submitErrors >= Count(Outcomes)
          /\ metrics.acceptedJobs + Count({"todo"}) <= JobCount
      BY <2>1, <2>2, <2>3, WorkingAreActive, ClientAssumption DEF Books
    <2>5. QED BY <2>1, <2>4, SetsAsCounts DEF CountsAddUp, Books, FailureCount
  <1>2. QED BY <1>1, ClientInvariance, PTL

\* The exit code 0 is earned by every item of the run, whatever the service
\* and its other users do, for any number of jobs that share any number of
\* URLs.
THEOREM SuccessIsEarned == Spec => []ZeroMeansCompleted
  <1>1. IInv => ZeroMeansCompleted
    BY DEF IInv, Evidence, ExitIsEarned, ZeroMeansCompleted
  <1>2. QED BY <1>1, ClientInvariance, PTL

=============================================================================
