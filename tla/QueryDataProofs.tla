--------------------------- MODULE QueryDataProofs ---------------------------
(***************************************************************************)
(* QueryData waits for exactly its goroutines, and gives each query its    *)
(* own answer, for any number of queries, as long as the mutator keeps     *)
(* their number; it implements the promise of module FanOut.               *)
(***************************************************************************)
EXTENDS QueryData, FiniteSetTheorems, TLAPS

\* Every variable keeps its type.
LEMMA TypeInit == ASSUME Init PROVE TypeOK
<1>1. crashed \in BOOLEAN
  BY Zenon DEF Init
<1>2. wg \in Int /\ work \subseteq Query
  BY DEF Init
<1> QED BY <1>1, <1>2 DEF Init, TypeOK

\* No step breaks a type.
LEMMA TypeStep == ASSUME TypeOK, [Next]_vars PROVE TypeOK'
<1> USE DEF TypeOK, Outcome
<1>1. CASE Add
  BY <1>1, FS_CardinalityType, QueryDataAssumption DEF Add
<1>2. CASE MutateQueryData
  BY <1>2, QueryDataAssumption DEF MutateQueryData
<1>3. ASSUME NEW q \in Query, Launch(q) PROVE TypeOK'
  BY <1>3 DEF Launch
<1>4. CASE Launched
  BY <1>4 DEF Launched
<1>5. CASE Wait
  BY <1>5 DEF Wait
<1>6. CASE Return
  BY <1>6 DEF Return
<1>7. ASSUME NEW q \in Query, HandleQuery(q) PROVE TypeOK'
  BY <1>7 DEF HandleQuery, Becomes
<1>8. ASSUME NEW q \in Query, MutateResponse(q) PROVE TypeOK'
  BY <1>8 DEF MutateResponse, Becomes
<1>9. ASSUME NEW q \in Query, SetResponse(q) PROVE TypeOK'
  <2>1. responses' \in [RefID -> {"frames", "error", "panic", "none"}]
    BY <1>9, QueryDataAssumption DEF SetResponse
  <2>2. go' \in [Query -> {"no", "handle", "mutate", "set", "finish", "done"}]
    BY <1>9 DEF SetResponse
  <2>3. \A p \in Query : go'[p] \notin {"no", "handle"} =>
            go[p] \notin {"no", "handle"}
    BY <1>9 DEF SetResponse
  <2> QED BY <1>9, <2>1, <2>2, <2>3 DEF SetResponse
<1>10. ASSUME NEW q \in Query, Done(q) PROVE TypeOK'
  BY <1>10 DEF Done
<1>11. CASE UNCHANGED vars
  BY <1>11 DEF vars
<1> QED BY <1>1, <1>2, <1>3, <1>4, <1>5, <1>6, <1>7, <1>8, <1>9, <1>10, <1>11
        DEF Next, Caller, Goroutine

-----------------------------------------------------------------------------
\* As many goroutines have finished as there are queries only if they all
\* have; as long as one has not, fewer have.
LEMMA FinishedOfWork ==
    ASSUME CountKept, NEW w \in Mutations, NEW F, F \subseteq w
    PROVE  /\ IsFiniteSet(F)
           /\ Cardinality(F) \in Nat /\ Cardinality(Incoming) \in Nat
           /\ Cardinality(F) = Cardinality(Incoming) => F = w
           /\ \A q \in w \ F : /\ Cardinality(F \cup {q}) = Cardinality(F) + 1
                               /\ Cardinality(F) < Cardinality(Incoming)
<1>1. IsFiniteSet(w) /\ Cardinality(w) = Cardinality(Incoming)
  BY QueryDataAssumption DEF CountKept
<1>2. IsFiniteSet(F) /\ Cardinality(F) \in Nat /\ Cardinality(w) \in Nat
  BY <1>1, FS_Subset, FS_CardinalityType
<1>3. Cardinality(F) = Cardinality(w) => F = w
  BY <1>1, FS_Subset
<1>4. ASSUME NEW q \in w \ F
      PROVE  /\ Cardinality(F \cup {q}) = Cardinality(F) + 1
             /\ Cardinality(F) < Cardinality(Incoming)
  <2>1. Cardinality(F \cup {q}) = Cardinality(F) + 1
    BY <1>2, <1>4, FS_AddElement
  <2>2. Cardinality(F \cup {q}) <= Cardinality(w)
    BY <1>1, <1>4, FS_Subset
  <2> QED BY <1>1, <1>2, <2>1, <2>2
<1> QED BY <1>1, <1>2, <1>3, <1>4

\* The count of the goroutines is right initially.
LEMMA CountedInit == ASSUME Init PROVE Counted
  BY DEF Init, Counted, WaitsForAll, NeverCrashes

\* No step miscounts the goroutines.
LEMMA CountedStep ==
    ASSUME CountKept, TypeOK, Counted, [Next]_vars
    PROVE  Counted'
<1> USE DEF Counted, WaitsForAll, NeverCrashes, TypeOK
<1>1. CASE Add
  <2>1. Finished = {} /\ Finished' = {}
    BY <1>1 DEF Add, Finished
  <2> QED BY <1>1, <2>1, FS_EmptySet, FS_CardinalityType, QueryDataAssumption DEF Add
<1>2. CASE MutateQueryData
  <2>1. Finished' = Finished
    BY <1>2 DEF MutateQueryData, Finished
  <2> QED BY <1>2, <2>1 DEF MutateQueryData
<1>3. ASSUME NEW q \in Query, Launch(q) PROVE Counted'
  <2>1. Finished' = Finished
    BY <1>3 DEF Launch, Finished
  <2> QED BY <1>3, <2>1 DEF Launch
<1>4. CASE Launched
  <2>1. Finished' = Finished
    BY <1>4 DEF Launched, Finished
  <2> QED BY <1>4, <2>1 DEF Launched
<1>5. CASE Wait
  <2>1. Finished' = Finished /\ Finished \subseteq work
    BY <1>5 DEF Wait, Finished
  <2>2. Cardinality(Finished) = Cardinality(Incoming)
    BY <1>5, <2>1, FinishedOfWork DEF Wait
  <2>3. Finished = work
    BY <1>5, <2>1, <2>2, FinishedOfWork DEF Wait
  <2> QED BY <1>5, <2>1, <2>3 DEF Wait, Finished
<1>6. CASE Return
  <2>1. Finished' = Finished
    BY <1>6 DEF Return, Finished
  <2> QED BY <1>6, <2>1 DEF Return
<1>7. ASSUME NEW q \in Query, HandleQuery(q) \/ MutateResponse(q) \/ SetResponse(q)
      PROVE Counted'
  <2>1. /\ Finished' = Finished
        /\ UNCHANGED <<main, wg, work, crashed>>
        /\ q \in work
        /\ \A p \in Query : go'[p] = "no" <=> go[p] = "no"
        /\ main \notin {"collect", "returned"}
    BY <1>7 DEF HandleQuery, MutateResponse, SetResponse, Becomes, Finished
  <2> QED BY <2>1
<1>8. ASSUME NEW q \in Query, Done(q) PROVE Counted'
  <2>1. /\ Finished' = Finished \cup {q}
        /\ q \in work \ Finished
        /\ Finished \subseteq work
        /\ main \notin {"add", "mutate", "collect", "returned"}
    BY <1>8 DEF Done, Finished
  <2>2. /\ Cardinality(Finished') = Cardinality(Finished) + 1
        /\ Cardinality(Finished) < Cardinality(Incoming)
        /\ Cardinality(Finished) \in Nat /\ Cardinality(Incoming) \in Nat
    BY <2>1, FinishedOfWork
  <2>3. wg # 0 /\ wg' = Cardinality(Incoming) - Cardinality(Finished')
    BY <1>8, <2>1, <2>2 DEF Done
  <2> QED BY <1>8, <2>1, <2>3 DEF Done
<1>9. CASE UNCHANGED vars
  <2>1. Finished' = Finished
    BY <1>9 DEF vars, Finished
  <2> QED BY <1>9, <2>1 DEF vars
<1> QED BY <1>1, <1>2, <1>3, <1>4, <1>5, <1>6, <1>7, <1>8, <1>9
        DEF Next, Caller, Goroutine

\* It is right in every state.
LEMMA CountInvariance == ASSUME CountKept PROVE Spec => [](TypeOK /\ Counted)
<1>1. Init => TypeOK /\ Counted
  BY TypeInit, CountedInit
<1>2. TypeOK /\ Counted /\ [Next]_vars => TypeOK' /\ Counted'
  BY TypeStep, CountedStep
<1> QED BY <1>1, <1>2, PTL DEF Spec

\* If the mutator keeps the number of queries, QueryData goes on to collect
\* the responses only after every goroutine is through.
THEOREM ReturnsAfterAll == ASSUME CountKept PROVE Spec => []WaitsForAll
<1>1. Counted => WaitsForAll
  BY DEF Counted
<1> QED BY CountInvariance, <1>1, PTL

\* If the mutator keeps the number of queries, no wg.Done takes the counter
\* below zero.
THEOREM NoNegativeCounter == ASSUME CountKept PROVE Spec => []NeverCrashes
<1>1. Counted => NeverCrashes
  BY DEF Counted
<1> QED BY CountInvariance, <1>1, PTL

-----------------------------------------------------------------------------
(* Answers *)

\* Nothing is recorded initially.
LEMMA RecordedInit == ASSUME Init PROVE Recorded
  BY DEF Init, Recorded, Responded

\* Steps that touch neither the responses nor the goroutines that have written
\* theirs.
LEMMA RecordedElsewhere ==
    ASSUME TypeOK, Recorded,
           UNCHANGED responses, Responded' = Responded,
           \A q \in Responded : result'[q] = result[q],
           main' \in {"add", "mutate"} => work' = {},
           returned' = "none" <=> main' # "returned",
           main' = "returned" =>
               (returned' = "errors" <=> Errors /\ \E id \in RefID : Failed(id))
    PROVE  Recorded'
<1>1. \A id \in RefID : responses'[id] # "none" =>
          \E p \in Responded' : RefOf[p] = id /\ responses'[id] = result'[p]
  BY DEF Recorded
<1>2. \A q \in Responded' : responses'[RefOf[q]] # "none"
  BY DEF Recorded
<1> QED BY <1>1, <1>2 DEF Recorded, Failed

\* No step parts a response from the goroutine that wrote it.
LEMMA RecordedStep ==
    ASSUME TypeOK, Counted, Recorded, [Next]_vars
    PROVE  Recorded'
<1>1. CASE Add \/ MutateQueryData \/ Launched \/ Wait \/ UNCHANGED vars
  <2>1. /\ UNCHANGED <<responses, go, result, returned>>
        /\ main' \in {"add", "mutate"} => work' = {}
        /\ main' = "returned" <=> main = "returned"
    BY <1>1 DEF Add, MutateQueryData, Launched, Wait, Recorded, vars
  <2>2. Responded' = Responded
    BY <2>1 DEF Responded
  <2> QED BY <2>1, <2>2, RecordedElsewhere DEF Recorded
<1>2. ASSUME NEW q \in Query, Launch(q) PROVE Recorded'
  <2>1. Responded' = Responded
    BY <1>2 DEF Launch, Responded, TypeOK
  <2> QED BY <1>2, <2>1, RecordedElsewhere DEF Launch, Recorded
<1>3. CASE Return
  <2>1. Responded' = Responded
    BY <1>3 DEF Return, Responded
  <2> QED BY <1>3, <2>1, RecordedElsewhere DEF Return, Recorded
<1>4. ASSUME NEW q \in Query, HandleQuery(q) \/ MutateResponse(q) PROVE Recorded'
  <2>1. /\ Responded' = Responded
        /\ \A p \in Responded : result'[p] = result[p]
    BY <1>4 DEF HandleQuery, MutateResponse, Becomes, Responded, TypeOK
  <2> QED BY <1>4, <2>1, RecordedElsewhere
          DEF HandleQuery, MutateResponse, Becomes, Recorded
<1>5. ASSUME NEW q \in Query, SetResponse(q) PROVE Recorded'
  <2>1. /\ q \notin Responded /\ Responded' = Responded \cup {q}
        /\ main \notin {"add", "mutate", "returned"}
    BY <1>5 DEF SetResponse, Responded, TypeOK, Counted, WaitsForAll
  <2>2. result[q] # "none" /\ RefOf[q] \in RefID
    BY <1>5, QueryDataAssumption DEF SetResponse, TypeOK, Outcome
  <2>3. responses' = [responses EXCEPT ![RefOf[q]] = result[q]] /\ UNCHANGED <<main, result>>
    BY <1>5 DEF SetResponse
  <2>4. \A id \in RefID : responses'[id] # "none" =>
            \E p \in Responded' : RefOf[p] = id /\ responses'[id] = result'[p]
    BY <2>1, <2>2, <2>3 DEF Recorded, TypeOK
  <2>5. \A p \in Responded' : responses'[RefOf[p]] # "none"
    BY <2>1, <2>2, <2>3, QueryDataAssumption DEF Recorded, TypeOK, Responded
  <2>6. returned' = returned /\ main' = main
    BY <1>5 DEF SetResponse
  <2> QED BY <2>1, <2>4, <2>5, <2>6 DEF Recorded
<1>6. ASSUME NEW q \in Query, Done(q) PROVE Recorded'
  <2>1. Responded' = Responded
    BY <1>6 DEF Done, Responded, TypeOK
  <2> QED BY <1>6, <2>1, RecordedElsewhere DEF Done, Recorded
<1> QED BY <1>1, <1>2, <1>3, <1>4, <1>5, <1>6 DEF Next, Caller, Goroutine

\* What is recorded is right in every state.
LEMMA RecordInvariance ==
    ASSUME CountKept PROVE Spec => [](TypeOK /\ Counted /\ Recorded)
<1>1. Init => Recorded
  BY RecordedInit
<1>2. TypeOK /\ Counted /\ Recorded /\ [Next]_vars => Recorded'
  BY RecordedStep
<1> QED BY CountInvariance, <1>1, <1>2, PTL DEF Spec

\* Queries that have written their response are queries of the call, and once
\* QueryData has collected the responses they all have.
LEMMA AllResponded ==
    ASSUME TypeOK, Counted
    PROVE  /\ Responded \subseteq work
           /\ main = "returned" => work \subseteq Responded
  BY DEF TypeOK, Counted, WaitsForAll, Responded

\* Every variable of QueryData keeps its type; in particular a goroutine that
\* is about to respond has a result.
THEOREM QueryDataTypes == Spec => []TypeOK
<1>1. Init => TypeOK
  BY TypeInit
<1>2. TypeOK /\ [Next]_vars => TypeOK'
  BY TypeStep
<1> QED BY <1>1, <1>2, PTL DEF Spec

\* What QueryData returns under a RefID is the result of one of its queries of
\* that RefID, for any number of queries that share it, with all their errors
\* and panics.
THEOREM AnswersAreOwn == ASSUME CountKept PROVE Spec => []OwnAnswer
<1>1. TypeOK /\ Counted /\ Recorded => OwnAnswer
  <2> SUFFICES ASSUME TypeOK, Counted, Recorded, main = "returned", NEW q \in work
               PROVE  \E p \in work : RefOf[p] = RefOf[q] /\ responses[RefOf[q]] = result[p]
    BY DEF OwnAnswer
  <2>1. q \in Responded /\ Responded \subseteq work /\ RefOf[q] \in RefID
    BY AllResponded, QueryDataAssumption DEF TypeOK
  <2> QED BY <2>1 DEF Recorded
<1> QED BY RecordInvariance, <1>1, PTL

\* An error that QueryData returns is that of one of its queries, and with
\* DriverSettings.Errors a failed query goes unreported only if another one of
\* its RefID has put frames in the place of its error.
THEOREM FailuresSurface == ASSUME CountKept PROVE Spec => []NoFailureIsHidden
<1>1. TypeOK /\ Counted /\ Recorded => NoFailureIsHidden
  <2> SUFFICES ASSUME TypeOK, Counted, Recorded, main = "returned"
               PROVE  NoFailureIsHidden
    BY DEF NoFailureIsHidden, Recorded
  <2>1. Responded \subseteq work /\ work \subseteq Responded /\ work \subseteq Query
    BY AllResponded DEF TypeOK
  <2>2. returned = "errors" <=> Errors /\ \E id \in RefID : Failed(id)
    BY DEF Recorded
  <2>3. \A id \in RefID : responses[id] # "none" =>
            \E p \in work : RefOf[p] = id /\ responses[id] = result[p]
    BY <2>1 DEF Recorded
  <2>4. returned = "errors" => \E q \in work : result[q] \in {"error", "panic"}
    BY <2>2, <2>3 DEF Failed
  <2>5. ASSUME returned = "nil", Errors, NEW q \in work, result[q] \in {"error", "panic"}
        PROVE  \E p \in work \ {q} : RefOf[p] = RefOf[q] /\ result[p] = "frames"
    <3>1. RefOf[q] \in RefID
      BY <2>1, QueryDataAssumption
    <3>2. responses[RefOf[q]] # "none" /\ responses[RefOf[q]] \notin {"error", "panic"}
      BY <2>1, <2>2, <2>5, <3>1 DEF Recorded, Failed
    <3>3. responses[RefOf[q]] = "frames"
      BY <3>1, <3>2 DEF TypeOK, Outcome
    <3>4. PICK p \in work : RefOf[p] = RefOf[q] /\ responses[RefOf[q]] = result[p]
      BY <2>3, <3>1, <3>2
    <3> QED BY <2>5, <3>3, <3>4
  <2> QED BY <2>2, <2>4, <2>5 DEF NoFailureIsHidden
<1> QED BY RecordInvariance, <1>1, PTL

-----------------------------------------------------------------------------
(* The refinement of FanOut *)

\* The state of the promise.
Stage ==
    CASE main \in {"add", "mutate"} -> "choosing"
      [] main = "returned" -> "returned"
      [] OTHER -> "running"
Pending == {q \in work : go[q] \notin {"finish", "done"}}

\* The initial states map to those of the promise.
LEMMA PromiseInit == ASSUME Init PROVE Promise!Init
  BY DEF Init, Promise!Init

\* Every step maps to a step of the promise or a stutter.
LEMMA PromiseStep ==
    ASSUME TypeOK, Counted, Recorded, [Next]_vars
    PROVE  [Promise!Next]_<<Stage, Pending, responses, returned>>
<1>1. CASE Add \/ Launched \/ Wait \/ UNCHANGED vars
  BY <1>1 DEF Add, Launched, Wait, vars, Stage, Pending
<1>2. CASE MutateQueryData
  <2>1. Pending' = work'
    BY <1>2, QueryDataAssumption DEF MutateQueryData, Pending, Counted
  <2> QED BY <1>2, <2>1 DEF MutateQueryData, Promise!Next, Promise!Settle, Stage, Pending
<1>3. ASSUME NEW q \in Query,
               Launch(q) \/ HandleQuery(q) \/ MutateResponse(q) \/ Done(q)
      PROVE  UNCHANGED <<Stage, Pending, responses, returned>>
  BY <1>3 DEF Launch, HandleQuery, MutateResponse, Done, Becomes, Stage, Pending, TypeOK
<1>4. ASSUME NEW q \in Query, SetResponse(q) PROVE Promise!Finish(q)
  <2>1. Stage = "running" /\ Stage' = "running" /\ q \in Pending
    BY <1>4 DEF SetResponse, Stage, Pending, Counted, WaitsForAll
  <2>2. Pending' = Pending \ {q}
    BY <1>4 DEF SetResponse, Pending, TypeOK
  <2>3. result[q] \in Outcome
    BY <1>4 DEF SetResponse, TypeOK
  <2> QED BY <1>4, <2>1, <2>2, <2>3 DEF SetResponse, Promise!Finish, Stage, Pending
<1>5. CASE Return
  <2>1. Pending = {} /\ Pending' = {}
    BY <1>5 DEF Return, Pending, Counted, WaitsForAll
  <2> QED BY <1>5, <2>1 DEF Return, Promise!Next, Promise!Return, Stage, Pending, Failed
<1> QED BY <1>1, <1>2, <1>3, <1>4, <1>5 DEF Next, Caller, Goroutine, Promise!Next

\* QueryData implements FanOut: to its caller, the goroutines, the counter and
\* the lock are one step for each query, in which its outcome appears under its
\* RefID, and a return after the last of them.
THEOREM PromiseIsKept == ASSUME CountKept PROVE Spec => PromiseKept
<1>1. Init => Promise!Init
  BY PromiseInit
<1>2. TypeOK /\ Counted /\ Recorded /\ [Next]_vars => [Promise!Next]_(Promise!vars)
  BY PromiseStep DEF Promise!vars, Stage, Pending
<1> QED BY RecordInvariance, <1>1, <1>2, PTL DEF Spec, PromiseKept, Promise!Spec

=============================================================================
