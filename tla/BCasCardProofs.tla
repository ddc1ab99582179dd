--------------------------- MODULE BCasCardProofs ---------------------------
(***************************************************************************)
(* Theorems of module BCasCard, for every number of readers, retries and   *)
(* ECMs.                                                                   *)
(***************************************************************************)
EXTENDS BCasCard, TLAPS

\* The inductive invariant of the safety theorems.
IInv == TypeOK /\ NoHandleLost /\ AnswersThisEcm /\ Progress

-----------------------------------------------------------------------------
(* The initial state and the steps.                                        *)

LEMMA InitOK == ASSUME Init PROVE IInv
<1> USE CardAssumption DEF CardAssumption, Init
<1>1. TypeOK
  <2>1. mng \in BOOLEAN /\ open \subseteq 1 .. given /\ (card # 0 => mng)
    OBVIOUS
  <2> QED BY <2>1 DEF TypeOK, PC
<1>2. NoHandleLost
  BY DEF NoHandleLost
<1>3. AnswersThisEcm /\ Progress
  BY DEF AnswersThisEcm, Progress
<1> QED BY <1>1, <1>2, <1>3 DEF IInv

\* The steps of init() and set_b_cas_card() take no handle.
LEMMA StartingStep == ASSUME IInv, Starting PROVE IInv'
<1> USE CardAssumption DEF CardAssumption, IInv, TypeOK, PC, NoHandleLost, AnswersThisEcm, Progress
<1>1. CASE Establish
  BY <1>1 DEF Establish
<1>2. CASE List
  BY <1>2 DEF List
<1>3. CASE NextReader
  BY <1>3 DEF NextReader
<1>4. CASE Status
  BY <1>4 DEF Status
<1> QED BY <1>1, <1>2, <1>3, <1>4 DEF Starting

\* connect_card() gives the old handle back before it takes a new one.
LEMMA ConnectStep == ASSUME IInv, Connect PROVE IInv'
<1> USE CardAssumption DEF CardAssumption, IInv, Connect, Disconnected, Returns
<1>1. open \ {card} = {}
  BY DEF NoHandleLost
<1>2. CASE pc' = "setup"
  <2>1. card' = given + 1 /\ given' = given + 1 /\ open' = {given + 1}
    BY <1>1, <1>2
  <2>2. reader' = reader
    BY <1>2
  <2>3. TypeOK'
    BY <1>2, <2>1, <2>2 DEF TypeOK, PC, Progress
  <2>4. NoHandleLost'
    BY <1>2, <2>1 DEF NoHandleLost, TypeOK
  <2>5. AnswersThisEcm' /\ Progress'
    BY <1>2, <2>1, <2>2 DEF AnswersThisEcm, Progress, TypeOK
  <2> QED BY <2>3, <2>4, <2>5
<1>3. CASE pc' # "setup"
  <2>1. card' = 0 /\ open' = {} /\ Returns(FALSE) /\ given' = given
    BY <1>1, <1>3
  <2>2. TypeOK'
    BY <2>1 DEF TypeOK, PC, Progress
  <2>3. NoHandleLost'
    BY <2>1 DEF NoHandleLost
  <2>4. AnswersThisEcm' /\ Progress'
    BY <2>1 DEF AnswersThisEcm, Progress, TypeOK
  <2> QED BY <2>2, <2>3, <2>4
<1> QED BY <1>2, <1>3

\* The setup fills stat from the handle in use or leaves both as they are.
LEMMA SetupStep == ASSUME IInv, Setup PROVE IInv'
<1> USE CardAssumption DEF CardAssumption, IInv, Setup, Returns
<1>1. TypeOK'
  BY DEF TypeOK, PC, Progress
<1>2. NoHandleLost'
  BY DEF NoHandleLost
<1>3. AnswersThisEcm' /\ Progress'
  BY DEF AnswersThisEcm, Progress, TypeOK
<1> QED BY <1>1, <1>2, <1>3

\* proc_ecm() counts its retries and leaves the connection to connect_card().
LEMMA WorkingStep == ASSUME IInv, Working PROVE IInv'
<1> USE CardAssumption DEF CardAssumption, IInv, TypeOK, PC, NoHandleLost, AnswersThisEcm, Progress
<1>1. CASE ProcEcm
  BY <1>1 DEF ProcEcm
<1>2. CASE Transmit
  BY <1>2 DEF Transmit
<1>3. CASE Again
  BY <1>3 DEF Again, Counted
<1>4. CASE Answered
  BY <1>4 DEF Answered
<1> QED BY <1>1, <1>2, <1>3, <1>4 DEF Working

\* teardown() gives the last handle back.
LEMMA ReleaseStep == ASSUME IInv, Release PROVE IInv'
<1> USE CardAssumption DEF CardAssumption, IInv, Release, Disconnected
<1>1. open' = {} /\ card' = 0 /\ mng' = FALSE /\ pc' = "released"
  BY DEF NoHandleLost
<1>2. TypeOK'
  <2>1. mng' \in BOOLEAN /\ open' \subseteq 1 .. given' /\ (card' # 0 => mng')
    BY <1>1
  <2> QED BY <1>1, <2>1 DEF TypeOK, PC
<1>3. NoHandleLost'
  BY <1>1 DEF NoHandleLost
<1>4. AnswersThisEcm' /\ Progress'
  BY <1>1 DEF AnswersThisEcm, Progress
<1> QED BY <1>2, <1>3, <1>4

LEMMA NextStep == ASSUME IInv, [Next]_vars PROVE IInv'
<1>1. CASE Card
  BY <1>1, StartingStep, ConnectStep, SetupStep, WorkingStep, ReleaseStep DEF Card
<1>2. CASE UNCHANGED vars
  BY <1>2 DEF vars, IInv, TypeOK, PC, NoHandleLost, AnswersThisEcm, Progress
<1> QED BY <1>1, <1>2 DEF Next, Done

-----------------------------------------------------------------------------
(* The theorems.                                                           *)

\* IInv holds throughout: no call of b_cas_card.c leaves it, whatever the card
\* service answers.
THEOREM CardInvariance == Spec => []IInv
<1>1. IInv /\ [Next]_vars => IInv'
  BY NextStep
<1> QED BY <1>1, InitOK, PTL DEF Spec

\* The variables of the card keep their types.
THEOREM CardTypeCorrect == Spec => []TypeOK
BY CardInvariance, PTL DEF IInv

\* The service has at most the handle in prv->card to give back, however often
\* connect_card() reconnects and fails.
THEOREM HandlesKept == Spec => []NoHandleLost
BY CardInvariance, PTL DEF IInv

\* What proc_ecm() returns answers the ECM it was given.
THEOREM OwnAnswer == Spec => []AnswersThisEcm
BY CardInvariance, PTL DEF IInv
=============================================================================
