------------------------------ MODULE BCasCard ------------------------------
(***************************************************************************)
(* The smart card, src/b1/b_cas_card.c: init() goes through the readers    *)
(* until one holds a card that answers, set_b_cas_card() of the            *)
(* descrambler asks it for its status, and each ECM is sent to it with up  *)
(* to MaxRetry reconnections.  Every call of the PC/SC service is a step   *)
(* that may fail; it is the only thing modelled of the service, with the   *)
(* handles it has given out.                                               *)
(*                                                                         *)
(* After an error the caller sends no more ECMs (src/recskapa.c:184).  A   *)
(* card that init() could not start is not even released (src/decoder.c:48 *)
(* frees the wrapper only); one that failed later is (recskapa.c:617).     *)
(***************************************************************************)
EXTENDS Integers, FiniteSets

CONSTANTS
  Readers,   \* number of readers in the list
  MaxRetry,  \* 10 in the code
  MaxEcm     \* bound: ECMs sent

ASSUME CardAssumption ==
  /\ Readers \in Nat /\ MaxRetry \in Nat /\ MaxEcm \in Nat

VARIABLES
  mng,     \* prv->mng: the context is established
  card,    \* prv->card: a handle, 0 without one
  reader,  \* prv->reader: the reader in the list, Readers + 1 behind the last
  stat,    \* prv->stat: the handle whose card it is from, 0 before the first
  rbuf,    \* prv->rbuf: the ECM whose answer it holds, 0 for other answers
  retry_count,
  ecm,     \* number of the ECM in work
  open,    \* handles the service has given out and not taken back
  given,   \* number of them so far
  caller,  \* of connect_card(): init() or proc_ecm()
  pc

vars == <<mng, card, reader, stat, rbuf, retry_count, ecm, open, given, caller, pc>>

Init ==
  /\ mng = FALSE /\ card = 0 /\ reader = 1 /\ stat = 0 /\ rbuf = 0
  /\ retry_count = 0 /\ ecm = 0 /\ open = {} /\ given = 0
  /\ caller = "init" /\ pc = "establish"

(***************************************************************************)
(* init() and set_b_cas_card().                                            *)
(***************************************************************************)
Establish ==
  /\ pc = "establish"
  /\ \/ mng' = TRUE /\ pc' = "list"
     \/ mng' = FALSE /\ pc' = "failed"
  /\ UNCHANGED <<card, reader, stat, rbuf, retry_count, ecm, open, given, caller>>

\* SCardListReaders(), twice: for the size and for the names.
List ==
  /\ pc = "list"
  /\ pc' \in {"reader", "failed"}
  /\ UNCHANGED <<mng, card, reader, stat, rbuf, retry_count, ecm, open, given, caller>>

\* Mutant of NextReader: the loop goes on to the end of the list.
NextReaderPast ==
  /\ pc = "reader"
  /\ pc' = IF reader <= Readers + 1 THEN "connect" ELSE IF card = 0 THEN "failed" ELSE "status"
  /\ UNCHANGED <<mng, card, reader, stat, rbuf, retry_count, ecm, open, given, caller>>

\* The loop over the readers, and what init() returns after it.
NextReader ==
  /\ pc = "reader"
  /\ pc' = IF reader <= Readers THEN "connect" ELSE IF card = 0 THEN "failed" ELSE "status"
  /\ UNCHANGED <<mng, card, reader, stat, rbuf, retry_count, ecm, open, given, caller>>

\* get_init_status() is content with any handle; get_id() asks the card.
Status ==
  /\ pc = "status"
  /\ \/ rbuf' = 0 /\ pc' \in {"ready", "failed"}
     \/ UNCHANGED rbuf /\ pc' = "failed"
  /\ UNCHANGED <<mng, card, reader, stat, retry_count, ecm, open, given, caller>>

(***************************************************************************)
(* connect_card().                                                         *)
(***************************************************************************)
\* Mutant of Returns: a card that has been reset needs no second transmission.
ReturnsAnswered(success) ==
  IF caller = "init"
  THEN /\ pc' = IF success THEN "status" ELSE "reader"
       /\ reader' = IF success THEN reader ELSE reader + 1
  ELSE pc' = (IF success THEN "answered" ELSE "again") /\ UNCHANGED reader

\* Mutant of Returns: init() goes on to the next name before it leaves its loop.
ReturnsNext(success) ==
  IF caller = "init"
  THEN pc' = (IF success THEN "status" ELSE "reader") /\ reader' = reader + 1
  ELSE pc' = (IF success THEN "transmit" ELSE "again") /\ UNCHANGED reader

\* Back in the loop of init() or of proc_ecm().
Returns(success) ==
  IF caller = "init"
  THEN /\ pc' = IF success THEN "status" ELSE "reader"
       /\ reader' = IF success THEN reader ELSE reader + 1
  ELSE pc' = (IF success THEN "transmit" ELSE "again") /\ UNCHANGED reader

\* Mutant of Disconnected: the old handle is forgotten.
DisconnectedNot == open

\* SCardDisconnect()
Disconnected == open \ {card}

\* Disconnect and connect.  There is no reader behind the last.
Connect ==
  /\ pc = "connect"
  /\ \/ /\ reader <= Readers
        /\ given' = given + 1 /\ card' = given' /\ open' = Disconnected \cup {given'}
        /\ pc' = "setup" /\ UNCHANGED reader
     \/ /\ card' = 0 /\ open' = Disconnected
        /\ Returns(FALSE) /\ UNCHANGED given
  /\ UNCHANGED <<mng, stat, rbuf, retry_count, ecm, caller>>

\* INITIAL_SETTING_CONDITIONS: an answer, one that is too short, or none; the
\* handle is kept in any case.
Setup ==
  /\ pc = "setup"
  /\ \/ rbuf' = 0 /\ stat' = card /\ Returns(TRUE)
     \/ rbuf' \in {0, rbuf} /\ UNCHANGED stat /\ Returns(FALSE)
  /\ UNCHANGED <<mng, card, retry_count, ecm, open, given, caller>>

(***************************************************************************)
(* proc_ecm().                                                             *)
(***************************************************************************)
ProcEcm ==
  /\ pc = "ready" /\ ecm < MaxEcm
  /\ ecm' = ecm + 1 /\ retry_count' = 0 /\ caller' = "ecm"
  /\ pc' = IF card = 0 THEN "failed" ELSE "transmit"
  /\ UNCHANGED <<mng, card, reader, stat, rbuf, open, given>>

Transmit ==
  /\ pc = "transmit"
  /\ \/ rbuf' = ecm /\ pc' = "answered"
     \/ UNCHANGED rbuf /\ pc' = "again"
  /\ UNCHANGED <<mng, card, reader, stat, retry_count, ecm, open, given, caller>>

\* Mutant of Counted: only a reconnection that succeeds is counted.
CountedConnected == IF card = 0 THEN retry_count ELSE retry_count + 1

Counted == retry_count + 1

\* The loop after a transmission that has failed.
Again ==
  /\ pc = "again"
  /\ IF retry_count < MaxRetry
     THEN retry_count' = Counted /\ pc' = "connect"
     ELSE UNCHANGED retry_count /\ pc' = "failed"
  /\ UNCHANGED <<mng, card, reader, stat, rbuf, ecm, open, given, caller>>

\* The keys are taken from rbuf, and, for a new cipher, from stat.
Answered ==
  /\ pc = "answered"
  /\ pc' = "ready"
  /\ UNCHANGED <<mng, card, reader, stat, rbuf, retry_count, ecm, open, given, caller>>

\* teardown(), when the recording is over.
Release ==
  /\ pc = "ready" \/ (pc = "failed" /\ caller = "ecm")
  /\ open' = Disconnected /\ card' = 0 /\ mng' = FALSE /\ pc' = "released"
  /\ UNCHANGED <<reader, stat, rbuf, retry_count, ecm, given, caller>>

Done == pc \in {"failed", "released"} /\ UNCHANGED vars

Starting == Establish \/ List \/ NextReader \/ Status
Working == ProcEcm \/ Transmit \/ Again \/ Answered
Card == Starting \/ Connect \/ Setup \/ Working \/ Release
Next == Card \/ Done

\* The calls of the service return, and the caller goes on.
Spec == Init /\ [][Next]_vars /\ WF_vars(Card)

(***************************************************************************)
(* Properties.                                                             *)
(***************************************************************************)
PC == {"establish", "list", "reader", "status", "connect", "setup", "ready",
       "transmit", "again", "answered", "failed", "released"}

\* The variables are of their types, and there is a context whenever there is
\* a handle (B_CAS_CARD_PRIVATE_DATA, src/b1/b_cas_card.c:17-37).
TypeOK ==
  /\ mng \in BOOLEAN /\ given \in Nat /\ card \in 0 .. given /\ stat \in 0 .. given
  /\ reader \in 1 .. Readers + 1
  /\ ecm \in 0 .. MaxEcm /\ rbuf \in 0 .. ecm /\ retry_count \in 0 .. MaxRetry
  /\ open \subseteq 1 .. given /\ caller \in {"init", "ecm"} /\ pc \in PC
  /\ card # 0 => mng

\* Of all the handles the reconnections take, the service has at most the one
\* in prv->card to give back, and none when the card has been released
\* (connect_card at 430, teardown).
NoHandleLost == open = {card} \ {0} /\ (pc = "released" => open = {})

\* The keys proc_ecm() returns are the card's answer to this ECM: the answer to
\* the setup that a reconnection leaves in the same buffer, or an older one, is
\* never taken for it (rbuf at 288-325).
AnswersThisEcm == pc = "answered" => rbuf = ecm

\* Where TypeOK and NoHandleLost come from: there is a context and the reader is
\* in the list wherever one is needed; init() ends with the first setup that is
\* answered; and from a setup on, stat is of the handle in use, or 0 if no card
\* has answered one (174-176).
Progress ==
  /\ pc \notin {"establish", "failed", "released"} => mng
  /\ pc = "establish" => card = 0
  /\ caller = "init" /\ pc \in {"connect", "setup"} => reader <= Readers
  /\ pc \in {"establish", "list", "reader"} => caller = "init"
  /\ pc \in {"transmit", "again", "answered"} => caller = "ecm"
  /\ caller = "init" /\ pc \in {"establish", "list", "reader", "connect", "setup"} => stat = 0
  /\ pc \in {"status", "ready", "transmit", "answered"} => stat \in {0, card}

\* Every ECM is answered or given up, however the service fails (285-296).
EcmEnds == pc = "transmit" ~> pc \in {"ready", "failed"}
=============================================================================
