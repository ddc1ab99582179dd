--------------------------- MODULE SessionProofs ---------------------------
(***************************************************************************)
(* Theorems of module Session, for every channel list, path, number of     *)
(* readers, retries, ECMs and exchanged cards.                             *)
(***************************************************************************)
EXTENDS Session, BCasCardProofs, FiniteSetTheorems, SequenceTheorems

-----------------------------------------------------------------------------
(* The card: what a recording does to it, module BCasCard does.            *)

\* Every step of a session is a step of the card or leaves the card alone.
LEMMA CardSteps == ASSUME [SessionNext]_svars PROVE [Next]_vars
<1> USE DEF Next, Card, Starting, Working
<1>1. CASE Before
  BY <1>1 DEF Before, Arguments, Tuning, ParseTime, Stat, Mkdir, OpenOutput
<1>2. CASE Descrambling
  <2>1. CASE Decoder
    BY <2>1 DEF Decoder
  <2>2. CASE InitCard
    BY <2>2 DEF InitCard, Connecting
  <2>3. CASE Started
    BY <2>3 DEF Started
  <2>4. CASE AskCard
    BY <2>4 DEF AskCard, Connecting
  <2> QED BY <1>2, <2>1, <2>2, <2>3, <2>4 DEF Descrambling
<1>3. CASE SendEcm
  BY <1>3 DEF SendEcm
<1>4. CASE StopRecording \/ Environment
  BY <1>4 DEF StopRecording, Environment, OtherMkdir, Exchange
<1>5. CASE After
  BY <1>5 DEF After, CloseDevices, CloseOutput, Shutdown
<1>6. CASE Exited \/ UNCHANGED svars
  BY <1>6 DEF Exited, svars
<1> QED BY <1>1, <1>2, <1>3, <1>4, <1>5, <1>6 DEF SessionNext

-----------------------------------------------------------------------------
(* The keys: which connection they are from, and to which card.            *)

\* Connections are numbered as they are made; until a card is exchanged, those
\* to a reader reach the card of that reader; once a setup was answered, the
\* reader is kept, and no ECM is sent before.
Keys ==
  /\ cardOf \in Seq(Nat) /\ Len(cardOf) = given
  /\ inserted \in [1 .. Readers -> Nat] /\ exchanged \in Nat
  /\ exchanged = 0 => \A r \in 1 .. Readers : inserted[r] = r
  /\ pc = "setup" => card # 0 /\ reader <= Readers /\ (exchanged = 0 => cardOf[card] = reader)
  /\ stat # 0 => reader <= Readers /\ (exchanged = 0 => cardOf[stat] = reader)
  /\ ca_system_id \in 0 .. given /\ (ca_system_id # 0 => stat # 0)
  /\ caller = "ecm" => stat # 0
  /\ m2_key \in NoCipher .. given
  /\ m2_key # NoCipher =>
       /\ m2_key # 0 /\ caller = "ecm"
       /\ exchanged = 0 => cardOf[m2_key] = reader

\* No connection has been made at the start.
LEMMA KeysInit == ASSUME SessionInit PROVE Keys
<1> USE CardAssumption DEF CardAssumption
<1> QED BY DEF SessionInit, Init, Keys, NoCipher

\* The actions that leave card and keys alone.
LEMMA KeysKept == ASSUME Keys, UNCHANGED <<vars, cards>> PROVE Keys'
BY DEF Keys, vars, cards, NoCipher

\* A list with one number more.
LEMMA OneMore ==
  ASSUME NEW s \in Seq(Nat), NEW x \in Nat
  PROVE  /\ Append(s, x) \in Seq(Nat) /\ Len(Append(s, x)) = Len(s) + 1
         /\ Append(s, x)[Len(s) + 1] = x
         /\ \A c \in 1 .. Len(s) : Append(s, x)[c] = s[c]
OBVIOUS

\* connect_card(), for init() or for an ECM.
LEMMA KeysConnecting ==
  ASSUME IInv, Keys, Connecting,
         m2_key' = m2_key, ca_system_id' = ca_system_id,
         inserted' = inserted, exchanged' = exchanged
  PROVE  Keys'
<1> USE CardAssumption DEF CardAssumption, NoCipher
<1>1. /\ card \in 0 .. given /\ stat \in 0 .. given /\ reader \in 1 .. Readers + 1 /\ given \in Nat
      /\ caller \in {"init", "ecm"} /\ Readers \in Nat
  BY DEF IInv, TypeOK
<1>2. CASE Connect /\ given' = given + 1
  <2>1. /\ pc = "connect" /\ pc' = "setup" /\ card' = given + 1
        /\ reader' = reader /\ reader <= Readers /\ stat' = stat /\ caller' = caller
    <3>1. given' # given
      BY <1>1, <1>2
    <3> QED BY <1>2, <3>1 DEF Connect
  <2>2. cardOf' = Append(cardOf, inserted[reader])
    <3>1. ~Setup
      BY <2>1 DEF Setup
    <3>2. given' # given
      BY <1>1, <1>2
    <3> QED BY <3>1, <3>2 DEF Connecting
  <2>3. inserted[reader] \in Nat
    BY <1>1, <2>1 DEF Keys
  <2>4. /\ cardOf' \in Seq(Nat) /\ Len(cardOf') = given' /\ cardOf'[given + 1] = inserted[reader]
        /\ \A c \in 1 .. given : cardOf'[c] = cardOf[c]
    <3>1. cardOf \in Seq(Nat) /\ Len(cardOf) = given
      BY DEF Keys
    <3> QED BY <1>2, <2>2, <2>3, <3>1, OneMore
  <2> QED BY <1>1, <1>2, <2>1, <2>4 DEF Keys
<1>3. CASE Connect /\ given' # given + 1
  <2>1. /\ given' = given /\ stat' = stat /\ caller' = caller /\ cardOf' = cardOf
        /\ Returns(FALSE) /\ pc = "connect"
    BY <1>1, <1>3 DEF Connect, Connecting, Setup
  <2>2. pc' # "setup" /\ (caller = "init" => stat = 0) /\ (caller = "ecm" => reader' = reader)
    BY <1>1, <2>1 DEF Returns, IInv, Progress
  <2> QED BY <1>1, <2>1, <2>2 DEF Keys
<1>4. CASE Setup
  <2>1. /\ pc = "setup" /\ given' = given /\ caller' = caller /\ card' = card /\ cardOf' = cardOf
    BY <1>1, <1>4 DEF Connect, Connecting, Setup
  <2>2. pc' # "setup" /\ (caller = "init" => stat = 0) /\ (caller = "ecm" => reader' = reader)
    BY <1>1, <1>4, <2>1 DEF Setup, Returns, IInv, Progress
  <2>3. \/ stat' = card /\ reader' = reader
        \/ stat' = stat
    BY <1>4 DEF Setup, Returns
  <2> QED BY <1>1, <2>1, <2>2, <2>3 DEF Keys
<1> QED BY <1>2, <1>3, <1>4 DEF Connecting

\* The descrambler's steps, and those of the cards' owner.
LEMMA KeysStep == ASSUME IInv, Keys, [SessionNext]_svars PROVE Keys'
<1> USE CardAssumption DEF CardAssumption, NoCipher
<1>1. CASE Before
  BY <1>1, KeysKept DEF Before, Arguments, Tuning, ParseTime, Stat, Mkdir, OpenOutput
<1>2. CASE Decoder \/ Started
  BY <1>2, KeysKept DEF Decoder, Started
<1>3. CASE InitCard
  <2>1. CASE Establish \/ List \/ NextReader
    BY <1>3, <2>1 DEF InitCard, Establish, List, NextReader, Keys, Connecting, Connect, Setup, Status
  <2>2. CASE Connecting
    BY <1>3, <2>2, KeysConnecting DEF InitCard, Connecting, Connect, Setup, Establish, List,
       NextReader, Status
  <2>3. CASE Status /\ ca_system_id' = stat /\ UNCHANGED cardOf
    BY <1>3, <2>3 DEF InitCard, Status, Keys, IInv, TypeOK
  <2> QED BY <1>3, <2>1, <2>2, <2>3 DEF InitCard
<1>4. CASE SendEcm
  BY <1>4 DEF SendEcm, ProcEcm, Keys
<1>5. CASE AskCard
  <2>1. CASE Connecting /\ UNCHANGED m2_key
    BY <1>5, <2>1, KeysConnecting DEF AskCard
  <2>2. CASE Again /\ UNCHANGED <<m2_key, cardOf>>
    BY <1>5, <2>2 DEF AskCard, Again, Keys
  <2>3. CASE Transmit /\ UNCHANGED <<m2_key, cardOf>>
    BY <1>5, <2>3 DEF AskCard, Transmit, Keys
  <2>4. CASE Answered /\ m2_key' \in {NewCipher, NoCipher} /\ UNCHANGED cardOf
    <3>1. caller = "ecm" /\ stat \in 0 .. given
      BY <2>4 DEF IInv, TypeOK, Progress, Answered
    <3> QED BY <1>5, <2>4, <3>1 DEF AskCard, Answered, Keys, NewCipher
  <2> QED BY <1>5, <2>1, <2>2, <2>3, <2>4 DEF AskCard
<1>6. CASE Exchange
  <2>1. /\ UNCHANGED vars /\ UNCHANGED <<ca_system_id, m2_key, cardOf>>
        /\ reader \in 1 .. Readers /\ exchanged' = exchanged + 1
        /\ inserted' = [inserted EXCEPT ![reader] = Readers + exchanged']
    BY <1>6 DEF Exchange, IInv, TypeOK
  <2> QED BY <2>1 DEF Keys, vars
<1>7. CASE StopRecording \/ OtherMkdir
  BY <1>7, KeysKept DEF StopRecording, OtherMkdir
<1>8. CASE CloseDevices \/ CloseOutput
  BY <1>8, KeysKept DEF CloseDevices, CloseOutput
<1>9. CASE Shutdown
  BY <1>9 DEF Shutdown, Release, Keys, cards
<1>10. CASE Exited \/ UNCHANGED svars
  BY <1>10, KeysKept DEF Exited, svars
<1> QED BY <1>1, <1>2, <1>3, <1>4, <1>5, <1>6, <1>7, <1>8, <1>9, <1>10
        DEF SessionNext, Descrambling, After, Environment

-----------------------------------------------------------------------------
(* The theorems.                                                           *)

\* The invariants of the card hold in every recording, not only for a card on
\* its own: main() and the descrambler call b_cas_card.c in no other order than
\* BCasCard allows.
THEOREM CardInSession == SessionSpec => []IInv
<1>1. SessionInit => IInv
  BY InitOK DEF SessionInit
<1>2. IInv /\ [SessionNext]_svars => IInv'
  BY CardSteps, NextStep
<1> QED BY <1>1, <1>2, PTL DEF SessionSpec

\* A recording loses no handle of the card service: connect_card() gives the old
\* one back, whatever fails.
THEOREM HandlesInSession == SessionSpec => []NoHandleLost
BY CardInSession, PTL DEF IInv

\* The keys the descrambler gets are the answer to the ECM it has sent.
THEOREM AnswersInSession == SessionSpec => []AnswersThisEcm
BY CardInSession, PTL DEF IInv

\* The system key and the scramble keys of a cipher are from one card, as long
\* as nobody exchanges it, for every number of readers and reconnections.
THEOREM OneCardsKeys == SessionSpec => []KeysOfOneCard
<1>1. SessionInit => IInv /\ Keys
  BY InitOK, KeysInit DEF SessionInit
<1>2. IInv /\ Keys /\ [SessionNext]_svars => (IInv /\ Keys)'
  BY CardSteps, NextStep, KeysStep
<1>3. IInv /\ Keys => KeysOfOneCard
  <2> SUFFICES ASSUME IInv, Keys, m2_key # NoCipher
               PROVE  /\ m2_key # 0 /\ reader <= Readers
                      /\ exchanged = 0 => cardOf[m2_key] = inserted[reader]
    BY DEF KeysOfOneCard
  <2>1. m2_key # 0 /\ stat # 0 /\ reader <= Readers
    BY DEF Keys
  <2>2. reader \in 1 .. Readers
    BY <2>1, CardAssumption DEF CardAssumption, IInv, TypeOK
  <2> QED BY <2>1, <2>2 DEF Keys
<1> QED BY <1>1, <1>2, <1>3, PTL DEF SessionSpec

-----------------------------------------------------------------------------
(* The path of the output file.                                            *)

\* mkpath() has gone over directories that exist; do_mkdir() has found none where
\* it is about to make one, unless stat() failed or somebody has just made it.
Path ==
  /\ comp \in 0 .. Depth /\ 1 .. comp \subseteq dirs
  /\ \E n \in 0 .. Depth : dirs = 1 .. n
  /\ plain \in BOOLEAN /\ raced \in BOOLEAN /\ refused \in BOOLEAN
  /\ at = "mkdir" => comp < Depth /\ (refused \/ raced \/ comp + 1 \notin dirs)
  /\ at = "output" => comp = Depth \/ InTheWay \/ refused \/ (raced /\ comp + 1 \in dirs)

\* Only the steps of mkpath() and of the other recorder are about the path.
LEMMA PathKept ==
  ASSUME Path, UNCHANGED path, at' \notin {"mkdir", "output"} \/ at' = at
  PROVE  Path'
BY DEF Path, path, InTheWay

\* The steps that are about it.
LEMMA PathStep == ASSUME Path, Stat \/ Mkdir \/ OtherMkdir PROVE Path'
<1> USE SessionAssumption DEF SessionAssumption
<1>1. PICK n \in 0 .. Depth : dirs = 1 .. n
  BY DEF Path
<1>2. comp \in 0 .. Depth /\ comp <= n /\ n \in Nat
  <2>1. comp \in 0 .. Depth /\ (comp > 0 => comp \in 1 .. comp)
    BY DEF Path
  <2> QED BY <1>1, <2>1 DEF Path
<1>3. CASE Stat
  <2>1. dirs' = dirs /\ raced' = raced /\ plain' = plain
    BY <1>3 DEF Stat
  <2>2. CASE comp = Depth /\ at' = "output" /\ UNCHANGED <<comp, refused>>
    BY <2>1, <2>2 DEF Path
  <2>3. CASE comp < Depth /\ comp + 1 \in dirs /\ comp' = comp + 1 /\ NextDir /\ UNCHANGED refused
    <3>1. comp' = comp + 1 /\ at' = IF comp' < Depth THEN "stat" ELSE "output"
      BY <2>3 DEF NextDir
    <3>2. comp + 1 <= n /\ comp' \in 0 .. Depth /\ 1 .. comp' \subseteq dirs
      BY <1>1, <1>2, <2>3
    <3>3. at' = "output" => comp' = Depth
      BY <1>2, <3>1, <3>2
    <3> QED BY <2>1, <2>3, <3>1, <3>2, <3>3 DEF Path
  <2>4. CASE comp < Depth /\ InTheWay /\ at' = "output" /\ UNCHANGED <<comp, refused>>
    BY <2>1, <2>4 DEF Path, InTheWay
  <2>5. CASE /\ comp < Depth /\ at' = "mkdir" /\ UNCHANGED comp
             /\ refused' = (comp + 1 \in dirs \/ InTheWay)
    BY <2>1, <2>5 DEF Path, InTheWay
  <2> QED BY <1>3, <2>2, <2>3, <2>4, <2>5 DEF Stat
<1>4. CASE Mkdir /\ dirs' # dirs
  <2>1. /\ comp + 1 \notin dirs /\ dirs' = dirs \cup {comp + 1} /\ comp' = comp + 1
        /\ at' = IF comp' < Depth THEN "stat" ELSE "output"
        /\ plain' = plain /\ raced' = raced /\ refused' = refused
    BY <1>4 DEF Mkdir, NextDir
  <2>2. comp = n /\ comp < Depth
    BY <1>1, <1>2, <1>4, <2>1 DEF Mkdir, Path
  <2>3. dirs' = 1 .. n + 1
    BY <1>1, <1>2, <2>1, <2>2
  <2> QED BY <1>2, <2>1, <2>2, <2>3 DEF Path
<1>5. CASE Mkdir /\ dirs' = dirs
  <2>1. /\ comp' = comp /\ at' = "output" /\ raced' = raced
        /\ plain' = plain /\ refused' = (refused \/ comp + 1 \notin dirs)
    BY <1>5 DEF Mkdir
  <2>2. refused \/ raced \/ comp + 1 \notin dirs
    BY <1>5 DEF Mkdir, Path
  <2> QED BY <1>5, <2>1, <2>2 DEF Path
<1>6. CASE OtherMkdir
  <2>1. Cardinality(dirs) = n
    <3>1. 1 \in Int /\ n \in Int
      BY <1>2
    <3>2. Cardinality(1 .. n) = IF 1 > n THEN 0 ELSE n - 1 + 1
      BY <3>1, FS_Interval
    <3> QED BY <1>1, <1>2, <3>2
  <2>2. /\ dirs' = dirs \cup {n + 1} /\ at' = at /\ comp' = comp
        /\ plain' = plain /\ refused' = refused
        /\ raced' = (raced \/ (at = "mkdir" /\ n + 1 = comp + 1))
        /\ at \in {"stat", "mkdir"} /\ dirs # 1 .. Depth
    BY <1>6, <2>1 DEF OtherMkdir
  <2>3. n < Depth /\ dirs' = 1 .. n + 1
    BY <1>1, <1>2, <2>2
  <2>4. at = "mkdir" => comp < Depth /\ (refused \/ raced' \/ comp + 1 \notin dirs')
    <3>1. CASE at = "mkdir" /\ ~raced'
      BY <1>2, <2>2, <3>1 DEF Path
    <3> QED BY <3>1 DEF Path
  <2> QED BY <1>2, <2>2, <2>3, <2>4 DEF Path
<1> QED BY <1>3, <1>4, <1>5, <1>6

\* Every step, as far as the path is concerned.
LEMMA PathNext == ASSUME Path, [SessionNext]_svars PROVE Path'
<1>1. CASE Stat \/ Mkdir \/ OtherMkdir
  BY <1>1, PathStep
<1>2. CASE Arguments \/ Tuning \/ ParseTime \/ OpenOutput
  BY <1>2, PathKept DEF Arguments, Tuning, ParseTime, OpenOutput, Search, Tune, OpenList,
     ReadLine, NotFound, OptionLetter, SymbolRate, OpenFrontend, GetInfo, SetProperty, Poll,
     NoLock, OpenDemux, SetFilter, OpenDvr, CloseDemux
<1>3. CASE Descrambling \/ SendEcm
  BY <1>3, PathKept DEF Descrambling, Decoder, InitCard, Started, FallBack, AskCard, SendEcm
<1>4. CASE StopRecording \/ After \/ Exchange \/ Exited \/ UNCHANGED svars
  BY <1>4, PathKept DEF StopRecording, After, CloseDevices, CloseOutput, Shutdown, Exchange,
     Exited, svars, path
<1> QED BY <1>1, <1>2, <1>3, <1>4 DEF SessionNext, Before, Environment

\* None is gone over at the start.
LEMMA PathInit == ASSUME SessionInit PROVE Path
<1>1. comp = 0 /\ plain \in BOOLEAN /\ raced = FALSE /\ refused = FALSE /\ at = "args"
  BY DEF SessionInit
<1>2. /\ \E n \in 0 .. Depth : dirs = 1 .. n
      /\ 0 \in 0 .. Depth /\ 1 .. 0 \subseteq dirs
  BY SessionAssumption DEF SessionAssumption, SessionInit
<1> QED BY <1>1, <1>2 DEF Path

\* If mkpath() stops short of the whole path, then because a file is in the way, a
\* call failed or another recorder made the directory first, and at no later place.
THEOREM PathIsMade == SessionSpec => []PathMade
<1>1. Path => PathMade
  BY DEF Path, PathMade
<1> QED BY <1>1, PathInit, PathNext, PTL DEF SessionSpec

-----------------------------------------------------------------------------
(* What a recording has opened and allocated.                              *)

\* Where main() is until each of the descriptors is opened.
UntilFrontend == {"args", "list", "line", "options", "frontend"}
UntilDemux == UntilFrontend \cup {"info", "property", "poll", "demux"}
UntilDvr == UntilDemux \cup {"filter", "dvr"}
UntilOutput == UntilDvr \cup {"time", "stat", "mkdir", "output"}

\* Whatever is open is in the variable that close_tuner() or main() will look at.
Held ==
  /\ fds \in [Fd -> Device \cup {"inherited", "output", "closed"}] /\ dmxfd \in Fd
  /\ \A n \in Fd \ {0} :
       /\ fds[n] = "frontend" => fefd = n
       /\ fds[n] = "demux" => dmxfd = n
       /\ fds[n] = "dvr" => tfd = n
  /\ \A n \in Fd : fds[n] = "output" => wfd = n
  /\ at \in UntilFrontend => fefd = 0
  /\ at \in UntilDemux => dmxfd = 0
  /\ at \in UntilDvr => tfd = -1
  /\ at \in {"sync", "shutdown", "exit 0"} => fefd = 0 /\ dmxfd = 0 /\ tfd = -1
  /\ at \in UntilOutput \cup {"shutdown", "exit 0"} => \A n \in Fd : fds[n] # "output"

\* A decoder is given back before the end.
Handed == at = "exit 0" /\ use_b1 => objects = {} /\ pc = "released" /\ ~mng

\* 0 is a descriptor, and no other one means that there is none.
LEMMA Numbers == 0 \in Fd /\ \A n \in Fd \ {0} : n # 0 /\ n # -1
BY DEF Fd

\* Until main() is somewhere else, or further on the same side of each opening,
\* nothing about the descriptors changes.
LEMMA HeldKept ==
  ASSUME Held, UNCHANGED <<descriptors, wfd>>,
         at' \in UntilFrontend => at \in UntilFrontend,
         at' \in UntilDemux => at \in UntilDemux,
         at' \in UntilDvr => at \in UntilDvr,
         at' \in UntilOutput => at \in UntilOutput,
         at' = at \/ at' \notin {"sync", "shutdown", "exit 0"} \/ (at = "shutdown" /\ at' = "exit 0")
  PROVE  Held'
<1>1. fds' = fds /\ fefd' = fefd /\ dmxfd' = dmxfd /\ tfd' = tfd /\ wfd' = wfd
  BY DEF descriptors
<1> QED BY <1>1 DEF Held

\* A failure behind the opening of the demux closes it again.
LEMMA HeldDemux ==
  ASSUME Held, CloseDemux, fefd' = fefd, tfd' = tfd, wfd' = wfd
  PROVE  Held'
<1>1. dmxfd \in Fd /\ fds \in [Fd -> Device \cup {"inherited", "output", "closed"}]
  BY DEF Held
<1>2. /\ fds' \in [Fd -> Device \cup {"inherited", "output", "closed"}]
      /\ \A n \in Fd : fds'[n] = IF n = dmxfd THEN "closed" ELSE fds[n]
  BY <1>1 DEF CloseDemux
<1>3. dmxfd' = 0 /\ 0 \in Fd /\ at' = "exit 1"
  BY Numbers DEF CloseDemux
<1>4. \A n \in Fd \ {0} :
        /\ fds'[n] = "frontend" => fefd' = n
        /\ fds'[n] = "demux" => dmxfd' = n
        /\ fds'[n] = "dvr" => tfd' = n
  BY <1>2 DEF Held
<1>5. \A n \in Fd : fds'[n] = "output" => wfd' = n
  BY <1>2 DEF Held
<1> QED BY <1>2, <1>3, <1>4, <1>5 DEF Held, UntilFrontend, UntilDemux, UntilDvr, UntilOutput

\* The openings, and what closes.
LEMMA HeldStep ==
  ASSUME Held, \/ (OpenFrontend \/ OpenDemux \/ SetFilter \/ OpenDvr) /\ wfd' = wfd
               \/ OpenOutput \/ CloseDevices \/ CloseOutput
  PROVE  Held'
<1> USE DEF Held, UntilFrontend, UntilDemux, UntilDvr, UntilOutput, Fd, Device, Free
<1>1. CASE OpenFrontend /\ wfd' = wfd
  BY <1>1 DEF OpenFrontend
<1>2. CASE OpenDemux /\ wfd' = wfd
  BY <1>2 DEF OpenDemux
<1>3. CASE SetFilter /\ wfd' = wfd
  <2>1. CASE at' = "dvr"
    BY <1>3, <2>1 DEF SetFilter, CloseDemux
  <2>2. CASE CloseDemux
    BY <1>3, <2>2, HeldDemux DEF SetFilter
  <2> QED BY <1>3, <2>1, <2>2 DEF SetFilter
<1>4. CASE OpenDvr /\ wfd' = wfd
  <2>1. CASE at' = "time"
    BY <1>4, <2>1 DEF OpenDvr, CloseDemux
  <2>2. CASE CloseDemux /\ tfd' = tfd
    BY <1>4, <2>2, HeldDemux DEF OpenDvr
  <2> QED BY <1>4, <2>1, <2>2 DEF OpenDvr
<1>5. CASE OpenOutput
  BY <1>5 DEF OpenOutput
<1>6. CASE CloseDevices
  BY <1>6 DEF CloseDevices, CloseTuner
<1>7. CASE CloseOutput
  <2>1. /\ fds' = [n \in Fd |-> IF n = wfd /\ fds[n] = "output" THEN "closed" ELSE fds[n]]
        /\ at = "sync" /\ at' \in {"shutdown", "exit 0"}
        /\ fefd' = fefd /\ dmxfd' = dmxfd /\ tfd' = tfd /\ wfd' = wfd
    BY <1>7 DEF CloseOutput
  <2>2. \A n \in Fd : fds'[n] # "output"
    BY <2>1
  <2> QED BY <2>1, <2>2
<1> QED BY <1>1, <1>2, <1>3, <1>4, <1>5, <1>6, <1>7

LEMMA HeldNext == ASSUME Held, [SessionNext]_svars PROVE Held'
<1> USE DEF UntilFrontend, UntilDemux, UntilDvr, UntilOutput
<1>1. CASE Arguments \/ Stat \/ Mkdir
  BY <1>1, HeldKept DEF Arguments, Stat, Mkdir, NextDir, tuner
<1>2. CASE Tuning
  <2>1. CASE Search
    BY <1>2, <2>1, HeldKept DEF Tuning, Search, OpenList, ReadLine, NotFound, OptionLetter, SymbolRate
  <2>2. CASE GetInfo \/ SetProperty \/ Poll \/ NoLock
    BY <1>2, <2>2, HeldKept DEF Tuning, GetInfo, SetProperty, Poll, NoLock
  <2>3. CASE OpenFrontend \/ OpenDemux \/ SetFilter \/ OpenDvr
    BY <1>2, <2>3, HeldStep DEF Tuning
  <2> QED BY <1>2, <2>1, <2>2, <2>3 DEF Tuning, Tune
<1>3. CASE ParseTime
  BY <1>3 DEF ParseTime, Held, tuner, descriptors, Fd, Device
<1>4. CASE OpenOutput \/ CloseDevices \/ CloseOutput
  BY <1>4, HeldStep
<1>5. CASE Descrambling \/ SendEcm
  BY <1>5, HeldKept DEF Descrambling, Decoder, InitCard, Started, FallBack, AskCard, SendEcm, tuner
<1>6. CASE StopRecording \/ Shutdown \/ Environment \/ Exited \/ UNCHANGED svars
  BY <1>6, HeldKept DEF StopRecording, Shutdown, Environment, OtherMkdir, Exchange, Exited,
     svars, tuner
<1> QED BY <1>1, <1>2, <1>3, <1>4, <1>5, <1>6 DEF SessionNext, Before, After

LEMMA HandedNext == ASSUME Handed, [SessionNext]_svars PROVE Handed'
<1>1. CASE Arguments \/ ParseTime \/ Stat \/ Mkdir \/ OpenOutput
  BY <1>1 DEF Handed, Arguments, ParseTime, Stat, Mkdir, NextDir, OpenOutput
<1>2. CASE Tuning
  BY <1>2 DEF Handed, Tuning, Search, Tune, OpenList, ReadLine, NotFound, OptionLetter,
     SymbolRate, OpenFrontend, GetInfo, SetProperty, Poll, NoLock, OpenDemux, SetFilter, OpenDvr,
     CloseDemux
<1>3. CASE Descrambling \/ SendEcm \/ StopRecording \/ CloseDevices \/ Environment
  BY <1>3 DEF Handed, Descrambling, Decoder, InitCard, Started, FallBack, AskCard, SendEcm,
     StopRecording, CloseDevices, Environment, OtherMkdir, Exchange
<1>4. CASE CloseOutput
  BY <1>4 DEF Handed, CloseOutput, decoder
<1>5. CASE Shutdown
  BY <1>5 DEF Handed, Shutdown, Release
<1>6. CASE Exited \/ UNCHANGED svars
  BY <1>6 DEF Handed, Exited, svars, vars, decoder
<1> QED BY <1>1, <1>2, <1>3, <1>4, <1>5, <1>6 DEF SessionNext, Before, After

\* At the end of a recording all that was opened has been closed, but for a
\* device that has got the number 0, and a decoder has been given back whole.
THEOREM AllGivenBack == SessionSpec => []GivenBack
<1>1. SessionInit => IInv /\ Held /\ Handed
  <2> SUFFICES ASSUME SessionInit PROVE IInv /\ Held /\ Handed
    OBVIOUS
  <2>1. Held
    BY DEF SessionInit, TunerInit, Held, Fd, Device, UntilFrontend, UntilDemux, UntilDvr,
       UntilOutput
  <2> QED BY <2>1, InitOK DEF SessionInit, Handed
<1>2. IInv /\ Held /\ Handed /\ [SessionNext]_svars => (IInv /\ Held /\ Handed)'
  BY CardSteps, NextStep, HeldNext, HandedNext
<1>3. IInv /\ Held /\ Handed => GivenBack
  <2> SUFFICES ASSUME IInv, Held, Handed, at = "exit 0"
               PROVE  /\ \A n \in Fd \ {0} : fds[n] \in {"closed", "inherited"}
                      /\ use_b1 => objects = {} /\ open = {} /\ ~mng
    BY DEF GivenBack
  <2>1. \A n \in Fd \ {0} : fds[n] \in {"closed", "inherited"}
    <3>1. fefd = 0 /\ dmxfd = 0 /\ tfd = -1 /\ \A n \in Fd : fds[n] # "output"
      BY DEF Held
    <3> QED BY <3>1, Numbers DEF Held, Device
  <2>2. use_b1 => objects = {} /\ pc = "released" /\ ~mng
    BY DEF Handed
  <2>3. pc = "released" => open = {}
    BY DEF IInv, NoHandleLost
  <2> QED BY <2>1, <2>2, <2>3
<1> QED BY <1>1, <1>2, <1>3, PTL DEF SessionSpec

-----------------------------------------------------------------------------
(* What is read from the channel list.                                     *)

\* What the first k options of a line make of the defaults.
Told(s, k) ==
  [polarity |-> IF \E i \in 1 .. k : s[i] = "V" /\ \A j \in i + 1 .. k : s[j] # "H"
                THEN "V" ELSE "H",
   tone |-> \E i \in 1 .. k : s[i] = "T",
   delsys |-> IF \E i \in 1 .. k : s[i] = "1" THEN "S" ELSE "S2"]

\* What the loop over the options finds in a line: in one that ends behind them,
\* the newline.
OptionsOf(l) == l.options \o (IF l.fields = 3 /\ l.newline THEN <<"unknown">> ELSE <<>>)

\* The loop is behind k of the options s, all of them known; r is what is left,
\* t what has been found.
Reading(s, r, t) ==
  \E k \in 0 .. Len(s) :
    r = SubSeq(s, k + 1, Len(s)) /\ (\A i \in 1 .. k : s[i] # "unknown") /\ t = Told(s, k)

\* Only the last line of the list may lack its newline.  What a line has left in
\* the settings when the search goes on behind it, no other line is there to find.
Sought ==
  /\ list \in Seq(Line) /\ line \in Line
  /\ \A i \in 1 .. Len(list) - 1 : list[i].newline
  /\ at \in {"line", "options"} => line.newline \/ list = <<>>
  /\ at \in {"args", "list"} => line = NoLine /\ settings = Defaults
  /\ at = "line" /\ list # <<>> => settings = Defaults
  /\ at = "options" => line.fields \in 3 .. 4 /\ Reading(OptionsOf(line), rest, settings)
  /\ at \in {"frontend", "info", "property"} /\ line # NoLine => settings = Listed(line)

\* Before the first option there are the defaults.
LEMMA ToldNone == ASSUME NEW s PROVE Told(s, 0) = Defaults
<1>1. ~\E i \in 1 .. 0 : TRUE
  OBVIOUS
<1>2. (\E i \in 1 .. 0 : s[i] = "T") = FALSE
  BY <1>1
<1> QED BY <1>1, <1>2 DEF Told, Defaults

\* Behind the last option there is what the line means.
LEMMA ToldAll ==
  ASSUME NEW l \in Line
  PROVE  Told(l.options, Len(l.options)) = Listed(l)
<1>1. DOMAIN l.options = 1 .. Len(l.options)
  BY DEF Line
<1> QED BY <1>1 DEF Told, Listed, Has, Vertical

\* The values of the settings.
Settings == [polarity : {"H", "V"}, tone : BOOLEAN, delsys : {"S", "S2"}]

\* Settings that agree in their fields.
LEMMA SameSettings ==
  ASSUME NEW t \in Settings, NEW u \in Settings,
         t.polarity = "V" <=> u.polarity = "V", t.tone <=> u.tone, t.delsys = "S" <=> u.delsys = "S"
  PROVE  t = u
<1>1. t.tone = u.tone /\ t.polarity = u.polarity /\ t.delsys = u.delsys
  BY DEF Settings
<1> QED BY <1>1 DEF Settings

\* What a turn of the loop does to the settings.
LEMMA ToldMore ==
  ASSUME NEW s \in Seq(Option), NEW k \in Nat, k < Len(s), NEW t, t = Told(s, k),
         NEW u, u = CASE s[k + 1] \in {"H", "V"} -> [t EXCEPT !.polarity = s[k + 1]]
                      [] s[k + 1] = "T" -> [t EXCEPT !.tone = TRUE]
                      [] s[k + 1] = "1" -> [t EXCEPT !.delsys = "S"]
                      [] OTHER -> t,
         s[k + 1] # "unknown"
  PROVE  u = Told(s, k + 1)
<1> DEFINE o == s[k + 1]
           n == k + 1
           p(m) == \E i \in 1 .. m : s[i] = "V" /\ \A j \in i + 1 .. m : s[j] # "H"
           v(m) == \E i \in 1 .. m : s[i] = "T"
           d(m) == \E i \in 1 .. m : s[i] = "1"
<1>1. o \in {"H", "V", "T", "1"}
  BY DEF Option
<1>2. 1 .. n = 1 .. k \cup {n} /\ n \notin 1 .. k
  OBVIOUS
<1>3. v(n) <=> (v(k) \/ o = "T")
  BY <1>2
<1>4. d(n) <=> (d(k) \/ o = "1")
  BY <1>2
<1>5. o = "V" => p(n)
  <2>1. n \in 1 .. n /\ ~\E j \in n + 1 .. n : TRUE
    OBVIOUS
  <2> QED BY <2>1
<1>6. o = "H" => ~p(n)
  <2>1. ASSUME o = "H", NEW i \in 1 .. n, s[i] = "V" PROVE \E j \in i + 1 .. n : s[j] = "H"
    <3>1. i # n /\ n \in i + 1 .. n
      BY <2>1
    <3> QED BY <2>1, <3>1
  <2> QED BY <2>1
<1>7. o \in {"T", "1"} => (p(n) <=> p(k))
  <2> SUFFICES ASSUME o \in {"T", "1"} PROVE p(n) <=> p(k)
    OBVIOUS
  <2>1. \A i \in 1 .. k : (\A j \in i + 1 .. n : s[j] # "H") <=> (\A j \in i + 1 .. k : s[j] # "H")
    <3>1. \A i \in 1 .. k : i + 1 .. n = (i + 1 .. k) \cup {n}
      OBVIOUS
    <3> QED BY <3>1
  <2>2. s[n] # "V"
    OBVIOUS
  <2> QED BY <1>2, <2>1, <2>2
<1>8. /\ t \in Settings
      /\ t.polarity = "V" <=> p(k)
      /\ t.tone <=> v(k)
      /\ t.delsys = "S" <=> d(k)
  BY DEF Told, Settings
<1> DEFINE w == Told(s, n)
<1>9. /\ w \in Settings
      /\ w.polarity = "V" <=> p(n)
      /\ w.tone <=> v(n)
      /\ w.delsys = "S" <=> d(n)
  BY DEF Told, Settings
<1> SUFFICES u = w
  OBVIOUS
<1>10. CASE o = "H"
  <2>1. u = [t EXCEPT !.polarity = "H"]
    BY <1>10
  <2>2. u \in Settings /\ u.polarity = "H" /\ u.delsys = t.delsys /\ u.tone = t.tone
    BY <1>8, <2>1 DEF Settings
  <2> HIDE DEF p, v, d, o, n, w
  <2>3. /\ u.polarity = "V" <=> w.polarity = "V"
        /\ u.tone <=> w.tone
        /\ u.delsys = "S" <=> w.delsys = "S"
    BY <1>3, <1>4, <1>6, <1>8, <1>9, <1>10, <2>2
  <2> QED BY <1>9, <2>2, <2>3, SameSettings
<1>11. CASE o = "V"
  <2>1. u = [t EXCEPT !.polarity = "V"]
    BY <1>11
  <2>2. u \in Settings /\ u.polarity = "V" /\ u.delsys = t.delsys /\ u.tone = t.tone
    BY <1>8, <2>1 DEF Settings
  <2> HIDE DEF p, v, d, o, n, w
  <2>3. /\ u.polarity = "V" <=> w.polarity = "V"
        /\ u.tone <=> w.tone
        /\ u.delsys = "S" <=> w.delsys = "S"
    BY <1>3, <1>4, <1>5, <1>8, <1>9, <1>11, <2>2
  <2> QED BY <1>9, <2>2, <2>3, SameSettings
<1>12. CASE o = "T"
  <2>1. u = [t EXCEPT !.tone = TRUE]
    BY <1>12
  <2>2. u \in Settings /\ u.polarity = t.polarity /\ u.delsys = t.delsys /\ u.tone
    BY <1>8, <2>1 DEF Settings
  <2> HIDE DEF p, v, d, o, n, w
  <2>3. /\ u.polarity = "V" <=> w.polarity = "V"
        /\ u.tone <=> w.tone
        /\ u.delsys = "S" <=> w.delsys = "S"
    BY <1>3, <1>4, <1>7, <1>8, <1>9, <1>12, <2>2
  <2> QED BY <1>9, <2>2, <2>3, SameSettings
<1>13. CASE o = "1"
  <2>1. u = [t EXCEPT !.delsys = "S"]
    BY <1>13
  <2>2. u \in Settings /\ u.polarity = t.polarity /\ u.delsys = "S" /\ u.tone = t.tone
    BY <1>8, <2>1 DEF Settings
  <2> HIDE DEF p, v, d, o, n, w
  <2>3. /\ u.polarity = "V" <=> w.polarity = "V"
        /\ u.tone <=> w.tone
        /\ u.delsys = "S" <=> w.delsys = "S"
    BY <1>3, <1>4, <1>7, <1>8, <1>9, <1>13, <2>2
  <2> QED BY <1>9, <2>2, <2>3, SameSettings
<1> QED BY <1>1, <1>10, <1>11, <1>12, <1>13

\* The loop at its beginning.
LEMMA ReadFirst == ASSUME NEW s \in Seq(Option) PROVE Reading(s, s, Defaults)
<1>1. /\ 0 \in 0 .. Len(s) /\ SubSeq(s, 0 + 1, Len(s)) = s
      /\ \A i \in 1 .. 0 : s[i] # "unknown"
  <2>1. Len(s) \in Nat /\ Len(SubSeq(s, 1, Len(s))) = Len(s)
    OBVIOUS
  <2>2. SubSeq(s, 1, Len(s)) = s
    OBVIOUS
  <2> QED BY <2>1, <2>2
<1> QED BY <1>1, ToldNone DEF Reading

\* The loop goes on to the next option.
LEMMA ReadNext ==
  ASSUME NEW s \in Seq(Option), NEW r, NEW t, Reading(s, r, t), r # <<>>,
         NEW o, o = Head(r), o # "unknown",
         NEW u, u = CASE o \in {"H", "V"} -> [t EXCEPT !.polarity = o]
                      [] o = "T" -> [t EXCEPT !.tone = TRUE]
                      [] o = "1" -> [t EXCEPT !.delsys = "S"]
                      [] OTHER -> t
  PROVE  Reading(s, Tail(r), u)
<1>1. PICK k \in 0 .. Len(s) :
        r = SubSeq(s, k + 1, Len(s)) /\ (\A i \in 1 .. k : s[i] # "unknown") /\ t = Told(s, k)
  BY DEF Reading
<1>2. k \in Nat /\ Len(s) \in Nat /\ k < Len(s)
  <2>1. k = Len(s) => SubSeq(s, k + 1, Len(s)) = <<>>
    OBVIOUS
  <2> QED BY <1>1, <2>1
<1>3. o = s[k + 1] /\ Tail(r) = SubSeq(s, k + 2, Len(s))
  <2> DEFINE n == Len(s)
             q == SubSeq(s, k + 2, n)
  <2>1. /\ r \in Seq(Option) /\ Len(r) = n - k /\ \A i \in 1 .. n - k : r[i] = s[k + i]
    <3> DEFINE w == SubSeq(s, k + 1, n)
    <3>1. /\ w \in Seq(Option) /\ Len(w) = n - k /\ \A i \in 1 .. n - k : w[i] = s[k + i]
      BY <1>2
    <3> HIDE DEF w
    <3> QED BY <1>1, <3>1 DEF w
  <2>2. /\ q \in Seq(Option) /\ Len(q) = n - k - 1 /\ \A i \in 1 .. n - k - 1 : q[i] = s[k + 1 + i]
    BY <1>2
  <2>3. /\ Tail(r) \in Seq(Option) /\ Len(Tail(r)) = n - k - 1
        /\ \A i \in 1 .. n - k - 1 : Tail(r)[i] = s[k + 1 + i]
    <3>1. Tail(r) \in Seq(Option) /\ Len(Tail(r)) = Len(r) - 1
      BY <2>1
    <3>2. \A i \in 1 .. n - k - 1 : Tail(r)[i] = r[i + 1] /\ r[i + 1] = s[k + 1 + i]
      BY <1>2, <2>1
    <3> QED BY <2>1, <3>1, <3>2
  <2>4. o = r[1] /\ 1 \in 1 .. n - k
    BY <1>2
  <2> HIDE DEF q, n
  <2>5. Tail(r) = q
    BY <2>2, <2>3, SeqEqual
  <2> QED BY <1>2, <2>1, <2>4, <2>5 DEF q, n
<1>4. u = Told(s, k + 1)
  BY <1>1, <1>2, <1>3, ToldMore
<1>5. \A i \in 1 .. k + 1 : s[i] # "unknown"
  BY <1>1, <1>2, <1>3
<1>6. k + 1 \in 0 .. Len(s) /\ (k + 1) + 1 = k + 2
  BY <1>2
<1> QED BY <1>3, <1>4, <1>5, <1>6 DEF Reading

\* The loop at its end.
LEMMA ReadLast ==
  ASSUME NEW s \in Seq(Option), NEW t, Reading(s, <<>>, t)
  PROVE  t = Told(s, Len(s)) /\ \A i \in 1 .. Len(s) : s[i] # "unknown"
<1>1. PICK k \in 0 .. Len(s) :
        <<>> = SubSeq(s, k + 1, Len(s)) /\ (\A i \in 1 .. k : s[i] # "unknown") /\ t = Told(s, k)
  BY DEF Reading
<1>2. k = Len(s)
  <2> SUFFICES ASSUME k # Len(s) PROVE FALSE
    OBVIOUS
  <2>1. Len(s) \in Nat /\ k \in Nat /\ k < Len(s)
    OBVIOUS
  <2> DEFINE r == SubSeq(s, k + 1, Len(s))
  <2>2. Len(r) = Len(s) - k
    BY <2>1
  <2>3. r = <<>>
    BY <1>1
  <2> HIDE DEF r
  <2> QED BY <2>1, <2>2, <2>3
<1> QED BY <1>1, <1>2

\* What the loop goes over are options.
LEMMA OptionsAre ==
  ASSUME NEW l \in Line
  PROVE  /\ OptionsOf(l) \in Seq(Option)
         /\ l.fields = 4 => OptionsOf(l) = l.options
         /\ l.fields = 3 /\ l.newline =>
              OptionsOf(l)[Len(OptionsOf(l))] = "unknown" /\ Len(OptionsOf(l)) \in Nat \ {0}
<1>1. l.options \in Seq(Option) /\ "unknown" \in Option
  BY DEF Line, Option
<1>2. CASE l.fields = 3 /\ l.newline
  <2>1. OptionsOf(l) = l.options \o <<"unknown">> /\ <<"unknown">> \in Seq(Option)
    BY <1>1, <1>2 DEF OptionsOf
  <2>2. /\ OptionsOf(l) \in Seq(Option) /\ Len(OptionsOf(l)) = Len(l.options) + 1
        /\ OptionsOf(l)[Len(l.options) + 1] = "unknown" /\ Len(l.options) \in Nat
    BY <1>1, <2>1
  <2> QED BY <1>2, <2>2
<1>3. CASE ~(l.fields = 3 /\ l.newline)
  <2>1. OptionsOf(l) = l.options \o <<>>
    BY <1>3 DEF OptionsOf
  <2>2. OptionsOf(l) = l.options
    BY <1>1, <2>1
  <2> QED BY <1>1, <1>3, <2>2
<1> QED BY <1>2, <1>3

\* No line is a line without options, and an empty list has no lines.
LEMMA NoneIsLine ==
  NoLine \in Line /\ <<>> \in Seq(Line) /\ ~\E i \in 1 .. Len(<<>>) - 1 : TRUE
<1>1. <<>> \in Seq(Option) /\ 1 \in 1 .. 4 /\ FALSE \in BOOLEAN /\ TRUE \in BOOLEAN
  OBVIOUS
<1>2. NoLine \in Line
  BY <1>1 DEF NoLine, Line
<1>3. Len(<<>>) = 0
  OBVIOUS
<1> QED BY <1>2, <1>3

\* The steps that say nothing of the line.
LEMMA SoughtKept ==
  ASSUME Sought, UNCHANGED <<list, line, rest, settings>>,
         \/ at' = at \/ at' \notin {"args", "list", "line", "options", "frontend", "info", "property"}
         \/ at = "args" /\ at' \in {"list", "frontend"}
         \/ at \in {"frontend", "info"} /\ at' \in {"info", "property"}
  PROVE  Sought'
BY DEF Sought

\* The first line of a list, and what is behind it.
LEMMA NextLine ==
  ASSUME NEW s \in Seq(Line), \A i \in 1 .. Len(s) - 1 : s[i].newline, s # <<>>
  PROVE  /\ Head(s) \in Line /\ Tail(s) \in Seq(Line)
         /\ Head(s).newline \/ Tail(s) = <<>>
         /\ \A i \in 1 .. Len(Tail(s)) - 1 : Tail(s)[i].newline
<1>1. /\ Len(s) \in Nat \ {0} /\ Head(s) = s[1] /\ Head(s) \in Line
      /\ Tail(s) \in Seq(Line) /\ Len(Tail(s)) = Len(s) - 1
      /\ \A i \in 1 .. Len(Tail(s)) : Tail(s)[i] = s[i + 1]
  OBVIOUS
<1>2. CASE Len(s) = 1
  BY <1>1, <1>2
<1>3. CASE Len(s) > 1
  BY <1>1, <1>3
<1> QED BY <1>1, <1>2, <1>3

\* The search.
LEMMA SoughtSearch == ASSUME Sought, Search PROVE Sought'
<1>1. CASE OpenList
  <2>1. CASE at' = "line" /\ list' \in Lists
    <3>1. list' \in Seq(Line) /\ \A i \in 1 .. Len(list') - 1 : list'[i].newline
      BY <2>1, TunerAssumption DEF TunerAssumption
    <3>2. line' = NoLine /\ NoLine.newline /\ settings' = Defaults /\ line' \in Line
      BY <1>1, NoneIsLine DEF OpenList, Sought, NoLine
    <3> QED BY <2>1, <3>1, <3>2 DEF Sought
  <2>2. CASE at' = "exit 1" /\ UNCHANGED list
    BY <1>1, <2>2, SoughtKept DEF OpenList
  <2> QED BY <1>1, <2>1, <2>2 DEF OpenList
<1>2. CASE ReadLine
  <2>1. /\ at = "line" /\ list # <<>> /\ line' = Head(list) /\ list' = Tail(list)
        /\ settings' = settings /\ settings = Defaults
    BY <1>2 DEF ReadLine, Sought
  <2>2. /\ line' \in Line /\ list' \in Seq(Line) /\ (line'.newline \/ list' = <<>>)
        /\ \A i \in 1 .. Len(list') - 1 : list'[i].newline
    BY <2>1, NextLine DEF Sought
  <2>3. CASE at' = "options"
    <3>1. line'.fields \in 3 .. 4 /\ rest' = OptionsOf(line')
      <4>1. line'.fields \in 1 .. 4
        BY <2>2 DEF Line
      <4>2. Named(line') /\ line'.fields >= 3
        BY <1>2, <2>1, <2>3 DEF ReadLine
      <4>3. rest' = OptionsOf(line')
        BY <1>2, <4>2 DEF ReadLine, OptionsOf
      <4> QED BY <4>1, <4>2, <4>3
    <3>2. Reading(OptionsOf(line'), rest', settings')
      BY <2>1, <2>2, <3>1, ReadFirst, OptionsAre
    <3> QED BY <2>2, <2>3, <3>1, <3>2 DEF Sought
  <2>4. CASE at' = "line"
    BY <2>1, <2>2, <2>4 DEF Sought
  <2> QED BY <1>2, <2>1, <2>3, <2>4 DEF ReadLine
<1>3. CASE NotFound
  <2>1. at' = "exit 1" /\ list' = <<>> /\ line' = NoLine
    BY <1>3 DEF NotFound
  <2> QED BY <2>1, NoneIsLine DEF Sought
<1>4. CASE OptionLetter
  <2>1. /\ at = "options" /\ rest # <<>> /\ UNCHANGED <<at, list, line>> /\ line \in Line
        /\ Reading(OptionsOf(line), rest, settings)
    BY <1>4 DEF OptionLetter, Sought
  <2>2. CASE Head(rest) = "unknown"
    <3>1. rest' = rest /\ settings' = settings
      BY <1>4, <2>2 DEF OptionLetter
    <3> QED BY <2>1, <3>1, SoughtKept
  <2>3. CASE Head(rest) # "unknown"
    <3>1. rest' = Tail(rest)
      BY <1>4, <2>3 DEF OptionLetter
    <3> DEFINE o == Head(rest)
    <3>2. settings' = CASE o \in {"H", "V"} -> [settings EXCEPT !.polarity = o]
                        [] o = "T" -> [settings EXCEPT !.tone = TRUE]
                        [] o = "1" -> [settings EXCEPT !.delsys = "S"]
                        [] OTHER -> settings
      BY <1>4 DEF OptionLetter
    <3>3. o = Head(rest) /\ o # "unknown"
      BY <2>3
    <3> HIDE DEF o
    <3>4. OptionsOf(line) \in Seq(Option)
      BY <2>1, OptionsAre
    <3>5. Reading(OptionsOf(line), Tail(rest), settings')
      BY <2>1, <3>2, <3>3, <3>4, ReadNext
    <3> QED BY <2>1, <3>1, <3>5 DEF Sought
  <2> QED BY <2>2, <2>3
<1>5. CASE SymbolRate
  <2>1. /\ at = "options" /\ rest = <<>> /\ UNCHANGED <<line, rest, settings>>
        /\ line \in Line /\ line.fields \in 3 .. 4 /\ (line.newline \/ list = <<>>)
        /\ Reading(OptionsOf(line), <<>>, settings)
    BY <1>5 DEF SymbolRate, Sought
  <2>2. /\ settings = Told(OptionsOf(line), Len(OptionsOf(line)))
        /\ \A i \in 1 .. Len(OptionsOf(line)) : OptionsOf(line)[i] # "unknown"
    BY <2>1, ReadLast, OptionsAre
  <2>3. CASE line.fields = 4
    <3>1. at' = "frontend" /\ list' = <<>>
      BY <1>5, <2>3 DEF SymbolRate
    <3>2. settings = Listed(line)
      BY <2>1, <2>2, <2>3, OptionsAre, ToldAll
    <3> QED BY <2>1, <3>1, <3>2, NoneIsLine DEF Sought
  <2>4. CASE line.fields = 3
    <3>1. at' = "line" /\ list' = list
      BY <1>5, <2>4 DEF SymbolRate
    <3>2. ~line.newline
      <4> SUFFICES ASSUME line.newline PROVE FALSE
        OBVIOUS
      <4> DEFINE n == Len(OptionsOf(line))
      <4>1. OptionsOf(line)[n] = "unknown" /\ n \in Nat \ {0}
        BY <2>1, <2>4, OptionsAre
      <4> QED BY <2>2, <4>1
    <3> QED BY <2>1, <3>1, <3>2 DEF Sought
  <2> QED BY <2>1, <2>3, <2>4
<1> QED BY <1>1, <1>2, <1>3, <1>4, <1>5 DEF Search

\* The front end is tuned to what the line of the channel says, and to nothing
\* that a line before it has left.
THEOREM TunedRight == SessionSpec => []TunedAsListed
<1>1. SessionInit => Sought
  <2> QED BY NoneIsLine DEF SessionInit, TunerInit, Sought
<1>2. Sought /\ [SessionNext]_svars => Sought'
  <2> SUFFICES ASSUME Sought, [SessionNext]_svars PROVE Sought'
    OBVIOUS
  <2>1. CASE Arguments \/ ParseTime \/ Stat \/ Mkdir \/ OpenOutput \/ Environment
    BY <2>1, SoughtKept DEF Arguments, ParseTime, Stat, Mkdir, NextDir, OpenOutput, Environment,
       OtherMkdir, Exchange, tuner, searching
  <2>2. CASE Tuning /\ Search
    BY <2>2, SoughtSearch
  <2>3. CASE OpenFrontend \/ GetInfo \/ Poll \/ NoLock \/ OpenDemux \/ SetFilter \/ OpenDvr
    BY <2>3, SoughtKept DEF OpenFrontend, GetInfo, Poll, NoLock, OpenDemux, SetFilter, OpenDvr,
       CloseDemux, searching
  <2>4. CASE SetProperty
    <3>1. line' = NoLine /\ at' \in {"poll", "exit 1"} /\ list' = list
      BY <2>4 DEF SetProperty
    <3> QED BY <3>1, NoneIsLine DEF Sought
  <2>5. CASE Descrambling \/ SendEcm
    BY <2>5, SoughtKept DEF Descrambling, Decoder, InitCard, Started, FallBack, AskCard, SendEcm,
       tuner, searching
  <2>6. CASE StopRecording \/ After \/ Exited \/ UNCHANGED svars
    BY <2>6, SoughtKept DEF StopRecording, After, CloseDevices, CloseOutput, Shutdown, Exited,
       svars, tuner, searching
  <2> QED BY <2>1, <2>2, <2>3, <2>4, <2>5, <2>6 DEF SessionNext, Before, Tuning, Tune
<1>3. Sought => TunedAsListed
  BY DEF Sought, TunedAsListed
<1> QED BY <1>1, <1>2, <1>3, PTL DEF SessionSpec

-----------------------------------------------------------------------------
(* The types of a session, and what the descriptors refer to.              *)

\* A descriptor refers to what it was opened for, until it is closed: only a number
\* that is free is given to something new.
Referred ==
  /\ fefd \in Fd /\ tfd \in Fd \cup {-1} /\ wfd \in Fd
  /\ fds[1] = "inherited"
  /\ fefd # 0 => fds[fefd] = "frontend"
  /\ dmxfd # 0 => fds[dmxfd] = "demux"
  /\ tfd # -1 => fds[tfd] = "dvr"
  /\ wfd # 0 /\ at \notin {"shutdown", "exit 0"} => fds[wfd] \in {"output", "inherited"}

\* The variables that refer to no other one.
Simple ==
  /\ at \in At /\ settings \in Settings /\ polls \in 0 .. MaxPolls
  /\ objects \subseteq {"decoder", "b1", "card"}

\* The steps that open and close nothing.
LEMMA ReferredKept ==
  ASSUME Referred, UNCHANGED <<descriptors, wfd>>,
         at \in {"shutdown", "exit 0"} => at' \in {"shutdown", "exit 0"}
  PROVE  Referred'
BY DEF Referred, descriptors

\* A number that was free now refers to something; nothing else changes.
Opened(n, what) ==
  /\ n \in Fd /\ fds[n] = "closed" /\ fds'[n] = what
  /\ \A m \in Fd \ {n} : fds'[m] = fds[m]

\* What was referred to before is still there.
LEMMA OpenedKeeps ==
  ASSUME NEW n, NEW what, Opened(n, what)
  PROVE  \A m \in Fd : fds[m] # "closed" => fds'[m] = fds[m]
BY DEF Opened

\* open() of a device or of the output.
LEMMA OpenedIs ==
  ASSUME Held, NEW n \in Fd, NEW what, Free(n), fds' = [fds EXCEPT ![n] = what]
  PROVE  Opened(n, what)
BY DEF Held, Opened, Free

\* A failure behind the opening of the demux.
LEMMA ReferredDemux ==
  ASSUME Held, Referred, CloseDemux, UNCHANGED <<fefd, tfd, wfd>>, at \in UntilDvr
  PROVE  Referred'
<1>1. /\ dmxfd \in Fd /\ dmxfd' = 0 /\ tfd = -1 /\ at' = "exit 1"
      /\ \A m \in Fd \ {dmxfd} : fds'[m] = fds[m]
  BY DEF Held, CloseDemux
<1>2. dmxfd # 0 => fds[dmxfd] = "demux"
  BY DEF Referred
<1>3. \A m \in Fd \ {0} : fds[m] # "demux" => fds'[m] = fds[m]
  BY <1>1, <1>2
<1>4. 1 \in Fd \ {0} /\ 0 # -1
  BY DEF Fd
<1>5. /\ fds'[1] = "inherited"
      /\ fefd # 0 => fds'[fefd] = "frontend"
      /\ wfd # 0 /\ at \notin {"shutdown", "exit 0"} => fds'[wfd] \in {"output", "inherited"}
  BY <1>3, <1>4 DEF Referred
<1> QED BY <1>1, <1>5 DEF Referred, UntilDvr, UntilDemux, UntilFrontend

\* The openings, and what closes.
LEMMA ReferredStep ==
  ASSUME Held, Referred,
         \/ (OpenFrontend \/ OpenDemux \/ SetFilter \/ OpenDvr) /\ wfd' = wfd
         \/ OpenOutput \/ CloseDevices \/ CloseOutput
  PROVE  Referred'
<1>0. /\ 0 \in Fd /\ 1 \in Fd /\ 1 # 0 /\ -1 \notin Fd
      /\ at \in {"frontend", "demux", "filter", "dvr"} => at \in UntilDvr
  BY DEF Fd, UntilDvr, UntilDemux, UntilFrontend
<1>1. CASE OpenFrontend /\ wfd' = wfd
  <2>1. CASE at' = "info"
    <3>1. PICK n \in Fd : Free(n) /\ fefd' = n /\ fds' = [fds EXCEPT ![n] = "frontend"]
      BY <1>1, <2>1 DEF OpenFrontend
    <3>2. Opened(n, "frontend")
      BY <3>1, OpenedIs
    <3>3. at = "frontend" /\ dmxfd' = dmxfd /\ tfd' = tfd
      BY <1>1 DEF OpenFrontend
    <3> QED BY <1>0, <1>1, <2>1, <3>1, <3>2, <3>3, OpenedKeeps DEF Referred, Held, Opened
  <2>2. CASE at' = "exit 1"
    BY <1>1, <2>2, ReferredKept DEF OpenFrontend, descriptors
  <2> QED BY <1>1, <2>1, <2>2 DEF OpenFrontend
<1>2. CASE OpenDemux /\ wfd' = wfd
  <2>1. CASE at' = "filter"
    <3>1. PICK n \in Fd : Free(n) /\ dmxfd' = n /\ fds' = [fds EXCEPT ![n] = "demux"]
      BY <1>2, <2>1 DEF OpenDemux
    <3>2. Opened(n, "demux")
      BY <3>1, OpenedIs
    <3>3. at = "demux" /\ fefd' = fefd /\ tfd' = tfd
      BY <1>2 DEF OpenDemux
    <3> QED BY <1>0, <1>2, <2>1, <3>1, <3>2, <3>3, OpenedKeeps DEF Referred, Held, Opened
  <2>2. CASE at' = "exit 1"
    BY <1>2, <2>2, ReferredKept DEF OpenDemux, descriptors
  <2> QED BY <1>2, <2>1, <2>2 DEF OpenDemux
<1>3. CASE SetFilter /\ wfd' = wfd
  <2>1. CASE at' = "dvr"
    BY <1>3, <2>1, ReferredKept DEF SetFilter, CloseDemux, descriptors
  <2>2. CASE CloseDemux
    BY <1>0, <1>3, <2>2, ReferredDemux DEF SetFilter
  <2> QED BY <1>3, <2>1, <2>2 DEF SetFilter
<1>4. CASE OpenDvr /\ wfd' = wfd
  <2>1. CASE at' = "time"
    <3>1. PICK n \in Fd : Free(n) /\ tfd' = n /\ fds' = [fds EXCEPT ![n] = "dvr"]
      BY <1>4, <2>1 DEF OpenDvr, CloseDemux
    <3>2. Opened(n, "dvr")
      BY <3>1, OpenedIs
    <3>3. at = "dvr" /\ fefd' = fefd /\ dmxfd' = dmxfd
      BY <1>4, <2>1 DEF OpenDvr, CloseDemux
    <3> QED BY <1>0, <1>4, <2>1, <3>1, <3>2, <3>3, OpenedKeeps DEF Referred, Held, Opened
  <2>2. CASE CloseDemux /\ tfd' = tfd
    BY <1>0, <1>4, <2>2, ReferredDemux DEF OpenDvr
  <2> QED BY <1>4, <2>1, <2>2 DEF OpenDvr
<1>5. CASE OpenOutput
  <2>1. CASE at' = "decoder"
    <3>1. PICK n \in Fd : Free(n) /\ wfd' = n /\ fds' = [fds EXCEPT ![n] = "output"]
      BY <1>5, <2>1 DEF OpenOutput
    <3>2. Opened(n, "output")
      BY <3>1, OpenedIs
    <3>3. fefd' = fefd /\ dmxfd' = dmxfd /\ tfd' = tfd
      BY <1>5 DEF OpenOutput
    <3> QED BY <1>0, <3>1, <3>2, <3>3, OpenedKeeps DEF Referred, Held, Opened
  <2>2. CASE at' = "exit 1"
    BY <1>5, <2>2, ReferredKept DEF OpenOutput, descriptors
  <2> QED BY <1>5, <2>1, <2>2 DEF OpenOutput
<1>6. CASE CloseDevices
  <2>1. /\ at = "close" /\ at' = "sync" /\ wfd' = wfd /\ fefd' = 0 /\ dmxfd' = 0 /\ tfd' = -1
        /\ \A n \in Fd : fds'[n] = IF n = tfd \/ (n \in {fefd, dmxfd} /\ n > 0)
                                   THEN "closed" ELSE fds[n]
    BY <1>6 DEF CloseDevices, CloseTuner
  <2>2. \A n \in Fd \ {0} : fds[n] \in {"output", "inherited"} => n \notin {tfd, fefd, dmxfd}
    BY <1>0 DEF Referred
  <2>3. \A n \in Fd \ {0} : fds[n] \in {"output", "inherited"} => fds'[n] = fds[n]
    BY <2>1, <2>2
  <2> QED BY <1>0, <2>1, <2>3 DEF Referred
<1>7. CASE CloseOutput
  <2>1. /\ at' \in {"shutdown", "exit 0"} /\ UNCHANGED <<fefd, dmxfd, tfd, wfd>>
        /\ \A n \in Fd : fds[n] # "output" => fds'[n] = fds[n]
    BY <1>7 DEF CloseOutput
  <2> QED BY <1>0, <2>1 DEF Referred, Held
<1> QED BY <1>1, <1>2, <1>3, <1>4, <1>5, <1>6, <1>7

\* Every step, as far as the descriptors are concerned.
LEMMA ReferredNext == ASSUME Held, Referred, [SessionNext]_svars PROVE Referred'
<1>1. CASE Arguments \/ Stat \/ Mkdir
  BY <1>1, ReferredKept DEF Arguments, Stat, Mkdir, NextDir, tuner
<1>2. CASE Tuning
  <2>1. CASE Search
    BY <1>2, <2>1, ReferredKept DEF Tuning, Search, OpenList, ReadLine, NotFound, OptionLetter,
       SymbolRate
  <2>2. CASE GetInfo \/ SetProperty \/ Poll \/ NoLock
    BY <1>2, <2>2, ReferredKept DEF Tuning, GetInfo, SetProperty, Poll, NoLock
  <2>3. CASE OpenFrontend \/ OpenDemux \/ SetFilter \/ OpenDvr
    BY <1>2, <2>3, ReferredStep DEF Tuning
  <2> QED BY <1>2, <2>1, <2>2, <2>3 DEF Tuning, Tune
<1>3. CASE ParseTime
  <2>1. /\ fds' = fds /\ fefd' = fefd /\ dmxfd' = dmxfd /\ tfd' = tfd /\ at = "time"
        /\ wfd' = wfd \/ wfd' = 1
    BY <1>3 DEF ParseTime, tuner, descriptors
  <2>2. 1 \in Fd
    BY DEF Fd
  <2> QED BY <2>1, <2>2 DEF Referred
<1>4. CASE OpenOutput \/ CloseDevices \/ CloseOutput
  BY <1>4, ReferredStep
<1>5. CASE Descrambling \/ SendEcm
  BY <1>5, ReferredKept DEF Descrambling, Decoder, InitCard, Started, FallBack, AskCard, SendEcm,
     tuner
<1>6. CASE StopRecording \/ Shutdown \/ Environment \/ Exited \/ UNCHANGED svars
  BY <1>6, ReferredKept DEF StopRecording, Shutdown, Environment, OtherMkdir, Exchange, Exited,
     svars, tuner
<1> QED BY <1>1, <1>2, <1>3, <1>4, <1>5, <1>6 DEF SessionNext, Before, After

\* The turns of the wait for a lock.
LEMMA PollsCount ==
  ASSUME polls \in 0 .. MaxPolls, Poll \/ NoLock
  PROVE  polls' \in 0 .. MaxPolls
<1>1. MaxPolls \in Nat
  BY TunerAssumption DEF TunerAssumption
<1>2. (polls < MaxPolls /\ polls' = polls + 1) \/ polls' = 0
  BY DEF Poll, NoLock
<1> QED BY <1>1, <1>2

\* Every step, as far as the variables by themselves are concerned.
LEMMA SimpleNext == ASSUME Simple, [SessionNext]_svars PROVE Simple'
<1> USE DEF Simple, At
<1>1. CASE Arguments \/ ParseTime \/ Stat \/ Mkdir \/ OpenOutput
  BY <1>1 DEF Arguments, ParseTime, Stat, Mkdir, NextDir, OpenOutput, tuner, searching, decoder
<1>2. CASE Tuning
  <2>0. UNCHANGED objects
    BY <1>2 DEF Tuning, decoder
  <2>1. CASE OpenList \/ ReadLine \/ SymbolRate
    BY <2>0, <2>1 DEF OpenList, ReadLine, SymbolRate
  <2>2. CASE NotFound \/ SetProperty
    <3>1. Defaults \in Settings
      BY DEF Defaults, Settings
    <3> QED BY <2>0, <2>2, <3>1 DEF NotFound, SetProperty
  <2>3. CASE OptionLetter
    <3>1. settings' \in Settings
      BY <2>3 DEF OptionLetter, Settings
    <3> QED BY <2>0, <2>3, <3>1 DEF OptionLetter
  <2>4. CASE Poll \/ NoLock
    <3>1. settings' = settings
      BY <2>4 DEF Poll, NoLock, searching
    <3>2. polls' \in 0 .. MaxPolls
      BY <2>4, PollsCount
    <3>3. at' \in {"poll", "demux", "exit 1"}
      BY <2>4 DEF Poll, NoLock
    <3> QED BY <2>0, <3>1, <3>2, <3>3
  <2>5. CASE OpenFrontend \/ GetInfo \/ OpenDemux \/ SetFilter \/ OpenDvr
    BY <2>0, <2>5 DEF OpenFrontend, GetInfo, OpenDemux, SetFilter, OpenDvr, CloseDemux, searching
  <2> QED BY <1>2, <2>1, <2>2, <2>3, <2>4, <2>5 DEF Tuning, Search, Tune
<1>3. CASE Descrambling \/ SendEcm
  BY <1>3 DEF Descrambling, Decoder, InitCard, Started, FallBack, AskCard, SendEcm, tuner,
     searching, decoder
<1>4. CASE StopRecording \/ After \/ Environment
  BY <1>4 DEF StopRecording, After, CloseDevices, CloseOutput, Shutdown, Environment, OtherMkdir,
     Exchange, tuner, searching, decoder
<1>5. CASE Exited \/ UNCHANGED svars
  BY <1>5 DEF Exited, svars, tuner, searching, decoder
<1> QED BY <1>1, <1>2, <1>3, <1>4, <1>5 DEF SessionNext, Before

\* At the start there are the descriptors the program was given.
LEMMA TypesInit == ASSUME SessionInit PROVE Held /\ Referred /\ Simple
<1>1. Held
  BY DEF SessionInit, TunerInit, Held, Fd, Device, UntilFrontend, UntilDemux, UntilDvr,
     UntilOutput
<1>2. PICK i \in Inherited : fds = [n \in Fd |-> IF n \in i THEN "inherited" ELSE "closed"]
  BY DEF SessionInit, TunerInit
<1>3. fds[1] = "inherited"
  BY <1>2, TunerAssumption DEF TunerAssumption, Fd
<1>4. Referred
  BY <1>3 DEF SessionInit, TunerInit, Referred, Fd
<1>5. Simple
  BY TunerAssumption DEF TunerAssumption, SessionInit, TunerInit, Simple, At, Defaults, Settings
<1> QED BY <1>1, <1>4, <1>5

\* The variables of a session are of their types, and each descriptor refers to the
\* device or file it was opened for, never to one that has got the number since.
THEOREM SessionTypes == SessionSpec => []SessionTypeOK
<1> DEFINE SInv == /\ IInv /\ Keys
                   /\ Path /\ Held
                   /\ Referred /\ Simple
<1>1. SessionInit => SInv
  BY InitOK, KeysInit, PathInit, TypesInit DEF SessionInit
<1>2. SInv /\ [SessionNext]_svars => SInv'
  BY CardSteps, NextStep, KeysStep, PathNext, HeldNext, ReferredNext, SimpleNext
<1>3. SInv => SessionTypeOK
  <2> SUFFICES ASSUME SInv PROVE SessionTypeOK
    OBVIOUS
  <2>1. cardOf \in [1 .. given -> Nat]
    BY DEF Keys
  <2>2. /\ TypeOK /\ ca_system_id \in 0 .. given /\ m2_key \in NoCipher .. given
        /\ at \in At /\ polls \in 0 .. MaxPolls /\ objects \subseteq {"decoder", "b1", "card"}
        /\ settings \in [polarity : {"H", "V"}, tone : BOOLEAN, delsys : {"S", "S2"}]
    BY DEF IInv, Keys, Simple, Settings
  <2>3. /\ fds \in [Fd -> Device \cup {"inherited", "output", "closed"}]
        /\ comp \in 0 .. Depth /\ \E n \in 0 .. Depth : dirs = 1 .. n
        /\ plain \in BOOLEAN /\ raced \in BOOLEAN /\ refused \in BOOLEAN
    BY DEF Held, Path
  <2>4. /\ fefd # 0 => fds[fefd] = "frontend"
        /\ dmxfd # 0 => fds[dmxfd] = "demux"
        /\ tfd # -1 => fds[tfd] = "dvr"
        /\ wfd # 0 /\ at # "shutdown" /\ at # "exit 0" => fds[wfd] \in {"output", "inherited"}
    BY DEF Referred
  <2> QED BY <2>1, <2>2, <2>3, <2>4 DEF SessionTypeOK
<1> HIDE DEF SInv
<1> QED BY <1>1, <1>2, <1>3, PTL DEF SessionSpec
=============================================================================
