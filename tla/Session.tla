------------------------------ MODULE Session ------------------------------
(***************************************************************************)
(* A recording from the first argument to the exit of the program:         *)
(* main() of src/recskapa.c with the tuner (module Tuner), mkpath() of     *)
(* src/mkpath.c, the decoder's start and end (src/decoder.c) and the card  *)
(* (module BCasCard), as far as one hands something to the next: the       *)
(* descriptors, the objects, the card's system key.  While the threads run *)
(* (module Recorder) the descrambler asks the card; what it does with the  *)
(* stream is in module B1Stream.                                           *)
(*                                                                         *)
(* Around it, another recorder may make the same directories, and the card *)
(* in the reader may be exchanged: a connection to a card that is gone     *)
(* does not answer.                                                        *)
(***************************************************************************)
EXTENDS Tuner, BCasCard

CONSTANTS
  Depth,         \* directories in the path of the output file
  MaxExchange    \* bound: cards exchanged

ASSUME SessionAssumption == Depth \in Nat /\ MaxExchange \in Nat

VARIABLES
  comp,       \* directories mkpath() has gone over
  dirs,       \* the directories of the path that exist
  plain,      \* the first component that is no directory is a plain file
  raced,      \* history: one came up between stat() and mkdir() of it
  refused,    \* history: stat() or mkdir() has failed for a reason of its own
  wfd,
  use_b1,     \* main()'s variable
  objects,    \* what b1_startup() has allocated and nobody has freed
  ca_system_id,  \* the connection the descrambler's copy is from, 0 if none
  m2_key,     \* the connection the cipher's system key is from
  cardOf,     \* the card each connection was made to
  inserted,   \* the card in each reader
  exchanged

path == <<comp, dirs, plain, raced, refused>>
decoder == <<use_b1, objects>>
cards == <<ca_system_id, m2_key, cardOf, inserted, exchanged>>
tuner == <<searching, polls, descriptors>>
svars == <<vars, at, tuner, path, wfd, decoder, cards>>

\* No cipher has been set up.
NoCipher == -1

SessionInit ==
  /\ Init /\ TunerInit /\ at = "args"
  /\ comp = 0 /\ dirs \in {1 .. n : n \in 0 .. Depth} /\ plain \in BOOLEAN
  /\ plain => dirs # 1 .. Depth
  /\ raced = FALSE /\ refused = FALSE
  /\ wfd = 0 /\ use_b1 \in BOOLEAN /\ objects = {}
  /\ ca_system_id = 0 /\ m2_key = NoCipher /\ cardOf = <<>>
  /\ inserted = [r \in 1 .. Readers |-> r] /\ exchanged = 0

(***************************************************************************)
(* Up to the tuner, and from there to the output file.                     *)
(***************************************************************************)
\* Enough options to tune without a channel name, one name more, or too few
\* arguments.
Arguments ==
  /\ at = "args"
  /\ \E hikari \in BOOLEAN, mask \in SUBSET {"FREQ", "POL", "TONE"}, n \in 1 .. 3 :
       LET direct == IF hikari THEN "FREQ" \in mask ELSE mask = {"FREQ", "POL", "TONE"}
       IN  at' = IF n < (IF direct THEN 2 ELSE 3) THEN "exit 1"
                 ELSE IF direct THEN "frontend" ELSE "list"
  /\ UNCHANGED <<vars, tuner, path, wfd, decoder, cards>>

Tuning ==
  /\ Search \/ Tune
  /\ UNCHANGED <<vars, path, wfd, decoder, cards>>

\* parse_time(), and whether the output is a file or standard output.
ParseTime ==
  /\ at = "time"
  /\ \/ at' = "stat" /\ UNCHANGED wfd
     \/ at' = "decoder" /\ wfd' = 1
     \/ at' = "exit 1" /\ UNCHANGED wfd
  /\ UNCHANGED <<vars, tuner, path, decoder, cards>>

\* Mutant of NextDir: the last component is taken for the file.
NextDirButLast == at' = IF comp' < Depth - 1 THEN "stat" ELSE "output"

\* mkpath() goes over the path as long as nothing fails.
NextDir == at' = IF comp' < Depth THEN "stat" ELSE "output"

\* The next component is there, but is a plain file.
InTheWay == plain /\ comp + 1 \notin dirs

\* do_mkdir(): stat(), and mkdir() if it fails, because there is nothing or for
\* a reason of its own.  What is no directory ends mkpath().
Stat ==
  /\ at = "stat"
  /\ \/ comp = Depth /\ at' = "output" /\ UNCHANGED <<comp, refused>>
     \/ comp < Depth /\ comp + 1 \in dirs /\ comp' = comp + 1 /\ NextDir /\ UNCHANGED refused
     \/ comp < Depth /\ InTheWay /\ at' = "output" /\ UNCHANGED <<comp, refused>>
     \/ /\ comp < Depth /\ at' = "mkdir" /\ UNCHANGED comp
        /\ refused' = (comp + 1 \in dirs \/ InTheWay)
  /\ UNCHANGED <<vars, tuner, dirs, plain, raced, wfd, decoder, cards>>

Mkdir ==
  /\ at = "mkdir"
  /\ \/ /\ comp + 1 \notin dirs /\ ~InTheWay
        /\ dirs' = dirs \cup {comp + 1} /\ comp' = comp + 1 /\ NextDir
        /\ UNCHANGED refused
     \/ /\ at' = "output" /\ UNCHANGED <<comp, dirs>>
        /\ refused' = (refused \/ comp + 1 \notin dirs)
  /\ UNCHANGED <<vars, tuner, plain, raced, wfd, decoder, cards>>

\* Another recorder makes a directory of the same path.
OtherMkdir ==
  /\ at \in {"stat", "mkdir"} /\ dirs # 1 .. Depth /\ ~plain
  /\ LET d == Cardinality(dirs) + 1
     IN  /\ dirs' = dirs \cup {d}
         /\ raced' = (raced \/ (at = "mkdir" /\ d = comp + 1))
  /\ UNCHANGED <<vars, at, tuner, comp, plain, refused, wfd, decoder, cards>>

\* A failure of mkpath() is only reported; the file cannot be opened then.
OpenOutput ==
  /\ at = "output"
  /\ \/ /\ dirs = 1 .. Depth /\ at' = "decoder"
        /\ \E n \in Fd : Free(n) /\ wfd' = n /\ fds' = [fds EXCEPT ![n] = "output"]
     \/ at' = "exit 1" /\ UNCHANGED <<fds, wfd>>
  /\ UNCHANGED <<vars, searching, polls, fefd, dmxfd, tfd, path, decoder, cards>>

(***************************************************************************)
(* The decoder: b1_startup(), the ECMs, b1_shutdown().                     *)
(***************************************************************************)
Decoder ==
  /\ at = "decoder"
  /\ IF use_b1 THEN at' = "card" /\ objects' = {"decoder", "b1", "card"}
               ELSE at' = "record" /\ UNCHANGED objects
  /\ UNCHANGED <<vars, tuner, path, wfd, use_b1, cards>>

\* The card that is connected is still in its reader.
Present == \E r \in 1 .. Readers : cardOf[card] = inserted[r]

\* connect_card() in this setting: which card has been reached, and that only a
\* card that is there answers.
Connecting ==
  \/ /\ Connect
     /\ cardOf' = IF given' = given THEN cardOf ELSE Append(cardOf, inserted[reader])
  \/ Setup /\ (stat' # stat => Present) /\ UNCHANGED cardOf

\* Mutant of InitCard: set_b_cas_card() trusts the card instead of its status.
InitCardTrusting ==
  /\ at = "card"
  /\ \/ Establish /\ UNCHANGED <<ca_system_id, cardOf>>
     \/ List /\ UNCHANGED <<ca_system_id, cardOf>>
     \/ NextReader /\ UNCHANGED <<ca_system_id, cardOf>>
     \/ Connecting /\ UNCHANGED ca_system_id
     \/ Status /\ ca_system_id' = card /\ UNCHANGED cardOf
  /\ UNCHANGED <<at, tuner, path, wfd, decoder, m2_key, inserted, exchanged>>

\* The card's init(), and set_b_cas_card(), which copies the system's number.
InitCard ==
  /\ at = "card"
  /\ \/ (Establish \/ List \/ NextReader) /\ UNCHANGED <<ca_system_id, cardOf>>
     \/ Connecting /\ UNCHANGED ca_system_id
     \/ Status /\ ca_system_id' = stat /\ UNCHANGED cardOf
  /\ UNCHANGED <<at, tuner, path, wfd, decoder, m2_key, inserted, exchanged>>

\* Mutant of FallBack: no decoder, no recording.
FallBackNot(started) == IF started THEN at' = "record" ELSE at' = "exit 1"

\* What main() makes of the result: without a decoder it records all the same.
FallBack(started) == at' = "record"

\* b1_startup() returns.  After a failure it frees the wrapper alone.
Started ==
  /\ at = "card" /\ pc \in {"ready", "failed"}
  /\ FallBack(pc = "ready")
  /\ use_b1' = (pc = "ready")
  /\ objects' = IF pc = "ready" THEN objects ELSE objects \ {"decoder"}
  /\ UNCHANGED <<vars, tuner, path, wfd, cards>>

\* The descrambler finds an ECM PID only for the system's number it has copied.
SendEcm ==
  /\ at = "record" /\ use_b1 /\ ca_system_id # 0
  /\ ProcEcm
  /\ m2_key' \in {m2_key, NoCipher}    \* for the same decryptor or a new one
  /\ UNCHANGED <<at, tuner, path, wfd, decoder, ca_system_id, cardOf, inserted, exchanged>>

\* proc_ecm() of the descrambler: the first ECM that is purchased creates the
\* cipher, with the system key of the card's last setup.
NewCipher == IF m2_key = NoCipher THEN stat ELSE m2_key

\* Without a purchase there is no cipher any more.
AskCard ==
  /\ at = "record"
  /\ \/ Connecting /\ UNCHANGED m2_key
     \/ Again /\ UNCHANGED <<m2_key, cardOf>>
     \/ Transmit /\ (pc' = "answered" => Present) /\ UNCHANGED <<m2_key, cardOf>>
     \/ Answered /\ m2_key' \in {NewCipher, NoCipher} /\ UNCHANGED cardOf
  /\ UNCHANGED <<at, tuner, path, wfd, decoder, ca_system_id, inserted, exchanged>>

\* Somebody puts another card into the reader in use.
Exchange ==
  /\ at = "record" /\ reader <= Readers /\ exchanged < MaxExchange
  /\ exchanged' = exchanged + 1
  /\ inserted' = [inserted EXCEPT ![reader] = Readers + exchanged']
  /\ UNCHANGED <<vars, at, tuner, path, wfd, decoder, ca_system_id, m2_key, cardOf>>

\* The threads have ended: no call to the card is under way.
StopRecording ==
  /\ at = "record" /\ pc \in {"establish", "ready", "failed"}
  /\ at' = "close"
  /\ UNCHANGED <<vars, tuner, path, wfd, decoder, cards>>

CloseDevices ==
  /\ at = "close"
  /\ CloseTuner /\ at' = "sync"
  /\ UNCHANGED <<vars, searching, polls, path, wfd, decoder, cards>>

CloseOutput ==
  /\ at = "sync"
  /\ fds' = [n \in Fd |-> IF n = wfd /\ fds[n] = "output" THEN "closed" ELSE fds[n]]
  /\ at' = IF use_b1 THEN "shutdown" ELSE "exit 0"
  /\ UNCHANGED <<vars, searching, polls, fefd, dmxfd, tfd, path, wfd, decoder, cards>>

\* b1_shutdown(), also of a card that has failed in mid-recording: the reader
\* thread has a use_b1 of its own.
Shutdown ==
  /\ at = "shutdown"
  /\ Release
  /\ objects' = {} /\ at' = "exit 0"
  /\ UNCHANGED <<tuner, path, wfd, use_b1, cards>>

Exited == at \in {"exit 0", "exit 1"} /\ UNCHANGED svars

Before == Arguments \/ Tuning \/ ParseTime \/ Stat \/ Mkdir \/ OpenOutput
Descrambling == Decoder \/ InitCard \/ Started \/ AskCard
After == CloseDevices \/ CloseOutput \/ Shutdown
Environment == OtherMkdir \/ Exchange

SessionNext == Before \/ Descrambling \/ SendEcm \/ StopRecording \/ After \/ Environment \/ Exited

\* Calls of the kernel and of the card service return.  When the recording ends,
\* whether there are ECMs, and what others do is up to them.
SessionSpec == SessionInit /\ [][SessionNext]_svars /\ WF_svars(Before \/ Descrambling \/ After)

(***************************************************************************)
(* Properties.                                                             *)
(***************************************************************************)
At == {"args", "list", "line", "options", "frontend", "info", "property", "poll", "demux",
       "filter", "dvr", "time", "stat", "mkdir", "output", "decoder", "card", "record",
       "close", "sync", "shutdown", "exit 0", "exit 1"}

\* The variables are of their types, and each descriptor of main() and tune()
\* refers to the device or file it was opened for, never to one that has got
\* the number since (fefd, dmxfd at src/recskapacore.c:27, tfd, wfd at
\* src/recskapa.h:39).
SessionTypeOK ==
  /\ TypeOK
  /\ at \in At
  /\ fds \in [Fd -> Device \cup {"inherited", "output", "closed"}]
  /\ settings \in [polarity : {"H", "V"}, tone : BOOLEAN, delsys : {"S", "S2"}]
  /\ polls \in 0 .. MaxPolls
  /\ fefd # 0 => fds[fefd] = "frontend"
  /\ dmxfd # 0 => fds[dmxfd] = "demux"
  /\ tfd # -1 => fds[tfd] = "dvr"
  /\ wfd # 0 /\ at # "shutdown" /\ at # "exit 0" => fds[wfd] \in {"output", "inherited"}
  /\ comp \in 0 .. Depth /\ \E n \in 0 .. Depth : dirs = 1 .. n
  /\ plain \in BOOLEAN /\ raced \in BOOLEAN /\ refused \in BOOLEAN
  /\ objects \subseteq {"decoder", "b1", "card"}
  /\ ca_system_id \in 0 .. given /\ m2_key \in NoCipher .. given
  /\ cardOf \in [1 .. given -> Nat]

\* mkpath() goes over the whole path, or stops at a component because of a file
\* in its place, a call of the kernel that failed, or another recorder that has
\* made this very directory between its stat() and its mkdir(); all before it is
\* made (do_mkdir and mkpath at src/mkpath.c:12-51).
PathMade ==
  at = "output" =>
    /\ 1 .. comp \subseteq dirs
    /\ comp = Depth \/ InTheWay \/ refused \/ (raced /\ comp + 1 \in dirs)

\* The cipher's system key is the one of the card that is asked for its scramble
\* keys, and never the zeros of a card that has not answered its setup, however
\* many readers and reconnections there were; until somebody exchanges the card
\* (init_b_cas_card at 171-176, connect_card at 460, proc_ecm at 1693-1705).
KeysOfOneCard ==
  at = "record" /\ m2_key # NoCipher =>
    /\ m2_key # 0 /\ reader <= Readers
    /\ exchanged = 0 => cardOf[m2_key] = inserted[reader]

\* At the end of a recording, all that was opened has been closed, but for a
\* device that has got the number 0, which a program started without standard
\* input gives to the front end (close_tuner at 50); and a decoder that was
\* started is given back whole, even if its card has failed since
\* (b1_shutdown at src/decoder.c:54).
GivenBack ==
  at = "exit 0" =>
    /\ \A n \in Fd \ {0} : fds[n] \in {"closed", "inherited"}
    /\ use_b1 => objects = {} /\ open = {} /\ ~mng

\* Every start ends, in a recording or with an error, unless the search for the
\* channel hangs; and no failure of card or descrambler keeps the program from
\* recording, "fall back to encrypted recording" (src/recskapa.c:547).
StartEnds ==
  /\ at = "args" ~> at \in {"record", "exit 1"} \/ Hung
  /\ at = "decoder" ~> at = "record"
=============================================================================
