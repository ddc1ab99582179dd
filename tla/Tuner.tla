------------------------------- MODULE Tuner -------------------------------
(***************************************************************************)
(* Tuning, src/recskapacore.c: read_channels() looks for the channel in    *)
(* the list, tune() opens the devices one after the other and waits for    *)
(* the signal, close_tuner() closes them.  Each call of the kernel is a    *)
(* step that may fail, and a failure ends the program (recskapa.c:510).    *)
(*                                                                         *)
(* Of a line of the list there is what the loops over it look at; the      *)
(* numbers of frequency and symbol rate, and the tone and voltage calls,   *)
(* whose failures are only reported, are left out.                         *)
(***************************************************************************)
EXTENDS Integers, Sequences

CONSTANTS
  Lists,      \* what the channel list may be: sequences of Line
  Inherited,  \* the standard descriptors it may be started with: input or not
  MaxPolls    \* 5 in the code

\* A line names our channel or not, and has that many fields.
Option == {"H", "V", "T", "1", "unknown"}
Line == [ours : BOOLEAN, fields : 1 .. 4, options : Seq(Option), newline : BOOLEAN]

Fd == 0 .. 6
Device == {"frontend", "demux", "dvr"}

ASSUME TunerAssumption ==
  /\ Lists \subseteq Seq(Line) /\ MaxPolls \in Nat
  /\ \A l \in Lists : \A i \in 1 .. Len(l) - 1 : l[i].newline
  /\ Inherited \subseteq {{1, 2}, {0, 1, 2}}

VARIABLES
  at,         \* where main() is, in tune() and after it
  list,       \* lines of the channel list not read yet
  line,       \* the line in work
  rest,       \* options of it still to go over
  settings,   \* polarity, tone and delivery system found so far
  polls,
  fds,        \* of the process: what each descriptor refers to
  fefd, dmxfd, tfd

searching == <<list, line, rest, settings>>
descriptors == <<fds, fefd, dmxfd, tfd>>

NoLine == [ours |-> FALSE, fields |-> 1, options |-> <<>>, newline |-> TRUE]
Defaults == [polarity |-> "H", tone |-> FALSE, delsys |-> "S2"]

TunerInit ==
  /\ list = <<>> /\ line = NoLine /\ rest = <<>> /\ settings = Defaults /\ polls = 0
  /\ \E inherited \in Inherited :
       fds = [n \in Fd |-> IF n \in inherited THEN "inherited" ELSE "closed"]
  /\ fefd = 0 /\ dmxfd = 0 /\ tfd = -1

(***************************************************************************)
(* read_channels().                                                        *)
(***************************************************************************)
OpenList ==
  /\ at = "list"
  /\ \/ at' = "line" /\ list' \in Lists
     \/ at' = "exit 1" /\ UNCHANGED list
  /\ UNCHANGED <<line, rest, settings, polls, descriptors>>

\* A name that is all there is in its line ends with the newline.
Named(l) == l.ours /\ (l.fields > 1 \/ ~l.newline)

ReadLine ==
  /\ at = "line" /\ list # <<>>
  /\ line' = Head(list) /\ list' = Tail(list)
  /\ IF Named(line') /\ line'.fields >= 3
     THEN /\ at' = "options"
          /\ rest' = line'.options \o
               (IF line'.fields = 3 /\ line'.newline THEN <<"unknown">> ELSE <<>>)
     ELSE UNCHANGED <<at, rest>>
  /\ UNCHANGED <<settings, polls, descriptors>>

\* The end of the list, or an error.
NotFound ==
  /\ at = "line"
  /\ at' = "exit 1" /\ list' = <<>> /\ line' = NoLine /\ settings' = Defaults
  /\ UNCHANGED <<rest, polls, descriptors>>

\* Mutant of OptionLetter: an option that is not known is skipped.
OptionSkipped ==
  /\ at = "options" /\ rest # <<>>
  /\ rest' = Tail(rest)
  /\ settings' = CASE Head(rest) \in {"H", "V"} -> [settings EXCEPT !.polarity = Head(rest)]
                   [] Head(rest) = "T" -> [settings EXCEPT !.tone = TRUE]
                   [] Head(rest) = "1" -> [settings EXCEPT !.delsys = "S"]
                   [] OTHER -> settings
  /\ UNCHANGED <<at, list, line, polls, descriptors>>

\* One turn of the loop over the options.  It goes on to the next letter only
\* behind one that it knows; the newline is none.
OptionLetter ==
  /\ at = "options" /\ rest # <<>>
  /\ rest' = IF Head(rest) = "unknown" THEN rest ELSE Tail(rest)
  /\ settings' = CASE Head(rest) \in {"H", "V"} -> [settings EXCEPT !.polarity = Head(rest)]
                   [] Head(rest) = "T" -> [settings EXCEPT !.tone = TRUE]
                   [] Head(rest) = "1" -> [settings EXCEPT !.delsys = "S"]
                   [] OTHER -> settings
  /\ UNCHANGED <<at, list, line, polls, descriptors>>

\* The symbol rate ends the search; a line without one is a syntax error.
SymbolRate ==
  /\ at = "options" /\ rest = <<>>
  /\ IF line.fields = 4 THEN at' = "frontend" /\ list' = <<>>
                        ELSE at' = "line" /\ UNCHANGED list
  /\ UNCHANGED <<line, rest, settings, polls, descriptors>>

(***************************************************************************)
(* tune() and close_tuner().                                               *)
(***************************************************************************)
\* open() returns the lowest number that is free.
Free(n) == fds[n] = "closed" /\ \A m \in 0 .. n - 1 : fds[m] # "closed"

OpenFrontend ==
  /\ at = "frontend"
  /\ \/ /\ \E n \in Fd : Free(n) /\ fefd' = n /\ fds' = [fds EXCEPT ![n] = "frontend"]
        /\ at' = "info"
     \/ at' = "exit 1" /\ UNCHANGED <<fds, fefd>>
  /\ UNCHANGED <<searching, polls, dmxfd, tfd>>

\* FE_GET_INFO, and what the front end must be capable of.
GetInfo ==
  /\ at = "info"
  /\ at' \in {"property", "exit 1"}
  /\ UNCHANGED <<searching, polls, descriptors>>

\* What was read from the list is used here and forgotten.
SetProperty ==
  /\ at = "property"
  /\ at' \in {"poll", "exit 1"}
  /\ line' = NoLine /\ settings' = Defaults
  /\ UNCHANGED <<list, rest, polls, descriptors>>

\* One turn of the loop: no event, one that tells nothing, a lock, and an error
\* or a time-out of the front end.
Poll ==
  /\ at = "poll" /\ polls < MaxPolls
  /\ \/ at' = "poll" /\ polls' = polls + 1
     \/ at' \in {"demux", "exit 1"} /\ polls' = 0
  /\ UNCHANGED <<searching, descriptors>>

NoLock ==
  /\ at = "poll" /\ polls = MaxPolls
  /\ at' = "exit 1" /\ polls' = 0
  /\ UNCHANGED <<searching, descriptors>>

OpenDemux ==
  /\ at = "demux"
  /\ \/ /\ \E n \in Fd : Free(n) /\ dmxfd' = n /\ fds' = [fds EXCEPT ![n] = "demux"]
        /\ at' = "filter"
     \/ at' = "exit 1" /\ UNCHANGED <<fds, dmxfd>>
  /\ UNCHANGED <<searching, polls, fefd, tfd>>

\* DMX_SET_PES_FILTER, and open() of the DVR device: a failure of either closes
\* the demux again.
CloseDemux ==
  /\ fds' = [fds EXCEPT ![dmxfd] = "closed"] /\ dmxfd' = 0
  /\ at' = "exit 1"

SetFilter ==
  /\ at = "filter"
  /\ \/ at' = "dvr" /\ UNCHANGED <<fds, dmxfd>>
     \/ CloseDemux
  /\ UNCHANGED <<searching, polls, fefd, tfd>>

OpenDvr ==
  /\ at = "dvr"
  /\ \/ /\ \E n \in Fd : Free(n) /\ tfd' = n /\ fds' = [fds EXCEPT ![n] = "dvr"]
        /\ at' = "time" /\ UNCHANGED dmxfd
     \/ CloseDemux /\ UNCHANGED tfd
  /\ UNCHANGED <<searching, polls, fefd>>

\* Mutant of CloseTuner: the demux is left to the end of the process.
CloseTunerDemux ==
  /\ fds' = [n \in Fd |-> IF n = tfd \/ (n = fefd /\ n > 0) THEN "closed" ELSE fds[n]]
  /\ fefd' = 0 /\ dmxfd' = dmxfd /\ tfd' = -1

\* close_tuner(): for the first two, 0 means that they are not open.
CloseTuner ==
  /\ fds' = [n \in Fd |-> IF n = tfd \/ (n \in {fefd, dmxfd} /\ n > 0)
                          THEN "closed" ELSE fds[n]]
  /\ fefd' = 0 /\ dmxfd' = 0 /\ tfd' = -1

Search == OpenList \/ ReadLine \/ NotFound \/ OptionLetter \/ SymbolRate
Tune ==
  \/ OpenFrontend \/ GetInfo \/ SetProperty \/ Poll \/ NoLock
  \/ OpenDemux \/ SetFilter \/ OpenDvr

(***************************************************************************)
(* Properties.                                                             *)
(***************************************************************************)
\* What a line means by the description of the format
\* (src/recskapacore.c:183-197).
Has(l, o) == \E i \in DOMAIN l.options : l.options[i] = o
Vertical(l) ==
  \E i \in DOMAIN l.options :
    /\ l.options[i] = "V"
    /\ \A j \in i + 1 .. Len(l.options) : l.options[j] # "H"
Listed(l) ==
  [polarity |-> IF Vertical(l) THEN "V" ELSE "H",
   tone |-> Has(l, "T"), delsys |-> IF Has(l, "1") THEN "S" ELSE "S2"]

\* The front end is tuned to what the line of the channel says and to nothing
\* that an incomplete line before it has left in the variables, which are set
\* to their defaults once, in front of the loop (read_channels at 218-222).
TunedAsListed == at = "property" /\ line # NoLine => settings = Listed(line)

\* The loop over the options does not end (251-273).
Hung == at = "options" /\ rest # <<>> /\ Head(rest) = "unknown"
=============================================================================
