------------------------------ MODULE CommandLine ------------------------------
(***************************************************************************)
(* How a line typed at the prompt becomes a command (commandThread in      *)
(* mond.c, with the checks at the head of add): the line is read word by   *)
(* word, each word with a call of strtok, which returns NULL at the end of *)
(* the line and from then on.  "set" changes two defaults, kept as text.   *)
(*                                                                         *)
(* strtok keeps its place in the line in a variable that all threads       *)
(* share, and the prompt holds no mutex: any other thread that logs takes  *)
(* the place away (LoseTheLine, and LogQuery from the other thread's       *)
(* side).                                                                  *)
(*                                                                         *)
(* The command that comes out of a line is an action of Commands.          *)
(***************************************************************************)
EXTENDS Integers, Sequences

CONSTANTS
  Words,      \* what can be typed between two blanks
  Null,       \* the NULL of strtok
  ValueOf,    \* word -> the number its text begins with, 0 if there is none
  Copied,     \* word -> what strncpy keeps of it: MAX_INPUT_LEN - 1 characters
  Strays,     \* words that may lie where another thread has left strtok's place
  INT, LONG,  \* an int is -INT..INT-1 (2^31), a long -LONG..LONG-1 (2^63)
  DEFAULT_INTERVAL, DEFAULT_LOG_FILE,  \* the defaults at the start
  Busy        \* what the command thread may see of the other threads

(* The words the prompt and add look for. *)
Keywords ==
  {"add", "set", "listactive", "listcompleted", "remove", "kill", "exit", "webmon",
   "interval", "logfile", "-s", "-p", "-e", "-t", "-i", "-f"}

ASSUME WordsAssumption ==
  /\ Null \notin Words \cup Keywords
  /\ ValueOf \in [Words -> Int]
  /\ Copied \in [Words -> Words] /\ Strays \subseteq Words
  /\ INT \in Nat \ {0} /\ LONG \in Nat /\ LONG >= INT
  /\ {DEFAULT_INTERVAL, DEFAULT_LOG_FILE} \subseteq Words
  /\ ValueOf[DEFAULT_INTERVAL] \in 1..(INT - 1)
  (* webmon runs already, the system thread runs, all slots are taken, some
     thread is there for exit to ask about, some thread may call strtok. *)
  /\ Busy \subseteq [webmon : BOOLEAN, system : BOOLEAN, full : BOOLEAN, threads : BOOLEAN,
                     others : BOOLEAN]
  /\ \A b \in Busy : b.webmon \/ b.full => b.others

VARIABLES
  next,              \* what the next word is read as
  line,              \* the words read so far
  over,              \* strtok has returned NULL
  cmd,               \* the command as read so far
  busy,              \* what the command thread sees of the other threads
  outcome,           \* what the last line came to
  defaultInterval, defaultLogFile,
  whole              \* the default interval is a word as it was looked at

vars == <<next, line, over, cmd, busy, outcome, defaultInterval, defaultLogFile, whole>>
defaults == <<defaultInterval, defaultLogFile, whole>>

-----------------------------------------------------------------------------
(* Numbers.                                                                 *)

(* errno is ERANGE after strtol. *)
OutOfRange(w) == ValueOf[w] \notin (-LONG)..(LONG - 1)

(* The low bits of a long, as an int. *)
ToInt(v) == ((v + INT) % (2 * INT)) - INT

IntOf(w) == ToInt(ValueOf[w])

IsInterval(w) == ~OutOfRange(w) /\ IntOf(w) > 0
IsPid(w)      == ~OutOfRange(w) /\ IntOf(w) # 0
IsTid(w)      == ~OutOfRange(w) /\ ValueOf[w] # 0

-----------------------------------------------------------------------------
(* Commands.  arg is the process, thread or program, interval and file the
   options. *)
Blank   == [verb |-> "none", arg |-> Null, interval |-> Null, file |-> Null]
Refused == [Blank EXCEPT !.verb = "refused"]
Fault   == [Blank EXCEPT !.verb = "fault"]
Astray  == [Blank EXCEPT !.verb = "astray"]

Init ==
  /\ next = "verb"
  /\ line = <<>>
  /\ over = FALSE
  /\ cmd = Blank
  /\ busy \in Busy
  /\ outcome = Blank
  /\ defaultInterval = DEFAULT_INTERVAL
  /\ defaultLogFile = DEFAULT_LOG_FILE
  /\ whole = TRUE

(* strtok returns w, unless the line is lost. *)
Read(w) ==
  /\ w \in Words \cup {Null}
  /\ over => w = Null
  /\ over' = (w = Null)
  /\ line' = IF w = Null THEN line ELSE Append(line, w)
  /\ UNCHANGED busy

ReadOn(place, c) ==
  /\ next' = place
  /\ cmd' = c
  /\ UNCHANGED <<outcome, defaults>>

(* The line is done with, and the prompt is shown again. *)
Done(result) == next' = "prompt" /\ cmd' = Blank /\ outcome' = result

Finish(result) == Done(result) /\ UNCHANGED defaults

(* Another thread has called strtok since the prompt did: the words the prompt reads
   from here on are that thread's, or lie in memory it has freed.  Not the first
   word, for which strtok is given the line.  The line comes to any command of
   its verb, to a refusal or to the end of mond, none of them followed here; a set
   may leave such a word as its default. *)
LoseTheLine ==
  /\ busy.others /\ next \notin {"prompt", "verb", "answer"}
  /\ Done(Astray)
  /\ \/ UNCHANGED defaults
     \/ /\ next \in {"setting", "setInterval"}
        /\ defaultInterval' \in Strays /\ whole' = FALSE
        /\ UNCHANGED defaultLogFile
     \/ /\ next \in {"setting", "setLogFile"}
        /\ defaultLogFile' \in Strays
        /\ UNCHANGED <<defaultInterval, whole>>
  /\ UNCHANGED <<line, over, busy>>

(* A new line. *)
Readline ==
  /\ next = "prompt" /\ outcome.verb # "fault"
  /\ next' = "verb"
  /\ line' = <<>>
  /\ over' = FALSE
  /\ busy' \in Busy
  /\ outcome' = Blank
  /\ UNCHANGED <<cmd, defaults>>

-----------------------------------------------------------------------------
ReadVerb(w) ==
  /\ next = "verb" /\ Read(w)
  /\ CASE w = "add"    -> ReadOn("type", [Blank EXCEPT !.interval = defaultInterval,
                                                       !.file = defaultLogFile])
       [] w = "set"    -> ReadOn("setting", Blank)
       [] w = "remove" -> ReadOn("thread", Blank)
       [] w = "kill"   -> ReadOn("pid", [Blank EXCEPT !.verb = "kill"])
       [] w = "exit" /\ busy.threads -> ReadOn("answer", Blank)
       [] w = "webmon" /\ ~busy.webmon -> ReadOn("webInterval", [Blank EXCEPT !.verb = "webmon"])
       [] w \in {"listactive", "listcompleted"} \/ (w = "exit" /\ ~busy.threads) ->
            Finish([Blank EXCEPT !.verb = w])
       [] OTHER -> Finish(Refused)

(* The user is asked, and answers with a line of its own. *)
ReadAnswer ==
  /\ next = "answer"
  /\ \E yes \in BOOLEAN : Finish(IF yes THEN [Blank EXCEPT !.verb = "exit"] ELSE Refused)
  /\ UNCHANGED <<line, over, busy>>

-----------------------------------------------------------------------------
(* add *)

ReadType(w) ==
  /\ next = "type" /\ Read(w)
  /\ CASE w = "-s" /\ ~busy.system -> ReadOn("option", [cmd EXCEPT !.verb = "add -s"])
       [] w = "-p" -> ReadOn("addArg", [cmd EXCEPT !.verb = "add -p"])
       [] w = "-e" -> ReadOn("addArg", [cmd EXCEPT !.verb = "add -e"])
       [] OTHER    -> Finish(Refused)

(* A process id is asked for, a program is not. *)
ReadAddArg(w) ==
  /\ next = "addArg" /\ Read(w)
  /\ IF w = Null /\ cmd.verb = "add -p" THEN Finish(Refused)
     ELSE ReadOn("option", [cmd EXCEPT !.arg = w])

(* The checks of the prompt and of add, in their order: a free slot, the
   interval (strtol follows a NULL), the process id. *)
Add(c) ==
  CASE busy.full /\ c.verb # "add -s" -> Refused
    [] OTHER ->
       IF c.interval = Null THEN Fault
       ELSE IF ~IsInterval(c.interval) THEN Refused
       ELSE IF c.verb = "add -p" /\ ~IsPid(c.arg) THEN Refused
       ELSE c

(* Mutation of ReadOption: words after the type are not looked at. *)
ReadOptionAny(w) ==
  /\ next = "option" /\ Read(w)
  /\ CASE w = "-i" -> ReadOn("interval", cmd)
       [] w = "-f" -> ReadOn("file", cmd)
       [] OTHER    -> Finish(Add(cmd))

ReadOption(w) ==
  /\ next = "option" /\ Read(w)
  /\ CASE w = "-i" -> ReadOn("interval", cmd)
       [] w = "-f" -> ReadOn("file", cmd)
       [] w = Null -> Finish(Add(cmd))
       [] OTHER    -> Finish(Refused)

ReadInterval(w) ==
  /\ next = "interval" /\ Read(w)
  /\ ReadOn("afterInterval", [cmd EXCEPT !.interval = w])

(* Any other word is passed over here. *)
ReadAfterInterval(w) ==
  /\ next = "afterInterval" /\ Read(w)
  /\ IF w = "-f" THEN ReadOn("file", cmd) ELSE Finish(Add(cmd))

ReadFile(w) ==
  /\ next = "file" /\ Read(w)
  /\ Finish(IF w = Null THEN Refused ELSE Add([cmd EXCEPT !.file = w]))

-----------------------------------------------------------------------------
(* set *)

ReadSetting(w) ==
  /\ next = "setting" /\ Read(w)
  /\ CASE w = "interval" -> ReadOn("setInterval", [Blank EXCEPT !.verb = "set interval"])
       [] w = "logfile"  -> ReadOn("setLogFile", [Blank EXCEPT !.verb = "set logfile"])
       [] OTHER          -> Finish(Refused)

(* Mutation of ReadSetInterval: the sign is looked at before the number becomes
   an int. *)
ReadSetIntervalLong(w) ==
  /\ next = "setInterval" /\ Read(w)
  /\ IF w # Null /\ ~OutOfRange(w) /\ ValueOf[w] > 0
     THEN /\ Done([cmd EXCEPT !.interval = w])
          /\ defaultInterval' = Copied[w] /\ whole' = (Copied[w] = w)
     ELSE Done(Refused) /\ UNCHANGED <<defaultInterval, whole>>
  /\ UNCHANGED defaultLogFile

ReadSetInterval(w) ==
  /\ next = "setInterval" /\ Read(w)
  /\ IF w # Null /\ IsInterval(w)
     THEN /\ Done([cmd EXCEPT !.interval = w])
          /\ defaultInterval' = Copied[w] /\ whole' = (Copied[w] = w)
     ELSE Done(Refused) /\ UNCHANGED <<defaultInterval, whole>>
  /\ UNCHANGED defaultLogFile

ReadSetLogFile(w) ==
  /\ next = "setLogFile" /\ Read(w)
  /\ IF w # Null THEN Done([cmd EXCEPT !.file = w]) /\ defaultLogFile' = Copied[w]
     ELSE Done(Refused) /\ UNCHANGED defaultLogFile
  /\ UNCHANGED <<defaultInterval, whole>>

-----------------------------------------------------------------------------
(* remove, kill, webmon *)

ReadThread(w) ==
  /\ next = "thread" /\ Read(w)
  /\ CASE w = "-s" -> Finish([Blank EXCEPT !.verb = "remove -s"])
       [] w = "-t" -> ReadOn("tid", [Blank EXCEPT !.verb = "remove -t"])
       [] OTHER    -> Finish(Refused)

(* strtoll and strtol follow a NULL. *)
ReadTid(w) ==
  /\ next = "tid" /\ Read(w)
  /\ Finish(IF w = Null THEN Fault
            ELSE IF IsTid(w) THEN [cmd EXCEPT !.arg = w] ELSE Refused)

ReadPid(w) ==
  /\ next = "pid" /\ Read(w)
  /\ Finish(IF w = Null THEN Fault
            ELSE IF IsPid(w) THEN [cmd EXCEPT !.arg = w] ELSE Refused)

ReadWebInterval(w) ==
  /\ next = "webInterval" /\ Read(w)
  /\ IF w # Null /\ IsInterval(w) THEN ReadOn("refreshRate", [cmd EXCEPT !.interval = w])
     ELSE Finish(Refused)

ReadRefreshRate(w) ==
  /\ next = "refreshRate" /\ Read(w)
  /\ IF w # Null /\ IsInterval(w) THEN ReadOn("page", [cmd EXCEPT !.arg = w])
     ELSE Finish(Refused)

ReadPage(w) ==
  /\ next = "page" /\ Read(w)
  /\ Finish(IF w = Null THEN Refused ELSE [cmd EXCEPT !.file = w])

-----------------------------------------------------------------------------
ReadWord(w) ==
  \/ ReadVerb(w) \/ ReadType(w) \/ ReadAddArg(w) \/ ReadOption(w)
  \/ ReadInterval(w) \/ ReadAfterInterval(w) \/ ReadFile(w)
  \/ ReadSetting(w) \/ ReadSetInterval(w) \/ ReadSetLogFile(w)
  \/ ReadThread(w) \/ ReadTid(w) \/ ReadPid(w)
  \/ ReadWebInterval(w) \/ ReadRefreshRate(w) \/ ReadPage(w)

(* mond is no more. *)
Faulted == next = "prompt" /\ outcome.verb = "fault" /\ UNCHANGED vars

Next ==
  \/ Readline \/ ReadAnswer \/ LoseTheLine \/ Faulted
  \/ \E w \in Words \cup {Null} : ReadWord(w)

Spec == Init /\ [][Next]_vars

-----------------------------------------------------------------------------
(* What a line means, said of the whole line.                               *)

After(l, k) == SubSeq(l, k + 1, Len(l))

Begins(l, a, b) == Len(l) >= 2 /\ l[1] = a /\ l[2] = b

(* The options of add: nothing, or -i and an interval, -f and a file, in this
   order; what follows them is not looked at. *)
AreOptions(o) ==
  \/ Len(o) = 0
  \/ Len(o) >= 2 /\ o[1] = "-f"
  \/ Len(o) >= 2 /\ o[1] = "-i" /\ ~(Len(o) = 3 /\ o[3] = "-f")

IntervalIn(o) == IF Len(o) >= 2 /\ o[1] = "-i" THEN o[2] ELSE defaultInterval

FileIn(o) ==
  CASE Len(o) >= 2 /\ o[1] = "-f" -> o[2]
    [] Len(o) >= 4 /\ o[1] = "-i" /\ o[3] = "-f" -> o[4]
    [] OTHER -> defaultLogFile

AddMeans(verb, arg, o) ==
  IF verb # "add -s" /\ busy.full THEN Refused
  ELSE IF Len(o) = 1 /\ o[1] = "-i" THEN Fault
  ELSE IF /\ AreOptions(o) /\ IsInterval(IntervalIn(o))
          /\ verb = "add -p" => IsPid(arg)
  THEN [verb |-> verb, arg |-> arg, interval |-> IntervalIn(o), file |-> FileIn(o)]
  ELSE Refused

Means(l) ==
  CASE Begins(l, "add", "-s") /\ ~busy.system -> AddMeans("add -s", Null, After(l, 2))
    [] Begins(l, "add", "-p") /\ Len(l) >= 3  -> AddMeans("add -p", l[3], After(l, 3))
    [] Begins(l, "add", "-e") ->
         AddMeans("add -e", IF Len(l) = 2 THEN Null ELSE l[3], After(l, 3))
    [] Begins(l, "set", "interval") /\ Len(l) = 3 /\ IsInterval(l[3]) ->
         [Blank EXCEPT !.verb = "set interval", !.interval = l[3]]
    [] Begins(l, "set", "logfile") /\ Len(l) = 3 ->
         [Blank EXCEPT !.verb = "set logfile", !.file = l[3]]
    [] Begins(l, "remove", "-s") /\ Len(l) = 2 -> [Blank EXCEPT !.verb = "remove -s"]
    [] Begins(l, "remove", "-t") /\ Len(l) = 3 /\ IsTid(l[3]) ->
         [Blank EXCEPT !.verb = "remove -t", !.arg = l[3]]
    [] l[1] = "kill" /\ Len(l) = 2 /\ IsPid(l[2]) ->
         [Blank EXCEPT !.verb = "kill", !.arg = l[2]]
    [] /\ l[1] = "webmon" /\ Len(l) = 4 /\ IsInterval(l[2]) /\ IsInterval(l[3])
       /\ ~busy.webmon ->
         [verb |-> "webmon", arg |-> l[3], interval |-> l[2], file |-> l[4]]
    [] l[1] \in {"listactive", "listcompleted"} /\ Len(l) = 1 -> [Blank EXCEPT !.verb = l[1]]
    [] l[1] = "kill" /\ Len(l) = 1 -> Fault
    [] Begins(l, "remove", "-t") /\ Len(l) = 2 -> Fault
    [] OTHER -> Refused

(* Read word by word, with the options in a chain of ifs, a line comes to what it
   means as a whole, with the defaults of the moment it was typed; any other
   line is refused, and mond follows a NULL only where the last word of "kill",
   "remove -t" or "-i" is left out (mond.c:117-349, commands.c:39-81).  Not so a
   line of which another thread's strtok has taken a word (logLibrary.c:56): this
   needs such a thread. *)
LineIsUnderstood ==
  next = "prompt" /\ line # <<>> /\ line[1] # "exit" =>
    outcome = Means(line) \/ (busy.others /\ outcome = Astray)

(* An add without -i is not refused for its interval: what set interval lets
   through as text is still an interval when add reads the text again
   (mond.c:200-208, commands.c:39-45), as long as the text was kept whole: not cut
   to MAX_INPUT_LEN - 1 characters by strncpy, and not another thread's. *)
DefaultIsAnInterval == whole => IsInterval(defaultInterval)
=============================================================================
