-------------------------- MODULE CommandLineProofs --------------------------
(***************************************************************************)
(* Each line typed at the prompt comes to what it means, whatever words,   *)
(* numbers and widths of int and long there are, unless another thread's   *)
(* strtok takes a word of it away.                                         *)
(*                                                                         *)
(* Where says, for each place of the prompt where a word is read, what the *)
(* words before it were and what has been made of them.  It is inductive   *)
(* because reading one more word leaves the words before it alone.         *)
(***************************************************************************)
EXTENDS CommandLine, TLAPS

AddVerbs == {"add -s", "add -p", "add -e"}

(* The command of an add. *)
AddCommand(verb, arg, interval, file) ==
  [verb |-> verb, arg |-> arg, interval |-> interval, file |-> file]

(* How many words say what is to be monitored. *)
HeadLen(verb) == IF verb = "add -s" THEN 2 ELSE 3

(* l begins with an add of verb and arg. *)
AddOf(l, verb, arg) ==
  /\ Len(l) >= HeadLen(verb) /\ l[1] = "add"
  /\ \/ verb = "add -s" /\ l[2] = "-s" /\ arg = Null /\ ~busy.system
     \/ verb = "add -p" /\ l[2] = "-p" /\ arg = l[3]
     \/ verb = "add -e" /\ l[2] = "-e" /\ arg = l[3]

(* So many words have been read, and there may be more. *)
WordsRead(n) == Len(line) = n /\ ~over

(* The k-th word after those of an add is w. *)
OptionIs(verb, k, w) == line[HeadLen(verb) + k] = w

(* What has been read of an add, at each of its places. *)
AtOption ==
  \/ \E verb \in AddVerbs, arg \in Words \cup {Null} :
       /\ cmd = AddCommand(verb, arg, defaultInterval, defaultLogFile)
       /\ AddOf(line, verb, arg)
       /\ WordsRead(HeadLen(verb))
  \/ /\ cmd = AddCommand("add -e", Null, defaultInterval, defaultLogFile)
     /\ over /\ Len(line) = 2 /\ line[1] = "add" /\ line[2] = "-e"

AtInterval ==
  \E verb \in AddVerbs, arg \in Words \cup {Null} :
    /\ cmd = AddCommand(verb, arg, defaultInterval, defaultLogFile)
    /\ AddOf(line, verb, arg)
    /\ WordsRead(HeadLen(verb) + 1)
    /\ OptionIs(verb, 1, "-i")

AtAfterInterval ==
  \E verb \in AddVerbs, arg, interval \in Words \cup {Null} :
    /\ cmd = AddCommand(verb, arg, interval, defaultLogFile)
    /\ AddOf(line, verb, arg)
    /\ OptionIs(verb, 1, "-i")
    /\ \/ interval # Null /\ WordsRead(HeadLen(verb) + 2) /\ OptionIs(verb, 2, interval)
       \/ interval = Null /\ over /\ Len(line) = HeadLen(verb) + 1

AtFile ==
  \E verb \in AddVerbs, arg, interval \in Words \cup {Null} :
    /\ cmd = AddCommand(verb, arg, interval, defaultLogFile)
    /\ AddOf(line, verb, arg)
    /\ \/ /\ interval = defaultInterval
          /\ WordsRead(HeadLen(verb) + 1) /\ OptionIs(verb, 1, "-f")
       \/ /\ WordsRead(HeadLen(verb) + 3)
          /\ OptionIs(verb, 1, "-i") /\ OptionIs(verb, 2, interval) /\ OptionIs(verb, 3, "-f")

(* What has been read at each place. *)
Where ==
  /\ next = "verb" => line = <<>> /\ ~over
  /\ next = "type" =>
       /\ WordsRead(1) /\ line[1] = "add"
       /\ cmd = AddCommand("none", Null, defaultInterval, defaultLogFile)
  /\ next = "addArg" =>
       /\ WordsRead(2) /\ line[1] = "add"
       /\ \/ /\ cmd = AddCommand("add -p", Null, defaultInterval, defaultLogFile)
             /\ line[2] = "-p"
          \/ /\ cmd = AddCommand("add -e", Null, defaultInterval, defaultLogFile)
             /\ line[2] = "-e"
  /\ next = "option" => AtOption
  /\ next = "interval" => AtInterval
  /\ next = "afterInterval" => AtAfterInterval
  /\ next = "file" => AtFile
  /\ next = "setting" => WordsRead(1) /\ line[1] = "set"
  /\ next = "setInterval" =>
       /\ WordsRead(2) /\ line[1] = "set" /\ line[2] = "interval"
       /\ cmd = [Blank EXCEPT !.verb = "set interval"]
  /\ next = "setLogFile" =>
       /\ WordsRead(2) /\ line[1] = "set" /\ line[2] = "logfile"
       /\ cmd = [Blank EXCEPT !.verb = "set logfile"]
  /\ next = "thread" => WordsRead(1) /\ line[1] = "remove"
  /\ next = "tid" =>
       /\ WordsRead(2) /\ line[1] = "remove" /\ line[2] = "-t"
       /\ cmd = [Blank EXCEPT !.verb = "remove -t"]
  /\ next = "pid" =>
       /\ WordsRead(1) /\ line[1] = "kill"
       /\ cmd = [Blank EXCEPT !.verb = "kill"]
  /\ next = "answer" => Len(line) = 1 /\ line[1] = "exit"
  /\ next \in {"webInterval", "refreshRate", "page"} =>
       ~over /\ ~busy.webmon /\ line # <<>> /\ line[1] = "webmon"
  /\ next = "webInterval" => Len(line) = 1 /\ cmd = [Blank EXCEPT !.verb = "webmon"]
  /\ next = "refreshRate" =>
       /\ Len(line) = 2 /\ IsInterval(line[2])
       /\ cmd = [Blank EXCEPT !.verb = "webmon", !.interval = line[2]]
  /\ next = "page" =>
       /\ Len(line) = 3 /\ IsInterval(line[2]) /\ IsInterval(line[3])
       /\ cmd = AddCommand("webmon", line[3], line[2], Null)

(* The words read so far, and the defaults. *)
TypeOK ==
  /\ line \in Seq(Words) /\ over \in BOOLEAN
  /\ defaultInterval \in Words /\ defaultLogFile \in Words
  /\ next \in {"prompt", "verb", "type", "addArg", "option", "interval",
               "afterInterval", "file", "setting", "setInterval", "setLogFile",
               "thread", "tid", "pid", "answer", "webInterval", "refreshRate", "page"}

Inv == TypeOK /\ Where /\ LineIsUnderstood /\ DefaultIsAnInterval

-----------------------------------------------------------------------------
(* Sequences of words, word by word.                                        *)

(* strtok returns one more word, or NULL: the words before it stay. *)
LEMMA ReadOne ==
  ASSUME TypeOK, NEW w, Read(w)
  PROVE  /\ busy' = busy /\ line' \in Seq(Words)
         /\ w = Null => line' = line /\ over' = TRUE
         /\ over => w = Null
         /\ w # Null =>
              /\ w \in Words /\ over' = FALSE
              /\ Len(line') = Len(line) + 1
              /\ line'[Len(line) + 1] = w
              /\ \A i \in 1..Len(line) : line'[i] = line[i]
<1>1. /\ busy' = busy /\ (over => w = Null) /\ line \in Seq(Words)
      /\ w \in Words \cup {Null} /\ over' = (w = Null)
      /\ line' = IF w = Null THEN line ELSE Append(line, w)
  BY DEF Read, TypeOK
<1>2. CASE w = Null
  BY <1>1, <1>2
<1>3. CASE w # Null
  <2>1. w \in Words /\ line' = Append(line, w) /\ line \in Seq(Words) /\ over' = FALSE
    BY <1>1, <1>3
  <2>2. /\ line' \in Seq(Words) /\ Len(line') = Len(line) + 1 /\ line'[Len(line) + 1] = w
        /\ \A i \in 1..Len(line) : line'[i] = line[i]
    BY <2>1
  <2> QED
    BY <1>1, <1>3, <2>1, <2>2
<1> QED
  BY <1>2, <1>3

(* The first words of a line. *)
LEMMA ReadWordAt ==
  ASSUME TypeOK, NEW w, Read(w), ~over
  PROVE  /\ line' \in Seq(Words) /\ busy' = busy
         /\ w = Null => line' = line /\ over'
         /\ w # Null => /\ w \in Words /\ ~over' /\ line' # <<>>
                        /\ Len(line') = Len(line) + 1 /\ line'[Len(line) + 1] = w
         /\ Len(line) >= 1 => line' # <<>> /\ line'[1] = line[1]
         /\ Len(line) >= 2 => line'[2] = line[2]
         /\ Len(line) >= 3 => line'[3] = line[3]
<1>1. line \in Seq(Words) /\ Len(line) \in Nat
  BY DEF TypeOK
<1>2. CASE w = Null
  <2>1. line' = line /\ over' /\ busy' = busy
    BY <1>2, ReadOne
  <2> QED
    BY <1>1, <1>2, <2>1
<1>3. CASE w # Null
  <2>1. /\ w \in Words /\ ~over' /\ line' \in Seq(Words) /\ busy' = busy
        /\ Len(line') = Len(line) + 1 /\ line'[Len(line) + 1] = w
        /\ \A i \in 1..Len(line) : line'[i] = line[i]
    BY <1>3, ReadOne
  <2>2. line' # <<>>
    BY <1>1, <2>1
  <2>3. /\ Len(line) >= 1 => line'[1] = line[1]
        /\ Len(line) >= 2 => line'[2] = line[2]
        /\ Len(line) >= 3 => line'[3] = line[3]
    BY <1>1, <2>1
  <2> QED
    BY <1>3, <2>1, <2>2, <2>3
<1> QED
  BY <1>2, <1>3

(* The words after the k-th. *)
LEMMA AfterWords ==
  ASSUME NEW l \in Seq(Words), NEW k \in Nat
  PROVE  /\ After(l, k) \in Seq(Words)
         /\ Len(l) >= k => Len(After(l, k)) = Len(l) - k
         /\ Len(l) < k => Len(After(l, k)) = 0
         /\ \A i \in 1..(Len(l) - k) : After(l, k)[i] = l[k + i]
  BY DEF After

-----------------------------------------------------------------------------
(* What a line means, verb by verb.                                         *)

(* What add does with a command, and what a whole line means once its options
   are known, test by test. *)
LEMMA AddIs ==
  ASSUME NEW verb, NEW arg, NEW interval, NEW file
  PROVE  Add(AddCommand(verb, arg, interval, file)) =
           IF verb # "add -s" /\ busy.full THEN Refused
           ELSE IF interval = Null THEN Fault
           ELSE IF IsInterval(interval) /\ (verb = "add -p" => IsPid(arg))
           THEN AddCommand(verb, arg, interval, file)
           ELSE Refused
  BY DEF Add, AddCommand, IsInterval, IsPid

(* With options in the prompt's order, a whole line means what add makes of its
   command. *)
LEMMA AddMeansAdd ==
  ASSUME NEW verb, NEW arg, NEW o, AreOptions(o),
         ~(Len(o) = 1 /\ o[1] = "-i"), IntervalIn(o) # Null
  PROVE  AddMeans(verb, arg, o) = Add(AddCommand(verb, arg, IntervalIn(o), FileIn(o)))
<1> DEFINE c == AddCommand(verb, arg, IntervalIn(o), FileIn(o))
           Passes == IsInterval(IntervalIn(o)) /\ (verb = "add -p" => IsPid(arg))
<1>1. AddMeans(verb, arg, o) =
        IF verb # "add -s" /\ busy.full THEN Refused ELSE IF Passes THEN c ELSE Refused
  BY DEF AddMeans, AddCommand, AreOptions, IsInterval, IsPid
<1>2. Add(c) = IF verb # "add -s" /\ busy.full THEN Refused
               ELSE IF IntervalIn(o) = Null THEN Fault
               ELSE IF Passes THEN c ELSE Refused
  BY AddIs DEF IsInterval, IsPid
<1> HIDE DEF c, Passes
<1>3. AddMeans(verb, arg, o) = Add(c)
  <2>1. CASE verb # "add -s" /\ busy.full
    BY <1>1, <1>2, <2>1
  <2>2. CASE ~(verb # "add -s" /\ busy.full) /\ Passes
    BY <1>1, <1>2, <2>2
  <2>3. CASE ~(verb # "add -s" /\ busy.full) /\ ~Passes
    BY <1>1, <1>2, <2>3
  <2> QED
    BY <2>1, <2>2, <2>3
<1> QED
  BY <1>3 DEF c

(* With other options the line is refused. *)
LEMMA AddMeansRefused ==
  ASSUME NEW verb, NEW arg, NEW o, ~AreOptions(o), ~(Len(o) = 1 /\ o[1] = "-i")
  PROVE  AddMeans(verb, arg, o) = Refused
  BY DEF AddMeans, AreOptions

(* The options of an add mean what the prompt makes of them one by one. *)
LEMMA OptionsMean ==
  ASSUME NEW verb, NEW arg, NEW o \in Seq(Words),
         defaultInterval \in Words, defaultLogFile \in Words
  PROVE  LET Comes(interval, file) ==
               AddMeans(verb, arg, o) = Add(AddCommand(verb, arg, interval, file))
         IN  /\ Len(o) = 0 => Comes(defaultInterval, defaultLogFile)
             /\ Len(o) = 1 /\ o[1] = "-i" => Comes(Null, defaultLogFile)
             /\ Len(o) \in {2, 3} /\ o[1] = "-i" =>
                  IF Len(o) = 3 /\ o[3] = "-f"
                  THEN AddMeans(verb, arg, o) = Refused
                  ELSE Comes(o[2], defaultLogFile)
             /\ Len(o) = 4 /\ o[1] = "-i" /\ o[3] = "-f" => Comes(o[2], o[4])
             /\ Len(o) = 2 /\ o[1] = "-f" => Comes(defaultInterval, o[2])
             /\ Len(o) = 1 /\ o[1] # "-i" => AddMeans(verb, arg, o) = Refused
<1> DEFINE Comes(interval, file) ==
             AddMeans(verb, arg, o) = Add(AddCommand(verb, arg, interval, file))
<1>1. Null \notin Words
  BY WordsAssumption
<1>2. Len(o) \in Nat
  OBVIOUS
<1>3. \A i \in 1..Len(o) : o[i] \in Words
  OBVIOUS
<1>4. ASSUME Len(o) = 0 PROVE Comes(defaultInterval, defaultLogFile)
  <2>1. AreOptions(o) /\ IntervalIn(o) = defaultInterval /\ FileIn(o) = defaultLogFile
    BY <1>2, <1>4 DEF AreOptions, IntervalIn, FileIn
  <2>2. ~(Len(o) = 1 /\ o[1] = "-i") /\ IntervalIn(o) # Null
    BY <1>1, <1>2, <1>4, <2>1
  <2> QED
    BY <2>1, <2>2, AddMeansAdd
<1>5. ASSUME Len(o) = 1, o[1] = "-i" PROVE Comes(Null, defaultLogFile)
  <2>1. AddMeans(verb, arg, o) = IF verb # "add -s" /\ busy.full THEN Refused ELSE Fault
    BY <1>2, <1>5 DEF AddMeans
  <2> QED
    BY <2>1, AddIs
<1>6. ASSUME Len(o) \in {2, 3}, o[1] = "-i", ~(Len(o) = 3 /\ o[3] = "-f")
      PROVE  Comes(o[2], defaultLogFile)
  <2>1. AreOptions(o) /\ IntervalIn(o) = o[2] /\ FileIn(o) = defaultLogFile
    BY <1>2, <1>6 DEF AreOptions, IntervalIn, FileIn
  <2>2. ~(Len(o) = 1 /\ o[1] = "-i") /\ IntervalIn(o) # Null
    BY <1>1, <1>2, <1>3, <1>6, <2>1
  <2> QED
    BY <2>1, <2>2, AddMeansAdd
<1>7. ASSUME Len(o) = 3, o[1] = "-i", o[3] = "-f" PROVE AddMeans(verb, arg, o) = Refused
  <2>1. ~AreOptions(o) /\ ~(Len(o) = 1 /\ o[1] = "-i")
    BY <1>2, <1>7 DEF AreOptions
  <2> QED
    BY <2>1, AddMeansRefused
<1>8. ASSUME Len(o) = 4, o[1] = "-i", o[3] = "-f" PROVE Comes(o[2], o[4])
  <2>1. AreOptions(o) /\ IntervalIn(o) = o[2] /\ FileIn(o) = o[4]
    BY <1>2, <1>8 DEF AreOptions, IntervalIn, FileIn
  <2>2. ~(Len(o) = 1 /\ o[1] = "-i") /\ IntervalIn(o) # Null
    BY <1>1, <1>2, <1>3, <1>8, <2>1
  <2> QED
    BY <2>1, <2>2, AddMeansAdd
<1>9. ASSUME Len(o) = 2, o[1] = "-f" PROVE Comes(defaultInterval, o[2])
  <2>1. AreOptions(o) /\ IntervalIn(o) = defaultInterval /\ FileIn(o) = o[2]
    BY <1>2, <1>9 DEF AreOptions, IntervalIn, FileIn
  <2>2. ~(Len(o) = 1 /\ o[1] = "-i") /\ IntervalIn(o) # Null
    BY <1>1, <1>2, <1>9, <2>1
  <2> QED
    BY <2>1, <2>2, AddMeansAdd
<1>10. ASSUME Len(o) = 1, o[1] # "-i" PROVE AddMeans(verb, arg, o) = Refused
  <2>1. ~AreOptions(o) /\ ~(Len(o) = 1 /\ o[1] = "-i")
    BY <1>2, <1>10 DEF AreOptions
  <2> QED
    BY <2>1, AddMeansRefused
<1> QED
  BY <1>4, <1>5, <1>6, <1>7, <1>8, <1>9, <1>10

(* A line that begins with an add of verb and arg means that add, with the words
   after as its options. *)
LEMMA AddOfMeans ==
  ASSUME NEW verb, NEW arg, NEW l \in Seq(Words), AddOf(l, verb, arg)
  PROVE  Means(l) = AddMeans(verb, arg, After(l, HeadLen(verb)))
<1>1. Len(l) >= 2 /\ l[1] = "add" /\ Len(l) \in Nat
  <2>1. HeadLen(verb) = 2 \/ HeadLen(verb) = 3
    BY DEF HeadLen
  <2>2. Len(l) >= HeadLen(verb) /\ l[1] = "add"
    BY DEF AddOf
  <2>3. Len(l) \in Nat
    OBVIOUS
  <2> QED
    BY <2>1, <2>2, <2>3
<1>2. CASE verb = "add -s" /\ l[2] = "-s" /\ arg = Null /\ ~busy.system
  BY <1>1, <1>2 DEF Means, HeadLen, Begins
<1>3. CASE verb = "add -p" /\ l[2] = "-p" /\ arg = l[3]
  <2>1. HeadLen(verb) = 3
    BY <1>3 DEF HeadLen
  <2>2. Len(l) >= 3
    BY <2>1 DEF AddOf
  <2> QED
    BY <1>1, <1>3, <2>1, <2>2 DEF Means, Begins
<1>4. CASE verb = "add -e" /\ l[2] = "-e" /\ arg = l[3]
  <2>1. HeadLen(verb) = 3
    BY <1>4 DEF HeadLen
  <2>2. Len(l) >= 3
    BY <2>1 DEF AddOf
  <2>3. Means(l) = AddMeans("add -e", IF Len(l) = 2 THEN Null ELSE l[3], After(l, 3))
    BY <1>1, <1>4, <2>2 DEF Means, Begins
  <2> QED
    <3>1. Len(l) # 2
      <4>1. \A n \in Nat : n >= 3 => n # 2
        OBVIOUS
      <4> QED
        BY <1>1, <2>2, <4>1
    <3>2. Means(l) = AddMeans("add -e", l[3], After(l, 3))
      BY <2>3, <3>1
    <3> QED
      BY <1>4, <2>1, <3>2
<1> QED
  BY <1>2, <1>3, <1>4 DEF AddOf

(* "add -e" alone asks for no program. *)
LEMMA AddNothingMeans ==
  ASSUME NEW l \in Seq(Words), Len(l) = 2, l[1] = "add", l[2] = "-e"
  PROVE  Means(l) = AddMeans("add -e", Null, After(l, 3))
  BY DEF Means, Begins

(* An add that says not what to monitor, or the system once more. *)
LEMMA AddRefused ==
  ASSUME NEW l \in Seq(Words), l[1] = "add",
         \/ Len(l) = 1
         \/ Len(l) = 2 /\ l[2] \notin {"-s", "-p", "-e"}
         \/ Len(l) = 2 /\ l[2] = "-s" /\ busy.system
         \/ Len(l) = 2 /\ l[2] = "-p"
  PROVE  Means(l) = Refused
<1>1. CASE Len(l) = 1
  BY <1>1 DEF Means, Begins
<1>2. CASE Len(l) = 2 /\ l[2] \notin {"-s", "-p", "-e"}
  BY <1>2 DEF Means, Begins
<1>3. CASE Len(l) = 2 /\ l[2] = "-s" /\ busy.system
  BY <1>3 DEF Means, Begins
<1>4. CASE Len(l) = 2 /\ l[2] = "-p"
  BY <1>4 DEF Means, Begins
<1> QED
  BY <1>1, <1>2, <1>3, <1>4

(* The other lines. *)
LEMMA SetMeans ==
  ASSUME NEW l \in Seq(Words), l[1] = "set"
  PROVE  /\ Len(l) = 3 /\ l[2] = "interval" =>
              Means(l) = IF IsInterval(l[3])
                         THEN [Blank EXCEPT !.verb = "set interval", !.interval = l[3]]
                         ELSE Refused
         /\ Len(l) = 3 /\ l[2] = "logfile" =>
              Means(l) = [Blank EXCEPT !.verb = "set logfile", !.file = l[3]]
         /\ Len(l) = 2 => Means(l) = Refused
         /\ Len(l) = 1 => Means(l) = Refused
<1>1. Len(l) = 3 /\ l[2] = "interval" =>
        Means(l) = IF IsInterval(l[3])
                   THEN [Blank EXCEPT !.verb = "set interval", !.interval = l[3]]
                   ELSE Refused
  BY DEF Means, Begins, IsInterval
<1>2. Len(l) = 3 /\ l[2] = "logfile" =>
        Means(l) = [Blank EXCEPT !.verb = "set logfile", !.file = l[3]]
  BY DEF Means, Begins
<1>3. Len(l) = 2 => Means(l) = Refused
  BY DEF Means, Begins
<1>4. Len(l) = 1 => Means(l) = Refused
  BY DEF Means, Begins
<1> QED
  BY <1>1, <1>2, <1>3, <1>4

(* remove, word by word. *)
LEMMA RemoveMeans ==
  ASSUME NEW l \in Seq(Words), l[1] = "remove"
  PROVE  /\ Len(l) = 2 /\ l[2] = "-s" => Means(l) = [Blank EXCEPT !.verb = "remove -s"]
         /\ Len(l) = 2 /\ l[2] = "-t" => Means(l) = Fault
         /\ Len(l) = 3 /\ l[2] = "-t" =>
              Means(l) = IF IsTid(l[3]) THEN [Blank EXCEPT !.verb = "remove -t", !.arg = l[3]]
                         ELSE Refused
         /\ Len(l) = 2 /\ l[2] \notin {"-s", "-t"} => Means(l) = Refused
         /\ Len(l) = 1 => Means(l) = Refused
<1>1. Len(l) = 2 /\ l[2] = "-s" => Means(l) = [Blank EXCEPT !.verb = "remove -s"]
  BY DEF Means, Begins
<1>2. Len(l) = 2 /\ l[2] = "-t" => Means(l) = Fault
  BY DEF Means, Begins
<1>3. Len(l) = 3 /\ l[2] = "-t" =>
        Means(l) = IF IsTid(l[3]) THEN [Blank EXCEPT !.verb = "remove -t", !.arg = l[3]]
                   ELSE Refused
  BY DEF Means, Begins, IsTid
<1>4. Len(l) = 2 /\ l[2] \notin {"-s", "-t"} => Means(l) = Refused
  BY DEF Means, Begins
<1>5. Len(l) = 1 => Means(l) = Refused
  BY DEF Means, Begins
<1> QED
  BY <1>1, <1>2, <1>3, <1>4, <1>5

(* kill, word by word. *)
LEMMA KillMeans ==
  ASSUME NEW l \in Seq(Words), l[1] = "kill"
  PROVE  /\ Len(l) = 1 => Means(l) = Fault
         /\ Len(l) = 2 =>
              Means(l) = IF IsPid(l[2]) THEN [Blank EXCEPT !.verb = "kill", !.arg = l[2]]
                         ELSE Refused
<1>1. Len(l) = 1 => Means(l) = Fault
  BY DEF Means, Begins
<1>2. Len(l) = 2 =>
        Means(l) = IF IsPid(l[2]) THEN [Blank EXCEPT !.verb = "kill", !.arg = l[2]]
                   ELSE Refused
  BY DEF Means, Begins, IsPid
<1> QED
  BY <1>1, <1>2

(* webmon, which is refused while one runs. *)
LEMMA WebmonMeans ==
  ASSUME NEW l \in Seq(Words), l[1] = "webmon"
  PROVE  /\ Len(l) = 4 /\ IsInterval(l[2]) /\ IsInterval(l[3]) /\ ~busy.webmon =>
              Means(l) = AddCommand("webmon", l[3], l[2], l[4])
         /\ Len(l) = 1 \/ Len(l) = 2 \/ Len(l) = 3 \/ busy.webmon => Means(l) = Refused
<1>1. Len(l) = 4 /\ IsInterval(l[2]) /\ IsInterval(l[3]) /\ ~busy.webmon =>
        Means(l) = AddCommand("webmon", l[3], l[2], l[4])
  BY DEF Means, Begins, IsInterval, AddCommand
<1>2. Len(l) = 1 \/ Len(l) = 2 \/ Len(l) = 3 => Means(l) = Refused
  <2>1. CASE Len(l) = 1
    BY <2>1 DEF Means, Begins
  <2>2. CASE Len(l) = 2
    BY <2>2 DEF Means, Begins
  <2>3. CASE Len(l) = 3
    BY <2>3 DEF Means, Begins
  <2> QED
    BY <2>1, <2>2, <2>3
<1>3. busy.webmon => Means(l) = Refused
  BY DEF Means, Begins
<1> QED
  BY <1>1, <1>2, <1>3

(* Lines of one word. *)
LEMMA OneWordMeans ==
  ASSUME NEW l \in Seq(Words), Len(l) = 1
  PROVE  /\ l[1] \in {"listactive", "listcompleted"} =>
              Means(l) = [Blank EXCEPT !.verb = l[1]]
         /\ l[1] \notin {"add", "set", "remove", "kill", "webmon",
                         "listactive", "listcompleted"} =>
              Means(l) = Refused
<1>1. l[1] \in {"listactive", "listcompleted"} =>
        Means(l) = [Blank EXCEPT !.verb = l[1]]
  BY DEF Means, Begins
<1>2. l[1] \notin {"kill", "webmon", "listactive", "listcompleted"} => Means(l) = Refused
  BY DEF Means, Begins
<1> QED
  BY <1>1, <1>2

(* An add, with as many options as have been read. *)
LEMMA AddLineMeans ==
  ASSUME TypeOK, NEW verb, NEW arg, NEW l \in Seq(Words), AddOf(l, verb, arg),
         NEW k \in Nat, k = HeadLen(verb)
  PROVE  LET Comes(interval, file) ==
               Means(l) = Add(AddCommand(verb, arg, interval, file))
         IN  /\ Len(l) = k => Comes(defaultInterval, defaultLogFile)
             /\ Len(l) = k + 1 /\ l[k + 1] = "-i" => Comes(Null, defaultLogFile)
             /\ Len(l) = k + 2 /\ l[k + 1] = "-i" => Comes(l[k + 2], defaultLogFile)
             /\ Len(l) = k + 3 /\ l[k + 1] = "-i" /\ l[k + 3] # "-f" =>
                  Comes(l[k + 2], defaultLogFile)
             /\ Len(l) = k + 3 /\ l[k + 1] = "-i" /\ l[k + 3] = "-f" => Means(l) = Refused
             /\ Len(l) = k + 4 /\ l[k + 1] = "-i" /\ l[k + 3] = "-f" =>
                  Comes(l[k + 2], l[k + 4])
             /\ Len(l) = k + 2 /\ l[k + 1] = "-f" => Comes(defaultInterval, l[k + 2])
             /\ Len(l) = k + 1 /\ l[k + 1] # "-i" => Means(l) = Refused
<1> DEFINE o == After(l, k)
<1>1. Means(l) = AddMeans(verb, arg, o)
  BY AddOfMeans
<1>2. o \in Seq(Words)
  BY AfterWords
<1>3. Len(l) \in Nat /\ Len(l) >= k
  <2>1. Len(l) >= HeadLen(verb)
    BY DEF AddOf
  <2> QED
    BY <2>1
<1>4. Len(o) = Len(l) - k /\ \A i \in 1..(Len(l) - k) : o[i] = l[k + i]
  BY <1>3, AfterWords
<1>5. defaultInterval \in Words /\ defaultLogFile \in Words
  BY DEF TypeOK
<1> HIDE DEF o
<1> DEFINE Comes(interval, file) ==
             AddMeans(verb, arg, o) = Add(AddCommand(verb, arg, interval, file))
<1>6. /\ Len(o) = 0 => Comes(defaultInterval, defaultLogFile)
      /\ Len(o) = 1 /\ o[1] = "-i" => Comes(Null, defaultLogFile)
      /\ Len(o) = 2 /\ o[1] = "-i" => Comes(o[2], defaultLogFile)
      /\ Len(o) = 3 /\ o[1] = "-i" /\ o[3] # "-f" => Comes(o[2], defaultLogFile)
      /\ Len(o) = 3 /\ o[1] = "-i" /\ o[3] = "-f" => AddMeans(verb, arg, o) = Refused
      /\ Len(o) = 4 /\ o[1] = "-i" /\ o[3] = "-f" => Comes(o[2], o[4])
      /\ Len(o) = 2 /\ o[1] = "-f" => Comes(defaultInterval, o[2])
      /\ Len(o) = 1 /\ o[1] # "-i" => AddMeans(verb, arg, o) = Refused
  BY <1>2, <1>5, OptionsMean
<1>7. \A i \in 1..4 : Len(l) >= k + i => o[i] = l[k + i]
  BY <1>3, <1>4
<1> QED
  BY <1>1, <1>3, <1>4, <1>6, <1>7

-----------------------------------------------------------------------------
(* What one step keeps.                                                     *)

(* A line means after a step what it meant before, as long as the defaults do not
   change; a set means the same with other defaults. *)
LEMMA MeansStays ==
  ASSUME NEW l, line' = l, busy' = busy, UNCHANGED defaults
  PROVE  Means(line)' = Means(l)
  BY DEF Means, AddMeans, AreOptions, IntervalIn, FileIn, Begins, After, defaults,
     Refused, Fault, Blank, IsInterval, IsPid, IsTid, OutOfRange, IntOf, ToInt

(* A set means the same whatever the defaults are. *)
LEMMA SetMeansStays ==
  ASSUME NEW l, line' = l, l[1] = "set"
  PROVE  Means(line)' = Means(l)
  BY DEF Means, Begins, Refused, Fault, Blank, IsInterval, IsPid, IsTid, OutOfRange,
     IntOf, ToInt

(* Words of an add stay where they are. *)
LEMMA AddOfLonger ==
  ASSUME TypeOK, NEW verb, NEW arg, NEW l \in Seq(Words), AddOf(line, verb, arg),
         Len(l) >= Len(line), \A i \in 1..Len(line) : l[i] = line[i],
         line' = l, busy' = busy
  PROVE  AddOf(l, verb, arg) /\ AddOf(line, verb, arg)'
<1>1. line \in Seq(Words) /\ Len(line) \in Nat /\ Len(l) \in Nat
  BY DEF TypeOK
<1>2. verb \in AddVerbs /\ Len(line) >= HeadLen(verb)
  BY DEF AddOf, AddVerbs
<1>3. AddOf(l, verb, arg)
  <2>1. CASE verb = "add -s"
    <3>1. HeadLen(verb) = 2
      BY <2>1 DEF HeadLen
    <3>2. Len(l) >= 2 /\ l[1] = line[1] /\ l[2] = line[2]
      BY <1>1, <1>2, <3>1
    <3> QED
      BY <2>1, <3>1, <3>2 DEF AddOf
  <2>2. CASE verb # "add -s"
    <3>1. HeadLen(verb) = 3
      BY <2>2 DEF HeadLen
    <3>2. Len(l) >= 3 /\ l[1] = line[1] /\ l[2] = line[2] /\ l[3] = line[3]
      BY <1>1, <1>2, <3>1
    <3> QED
      BY <2>2, <3>1, <3>2 DEF AddOf
  <2> QED
    BY <2>1, <2>2
<1> QED
  BY <1>3 DEF AddOf, HeadLen

(* The prompt reads on: all but Where is as before. *)
LEMMA GoesOn ==
  ASSUME Inv, NEW w, Read(w), NEW place, NEW c, ReadOn(place, c),
         place \in {"type", "addArg", "option", "interval", "afterInterval", "file",
                    "setting", "setInterval", "setLogFile", "thread", "tid", "pid",
                    "answer", "webInterval", "refreshRate", "page"},
         Where'
  PROVE  Inv'
<1>1. TypeOK'
  BY ReadOne DEF Inv, TypeOK, ReadOn, defaults
<1>2. LineIsUnderstood'
  BY DEF LineIsUnderstood, ReadOn
<1>3. DefaultIsAnInterval'
  BY DEF Inv, DefaultIsAnInterval, ReadOn, defaults, IsInterval, OutOfRange, IntOf, ToInt
<1> QED
  BY <1>1, <1>2, <1>3 DEF Inv

(* The line is done with, and came to what it means. *)
LEMMA Ends ==
  ASSUME Inv, NEW w, Read(w), NEW result, Finish(result), NEW l, l = line',
         l # <<>> /\ l[1] # "exit" => result = Means(l)
  PROVE  Inv'
<1>1. next' = "prompt" /\ outcome' = result /\ UNCHANGED defaults
  BY DEF Finish, Done
<1>2. busy' = busy
  BY DEF Read
<1>3. TypeOK'
  BY <1>1, ReadOne DEF Inv, TypeOK, defaults
<1>4. Where'
  BY <1>1 DEF Where
<1>5. LineIsUnderstood'
  <2>1. Means(line)' = Means(l)
    BY <1>1, <1>2, MeansStays
  <2> QED
    BY <1>1, <2>1 DEF LineIsUnderstood
<1>6. DefaultIsAnInterval'
  BY <1>1 DEF Inv, DefaultIsAnInterval, defaults, IsInterval, OutOfRange, IntOf, ToInt
<1> QED
  BY <1>3, <1>4, <1>5, <1>6 DEF Inv

-----------------------------------------------------------------------------
(* The steps.                                                               *)

(* The first word. *)
LEMMA VerbStep ==
  ASSUME Inv, NEW w, ReadVerb(w)
  PROVE  Inv'
<1>1. next = "verb" /\ Read(w) /\ line = <<>> /\ ~over
  BY DEF ReadVerb, Inv, Where
<1>2. PICK l : l = line'
  OBVIOUS
<1>3. /\ w = Null => l = <<>>
      /\ w # Null => /\ w \in Words /\ ~over' /\ l # <<>>
                     /\ l \in Seq(Words) /\ Len(l) = 1 /\ l[1] = w
  <2>1. TypeOK /\ ~over /\ Len(line) = 0
    BY <1>1 DEF Inv
  <2> QED
    BY <1>1, <1>2, <2>1, ReadWordAt
<1>4. Null \notin Keywords /\ TypeOK
  BY WordsAssumption DEF Inv
<1>5. CASE w = "add"
  <2>1. ReadOn("type", [Blank EXCEPT !.interval = defaultInterval,
                                     !.file = defaultLogFile])
    BY <1>5 DEF ReadVerb
  <2>2. Where'
    BY <1>2, <1>3, <1>4, <1>5, <2>1
       DEF Where, ReadOn, WordsRead, Blank, AddCommand, Keywords, defaults
  <2> QED
    BY <1>1, <2>1, <2>2, GoesOn
<1>6. CASE w = "set"
  <2>1. ReadOn("setting", Blank)
    BY <1>6 DEF ReadVerb
  <2>2. Where'
    BY <1>2, <1>3, <1>4, <1>6, <2>1 DEF Where, ReadOn, WordsRead, Keywords
  <2> QED
    BY <1>1, <2>1, <2>2, GoesOn
<1>7. CASE w = "remove"
  <2>1. ReadOn("thread", Blank)
    BY <1>7 DEF ReadVerb
  <2>2. Where'
    BY <1>2, <1>3, <1>4, <1>7, <2>1 DEF Where, ReadOn, WordsRead, Keywords
  <2> QED
    BY <1>1, <2>1, <2>2, GoesOn
<1>8. CASE w = "kill"
  <2>1. ReadOn("pid", [Blank EXCEPT !.verb = "kill"])
    BY <1>8 DEF ReadVerb
  <2>2. Where'
    BY <1>2, <1>3, <1>4, <1>8, <2>1 DEF Where, ReadOn, WordsRead, Keywords, Blank
  <2> QED
    BY <1>1, <2>1, <2>2, GoesOn
<1>9. CASE w = "exit" /\ busy.threads
  <2>1. ReadOn("answer", Blank)
    BY <1>9 DEF ReadVerb
  <2>2. Where'
    BY <1>2, <1>3, <1>4, <1>9, <2>1 DEF Where, ReadOn, WordsRead, Keywords
  <2> QED
    BY <1>1, <2>1, <2>2, GoesOn
<1>10. CASE w = "webmon" /\ ~busy.webmon
  <2>1. ReadOn("webInterval", [Blank EXCEPT !.verb = "webmon"])
    BY <1>10 DEF ReadVerb
  <2>2. l # <<>> /\ Len(l) = 1 /\ l[1] = "webmon" /\ ~over'
    BY <1>3, <1>4, <1>10 DEF Keywords
  <2>3. Where'
    BY <1>1, <1>2, <1>10, <2>1, <2>2 DEF Where, ReadOn, Read, WordsRead, Blank
  <2> QED
    BY <1>1, <2>1, <2>3, GoesOn
<1>11. CASE w \in {"listactive", "listcompleted"}
  <2>1. Finish([Blank EXCEPT !.verb = w])
    BY <1>11 DEF ReadVerb
  <2>2. Means(l) = [Blank EXCEPT !.verb = w]
    BY <1>3, <1>4, <1>11, OneWordMeans DEF Keywords
  <2> QED
    BY <1>1, <1>2, <2>1, <2>2, Ends
<1>12. CASE w = "exit" /\ ~busy.threads
  <2>1. Finish([Blank EXCEPT !.verb = w])
    BY <1>12 DEF ReadVerb
  <2>2. l[1] = "exit"
    BY <1>3, <1>4, <1>12 DEF Keywords
  <2> QED
    BY <1>1, <1>2, <2>1, <2>2, Ends
<1>13. CASE /\ w \notin {"add", "set", "remove", "kill", "exit",
                         "listactive", "listcompleted"}
            /\ ~(w = "webmon" /\ ~busy.webmon)
  <2>1. Finish(Refused)
    BY <1>13 DEF ReadVerb
  <2>2. l # <<>> => Means(l) = Refused
    <3>1. CASE l # <<>> /\ w = "webmon"
      BY <1>3, <1>13, <3>1, WebmonMeans
    <3>2. CASE l # <<>> /\ w # "webmon"
      BY <1>3, <1>13, <3>2, OneWordMeans
    <3> QED
      BY <3>1, <3>2
  <2> QED
    BY <1>1, <1>2, <2>1, <2>2, Ends
<1> QED
  BY <1>5, <1>6, <1>7, <1>8, <1>9, <1>10, <1>11, <1>12, <1>13

(* The word after add. *)
LEMMA TypeStep ==
  ASSUME Inv, NEW w, ReadType(w)
  PROVE  Inv'
<1>1. /\ next = "type" /\ Read(w)
      /\ Len(line) = 1 /\ line[1] = "add" /\ ~over
      /\ cmd = AddCommand("none", Null, defaultInterval, defaultLogFile)
  BY DEF ReadType, Inv, Where, WordsRead
<1>2. PICK l : l = line'
  OBVIOUS
<1>3. /\ l \in Seq(Words) /\ l # <<>> /\ l[1] = "add"
      /\ w = Null => Len(l) = 1
      /\ w # Null => w \in Words /\ ~over' /\ Len(l) = 2 /\ l[2] = w
  BY <1>1, <1>2, ReadWordAt DEF Inv
<1>4. Null \notin Keywords /\ TypeOK /\ busy' = busy
  BY <1>1, WordsAssumption DEF Inv, Read
<1>5. CASE w = "-s" /\ ~busy.system
  <2>1. ReadOn("option", [cmd EXCEPT !.verb = "add -s"])
    BY <1>5 DEF ReadType
  <2>2. /\ Len(l) = 2 /\ l[1] = "add" /\ l[2] = "-s" /\ ~over'
    BY <1>3, <1>4, <1>5 DEF Keywords
  <2>3. /\ cmd' = AddCommand("add -s", Null, defaultInterval, defaultLogFile)
        /\ UNCHANGED defaults
    BY <1>1, <2>1 DEF ReadOn, AddCommand
  <2>4. AddOf(line, "add -s", Null)' /\ WordsRead(HeadLen("add -s"))'
    BY <1>2, <1>4, <1>5, <2>2 DEF AddOf, HeadLen, WordsRead
  <2>5. AtOption'
    BY <2>3, <2>4 DEF AtOption, AddVerbs, defaults
  <2>6. Where'
    BY <2>1, <2>5 DEF Where, ReadOn
  <2> QED
    BY <1>1, <2>1, <2>6, GoesOn
<1>6. CASE w = "-p" \/ w = "-e"
  <2>1. PICK verb \in AddVerbs :
          /\ ReadOn("addArg", [cmd EXCEPT !.verb = verb])
          /\ verb = IF w = "-p" THEN "add -p" ELSE "add -e"
    BY <1>6 DEF ReadType, AddVerbs
  <2>2. /\ Len(l) = 2 /\ l[1] = "add" /\ l[2] = w /\ ~over'
    BY <1>3, <1>4, <1>6 DEF Keywords
  <2>3. /\ cmd' = AddCommand(verb, Null, defaultInterval, defaultLogFile)
        /\ UNCHANGED defaults
    BY <1>1, <2>1 DEF ReadOn, AddCommand
  <2>4. Where'
    BY <1>2, <1>6, <2>1, <2>2, <2>3 DEF Where, ReadOn, WordsRead, defaults
  <2> QED
    BY <1>1, <2>1, <2>4, GoesOn
<1>7. CASE ~(w = "-s" /\ ~busy.system) /\ w # "-p" /\ w # "-e"
  <2>1. Finish(Refused)
    BY <1>7 DEF ReadType
  <2>2. Means(l) = Refused
    BY <1>3, <1>7, AddRefused
  <2> QED
    BY <1>1, <1>2, <2>1, <2>2, Ends
<1> QED
  BY <1>5, <1>6, <1>7

(* The process or the program. *)
LEMMA AddArgStep ==
  ASSUME Inv, NEW w, ReadAddArg(w)
  PROVE  Inv'
<1>1. /\ next = "addArg" /\ Read(w)
      /\ Len(line) = 2 /\ line[1] = "add" /\ ~over
  BY DEF ReadAddArg, Inv, Where, WordsRead
<1>2. PICK l : l = line'
  OBVIOUS
<1>3. /\ l \in Seq(Words) /\ l # <<>> /\ l[1] = "add" /\ l[2] = line[2]
      /\ w = Null => over' /\ Len(l) = 2
      /\ w # Null => w \in Words /\ ~over' /\ Len(l) = 3 /\ l[3] = w
  BY <1>1, <1>2, ReadWordAt DEF Inv
<1>4. TypeOK /\ busy' = busy
  BY <1>1 DEF Inv, Read
<1>5. PICK verb \in AddVerbs :
        /\ verb = "add -p" \/ verb = "add -e"
        /\ cmd = AddCommand(verb, Null, defaultInterval, defaultLogFile)
        /\ line[2] = IF verb = "add -p" THEN "-p" ELSE "-e"
  BY <1>1 DEF Inv, Where, AddVerbs
<1>6. cmd.verb = verb
  BY <1>5 DEF AddCommand
<1>7. CASE w = Null /\ verb = "add -p"
  <2>1. Finish(Refused)
    BY <1>6, <1>7 DEF ReadAddArg
  <2>2. Means(l) = Refused
    BY <1>3, <1>5, <1>7, AddRefused
  <2> QED
    BY <1>1, <1>2, <2>1, <2>2, Ends
<1>8. CASE ~(w = Null /\ verb = "add -p")
  <2>1. ReadOn("option", [cmd EXCEPT !.arg = w])
    BY <1>6, <1>8 DEF ReadAddArg
  <2>2. /\ cmd' = AddCommand(verb, w, defaultInterval, defaultLogFile)
        /\ UNCHANGED defaults
    BY <1>5, <2>1 DEF ReadOn, AddCommand
  <2>3. CASE w = Null
    <3>1. AtOption'
      BY <1>2, <1>3, <1>5, <1>8, <2>2, <2>3 DEF AtOption, defaults
    <3> QED
      BY <1>1, <2>1, <3>1, GoesOn DEF Where, ReadOn
  <2>4. CASE w # Null
    <3>1. HeadLen(verb) = 3
      BY <1>5 DEF HeadLen
    <3>2. /\ l[1] = "add" /\ l[3] = w /\ ~over' /\ Len(l) = 3
          /\ l[2] = IF verb = "add -p" THEN "-p" ELSE "-e"
      BY <1>1, <1>3, <1>5, <2>4
    <3>3. AddOf(line, verb, w)' /\ WordsRead(HeadLen(verb))'
      <4>1. /\ line'[1] = "add" /\ line'[3] = w /\ ~over' /\ Len(line') = 3
            /\ line'[2] = IF verb = "add -p" THEN "-p" ELSE "-e"
        BY <1>2, <3>2
      <4>2. Len(line') >= HeadLen(verb) /\ Len(line') = HeadLen(verb)
        <5>1. HeadLen(verb) \in Nat
          BY <3>1
        <5>2. Len(line') = HeadLen(verb)
          BY <3>1, <4>1
        <5> QED
          BY <5>1, <5>2
      <4>3. CASE verb = "add -p"
        <5>1. line'[2] = "-p"
          BY <4>1, <4>3
        <5>2. AddOf(line, verb, w)'
          BY <4>1, <4>2, <4>3, <5>1 DEF AddOf
        <5> QED
          BY <4>1, <4>2, <5>2 DEF WordsRead
      <4>4. CASE verb = "add -e"
        BY <3>1, <4>1, <4>2, <4>4 DEF AddOf, WordsRead
      <4> QED
        BY <1>5, <4>3, <4>4
    <3>4. AtOption'
      BY <1>3, <2>2, <2>4, <3>3 DEF AtOption, defaults
    <3> QED
      BY <1>1, <2>1, <3>4, GoesOn DEF Where, ReadOn
  <2> QED
    BY <2>3, <2>4
<1> QED
  BY <1>7, <1>8

(* One more word of an add: the words before it still say the same. *)
LEMMA AddReadOn ==
  ASSUME TypeOK, NEW w, Read(w), ~over, NEW verb, NEW arg, AddOf(line, verb, arg),
         NEW k \in Nat, k = HeadLen(verb), NEW n \in 0..3, Len(line) = k + n,
         NEW l, l = line'
  PROVE  /\ l \in Seq(Words) /\ l # <<>> /\ busy' = busy
         /\ AddOf(l, verb, arg) /\ AddOf(line, verb, arg)'
         /\ \A i \in 1..n : l[k + i] = line[k + i]
         /\ w = Null => Len(l) = k + n /\ over'
         /\ w # Null => w \in Words /\ ~over' /\ Len(l) = k + n + 1 /\ l[k + n + 1] = w
<1>1. line \in Seq(Words) /\ Len(line) \in Nat
  BY DEF TypeOK
<1>2. /\ line' \in Seq(Words) /\ busy' = busy
      /\ \A i \in 1..Len(line) : line'[i] = line[i]
      /\ w = Null => over' /\ line' = line
      /\ w # Null => w \in Words /\ ~over' /\ Len(line') = Len(line) + 1
                     /\ line'[Len(line) + 1] = w
  BY ReadOne
<1>3. Len(line') >= Len(line) /\ Len(line) >= 1
  <2>1. k = 2 \/ k = 3
    BY DEF HeadLen
  <2> QED
    BY <1>1, <1>2, <2>1
<1>4. AddOf(l, verb, arg) /\ AddOf(line, verb, arg)'
  BY <1>2, <1>3, AddOfLonger
<1>5. \A i \in 1..n : k + i \in 1..Len(line)
  <2>1. k = 2 \/ k = 3
    BY DEF HeadLen
  <2> QED
    BY <2>1
<1>6. \A i \in 1..n : l[k + i] = line[k + i]
  BY <1>2, <1>5
<1>7. l # <<>>
  BY <1>1, <1>2, <1>3
<1> QED
  BY <1>2, <1>4, <1>6, <1>7

(* A word after the process or the program. *)
LEMMA OptionStep ==
  ASSUME Inv, NEW w, ReadOption(w)
  PROVE  Inv'
<1>1. next = "option" /\ Read(w) /\ AtOption /\ TypeOK
  BY DEF ReadOption, Inv, Where
<1>2. PICK l : l = line'
  OBVIOUS
<1>3. "-i" # Null /\ "-f" # Null
  BY WordsAssumption DEF Keywords
<1>4. ASSUME NEW verb \in AddVerbs, NEW arg \in Words \cup {Null},
             cmd = AddCommand(verb, arg, defaultInterval, defaultLogFile),
             AddOf(line, verb, arg), WordsRead(HeadLen(verb))
      PROVE  Inv'
  <2>1. PICK k \in Nat : k = HeadLen(verb)
    BY DEF HeadLen
  <2>2. ~over /\ Len(line) = k + 0
    BY <1>4, <2>1 DEF WordsRead
  <2>3. /\ l \in Seq(Words) /\ busy' = busy
        /\ AddOf(l, verb, arg) /\ AddOf(line, verb, arg)'
        /\ w = Null => Len(l) = k /\ over'
        /\ w # Null => w \in Words /\ ~over' /\ Len(l) = k + 1 /\ l[k + 1] = w
    BY <1>1, <1>2, <1>4, <2>1, <2>2, AddReadOn
  <2>4. CASE w = "-i"
    <3>1. ReadOn("interval", cmd)
      BY <1>3, <2>4 DEF ReadOption
    <3>2. WordsRead(HeadLen(verb) + 1)' /\ OptionIs(verb, 1, "-i")'
      BY <1>2, <1>3, <2>1, <2>3, <2>4 DEF WordsRead, OptionIs
    <3>3. AtInterval'
      BY <1>4, <2>3, <3>1, <3>2 DEF AtInterval, ReadOn, defaults
    <3> QED
      BY <1>1, <3>1, <3>3, GoesOn DEF Where, ReadOn
  <2>5. CASE w = "-f"
    <3>1. ReadOn("file", cmd)
      BY <1>3, <2>5 DEF ReadOption
    <3>2. WordsRead(HeadLen(verb) + 1)' /\ OptionIs(verb, 1, "-f")'
      BY <1>2, <1>3, <2>1, <2>3, <2>5 DEF WordsRead, OptionIs
    <3>3. AtFile'
      BY <1>1, <1>4, <2>3, <3>1, <3>2 DEF AtFile, ReadOn, defaults, TypeOK
    <3> QED
      BY <1>1, <3>1, <3>3, GoesOn DEF Where, ReadOn
  <2>6. CASE w = Null
    <3>1. Finish(Add(cmd))
      BY <1>3, <2>6 DEF ReadOption
    <3>2. Means(l) = Add(cmd)
      BY <1>1, <1>4, <2>1, <2>3, <2>6, AddLineMeans
    <3> QED
      BY <1>1, <1>2, <3>1, <3>2, Ends
  <2>7. CASE w \notin {"-i", "-f", Null}
    <3>1. Finish(Refused)
      BY <2>7 DEF ReadOption
    <3>2. Len(l) = k + 1 /\ l[k + 1] # "-i"
      BY <2>3, <2>7
    <3>3. Means(l) = Refused
      BY <1>1, <2>1, <2>3, <3>2, AddLineMeans
    <3> QED
      BY <1>1, <1>2, <3>1, <3>3, Ends
  <2> QED
    BY <2>4, <2>5, <2>6, <2>7
<1>5. ASSUME cmd = AddCommand("add -e", Null, defaultInterval, defaultLogFile),
             over, Len(line) = 2, line[1] = "add", line[2] = "-e"
      PROVE  Inv'
  <2>1. w = Null /\ l = line
    BY <1>1, <1>2, <1>5, ReadOne
  <2>2. Finish(Add(cmd))
    BY <1>3, <2>1 DEF ReadOption
  <2>3. /\ defaultInterval \in Words /\ defaultLogFile \in Words
        /\ line \in Seq(Words)
    BY <1>1 DEF TypeOK
  <2>4. Means(l) = AddMeans("add -e", Null, After(l, 3))
    BY <1>5, <2>1, <2>3, AddNothingMeans
  <2>5. After(l, 3) \in Seq(Words) /\ Len(After(l, 3)) = 0
    <3>1. l \in Seq(Words) /\ Len(l) = 2
      BY <1>5, <2>1, <2>3
    <3>2. Len(l) < 3 /\ 3 \in Nat
      BY <3>1
    <3> QED
      BY <3>1, <3>2, AfterWords
  <2>6. Means(l) = Add(cmd)
    BY <1>5, <2>3, <2>4, <2>5, OptionsMean
  <2> QED
    BY <1>1, <1>2, <2>2, <2>6, Ends
<1> QED
  BY <1>1, <1>4, <1>5 DEF AtOption

(* The interval of an add. *)
LEMMA IntervalStep ==
  ASSUME Inv, NEW w, ReadInterval(w)
  PROVE  Inv'
<1>1. next = "interval" /\ Read(w) /\ AtInterval /\ TypeOK
  BY DEF ReadInterval, Inv, Where
<1>2. PICK l : l = line'
  OBVIOUS
<1>3. PICK verb \in AddVerbs, arg \in Words \cup {Null} :
        /\ cmd = AddCommand(verb, arg, defaultInterval, defaultLogFile)
        /\ AddOf(line, verb, arg)
        /\ WordsRead(HeadLen(verb) + 1)
        /\ OptionIs(verb, 1, "-i")
  BY <1>1 DEF AtInterval
<1>4. PICK k \in Nat : k = HeadLen(verb)
  BY DEF HeadLen
<1>5. ~over /\ Len(line) = k + 1 /\ line[k + 1] = "-i"
  BY <1>3, <1>4 DEF WordsRead, OptionIs
<1>6. /\ AddOf(line, verb, arg)'
      /\ l[k + 1] = "-i"
      /\ w = Null => Len(l) = k + 1 /\ over'
      /\ w # Null => w \in Words /\ ~over' /\ Len(l) = k + 2 /\ l[k + 2] = w
  BY <1>1, <1>2, <1>3, <1>4, <1>5, AddReadOn
<1>7. ReadOn("afterInterval", [cmd EXCEPT !.interval = w])
  BY DEF ReadInterval
<1>8. cmd' = AddCommand(verb, arg, w, defaultLogFile) /\ UNCHANGED defaults
  BY <1>3, <1>7 DEF ReadOn, AddCommand
<1>9. AtAfterInterval'
  <2>1. OptionIs(verb, 1, "-i")'
    BY <1>2, <1>4, <1>6 DEF OptionIs
  <2>2. \/ w # Null /\ WordsRead(HeadLen(verb) + 2)' /\ OptionIs(verb, 2, w)'
        \/ w = Null /\ over' /\ Len(line') = HeadLen(verb) + 1
    BY <1>2, <1>4, <1>6 DEF OptionIs, WordsRead
  <2>3. w \in Words \cup {Null}
    BY <1>6
  <2> QED
    BY <1>6, <1>8, <2>1, <2>2, <2>3 DEF AtAfterInterval, defaults
<1> QED
  BY <1>1, <1>7, <1>9, GoesOn DEF Where, ReadOn

(* The word after the interval. *)
LEMMA AfterIntervalStep ==
  ASSUME Inv, NEW w, ReadAfterInterval(w)
  PROVE  Inv'
<1>1. next = "afterInterval" /\ Read(w) /\ AtAfterInterval /\ TypeOK
  BY DEF ReadAfterInterval, Inv, Where
<1>2. PICK l : l = line'
  OBVIOUS
<1>3. PICK verb \in AddVerbs, arg \in Words \cup {Null}, interval \in Words \cup {Null} :
        /\ cmd = AddCommand(verb, arg, interval, defaultLogFile)
        /\ AddOf(line, verb, arg)
        /\ OptionIs(verb, 1, "-i")
        /\ \/ interval # Null /\ WordsRead(HeadLen(verb) + 2) /\ OptionIs(verb, 2, interval)
           \/ interval = Null /\ over /\ Len(line) = HeadLen(verb) + 1
  BY <1>1 DEF AtAfterInterval
<1>4. PICK k \in Nat : k = HeadLen(verb)
  BY DEF HeadLen
<1>5. "-f" # Null
  BY WordsAssumption DEF Keywords
<1>6. line[k + 1] = "-i"
  BY <1>3, <1>4 DEF OptionIs
<1>7. CASE interval # Null /\ WordsRead(HeadLen(verb) + 2) /\ OptionIs(verb, 2, interval)
  <2>1. ~over /\ Len(line) = k + 2 /\ line[k + 2] = interval
    BY <1>4, <1>7 DEF WordsRead, OptionIs
  <2>2. /\ l \in Seq(Words) /\ AddOf(l, verb, arg) /\ AddOf(line, verb, arg)'
        /\ l[k + 1] = "-i" /\ l[k + 2] = interval
        /\ w = Null => Len(l) = k + 2 /\ over'
        /\ w # Null => w \in Words /\ ~over' /\ Len(l) = k + 3 /\ l[k + 3] = w
    BY <1>1, <1>2, <1>3, <1>4, <1>6, <2>1, AddReadOn
  <2>3. CASE w = "-f"
    <3>1. ReadOn("file", cmd)
      BY <2>3 DEF ReadAfterInterval
    <3>2. /\ WordsRead(HeadLen(verb) + 3)'
          /\ OptionIs(verb, 1, "-i")' /\ OptionIs(verb, 2, interval)'
          /\ OptionIs(verb, 3, "-f")'
      BY <1>2, <1>4, <1>5, <2>2, <2>3 DEF WordsRead, OptionIs
    <3>3. AtFile'
      BY <1>3, <2>2, <3>1, <3>2 DEF AtFile, ReadOn, defaults
    <3> QED
      BY <1>1, <3>1, <3>3, GoesOn DEF Where, ReadOn
  <2>4. CASE w # "-f"
    <3>1. Finish(Add(cmd))
      BY <2>4 DEF ReadAfterInterval
    <3>2. Means(l) = Add(AddCommand(verb, arg, l[k + 2], defaultLogFile))
      <4>1. CASE w = Null
        BY <1>1, <1>4, <2>2, <4>1, AddLineMeans
      <4>2. CASE w # Null
        BY <1>1, <1>4, <2>2, <2>4, <4>2, AddLineMeans
      <4> QED
        BY <4>1, <4>2
    <3>3. Means(l) = Add(cmd)
      BY <1>3, <2>2, <3>2
    <3> QED
      BY <1>1, <1>2, <3>1, <3>3, Ends
  <2> QED
    BY <2>3, <2>4
<1>8. CASE interval = Null /\ over /\ Len(line) = HeadLen(verb) + 1
  <2>1. w = Null /\ l = line /\ line \in Seq(Words)
    BY <1>1, <1>2, <1>8, ReadOne DEF TypeOK
  <2>2. Finish(Add(cmd))
    BY <1>5, <2>1 DEF ReadAfterInterval
  <2>3. l \in Seq(Words) /\ AddOf(l, verb, arg) /\ Len(l) = k + 1 /\ l[k + 1] = "-i"
    BY <1>3, <1>4, <1>6, <1>8, <2>1
  <2>4. Means(l) = Add(AddCommand(verb, arg, Null, defaultLogFile))
    BY <1>1, <1>4, <2>3, AddLineMeans
  <2>5. Means(l) = Add(cmd)
    BY <1>3, <1>8, <2>4
  <2> QED
    BY <1>1, <1>2, <2>2, <2>5, Ends
<1> QED
  BY <1>3, <1>7, <1>8

(* The log file of an add. *)
LEMMA FileStep ==
  ASSUME Inv, NEW w, ReadFile(w)
  PROVE  Inv'
<1>1. next = "file" /\ Read(w) /\ AtFile /\ TypeOK
  BY DEF ReadFile, Inv, Where
<1>2. PICK l : l = line'
  OBVIOUS
<1>3. PICK verb \in AddVerbs, arg \in Words \cup {Null}, interval \in Words \cup {Null} :
        /\ cmd = AddCommand(verb, arg, interval, defaultLogFile)
        /\ AddOf(line, verb, arg)
        /\ \/ /\ interval = defaultInterval
              /\ WordsRead(HeadLen(verb) + 1) /\ OptionIs(verb, 1, "-f")
           \/ /\ WordsRead(HeadLen(verb) + 3)
              /\ OptionIs(verb, 1, "-i") /\ OptionIs(verb, 2, interval)
              /\ OptionIs(verb, 3, "-f")
  BY <1>1 DEF AtFile
<1>4. PICK k \in Nat : k = HeadLen(verb)
  BY DEF HeadLen
<1>5. Finish(IF w = Null THEN Refused ELSE Add([cmd EXCEPT !.file = w]))
  BY DEF ReadFile
<1>6. [cmd EXCEPT !.file = w] = AddCommand(verb, arg, interval, w)
  BY <1>3 DEF AddCommand
<1>7. CASE /\ interval = defaultInterval
           /\ WordsRead(HeadLen(verb) + 1) /\ OptionIs(verb, 1, "-f")
  <2>1. ~over /\ Len(line) = k + 1 /\ line[k + 1] = "-f"
    BY <1>4, <1>7 DEF WordsRead, OptionIs
  <2>2. /\ l \in Seq(Words) /\ AddOf(l, verb, arg) /\ l[k + 1] = "-f"
        /\ w = Null => Len(l) = k + 1
        /\ w # Null => Len(l) = k + 2 /\ l[k + 2] = w
    BY <1>1, <1>2, <1>3, <1>4, <2>1, AddReadOn
  <2>3. CASE w = Null
    <3>1. l[k + 1] # "-i"
      BY <2>2
    <3>2. Means(l) = Refused
      BY <1>1, <1>4, <2>2, <2>3, <3>1, AddLineMeans
    <3> QED
      BY <1>1, <1>2, <1>5, <2>3, <3>2, Ends
  <2>4. CASE w # Null
    <3>1. Means(l) = Add(AddCommand(verb, arg, defaultInterval, l[k + 2]))
      BY <1>1, <1>4, <2>2, <2>4, AddLineMeans
    <3>2. Means(l) = Add([cmd EXCEPT !.file = w])
      BY <1>6, <1>7, <2>2, <2>4, <3>1
    <3> QED
      BY <1>1, <1>2, <1>5, <2>4, <3>2, Ends
  <2> QED
    BY <2>3, <2>4
<1>8. CASE /\ WordsRead(HeadLen(verb) + 3)
           /\ OptionIs(verb, 1, "-i") /\ OptionIs(verb, 2, interval)
           /\ OptionIs(verb, 3, "-f")
  <2>1. /\ ~over /\ Len(line) = k + 3 /\ line[k + 1] = "-i"
        /\ line[k + 2] = interval /\ line[k + 3] = "-f"
    BY <1>4, <1>8 DEF WordsRead, OptionIs
  <2>2. /\ l \in Seq(Words) /\ AddOf(l, verb, arg)
        /\ l[k + 1] = "-i" /\ l[k + 2] = interval /\ l[k + 3] = "-f"
        /\ w = Null => Len(l) = k + 3
        /\ w # Null => Len(l) = k + 4 /\ l[k + 4] = w
    BY <1>1, <1>2, <1>3, <1>4, <2>1, AddReadOn
  <2>3. CASE w = Null
    <3>1. Means(l) = Refused
      BY <1>1, <1>4, <2>2, <2>3, AddLineMeans
    <3> QED
      BY <1>1, <1>2, <1>5, <2>3, <3>1, Ends
  <2>4. CASE w # Null
    <3>1. Means(l) = Add(AddCommand(verb, arg, l[k + 2], l[k + 4]))
      BY <1>1, <1>4, <2>2, <2>4, AddLineMeans
    <3>2. Means(l) = Add([cmd EXCEPT !.file = w])
      BY <1>6, <2>2, <2>4, <3>1
    <3> QED
      BY <1>1, <1>2, <1>5, <2>4, <3>2, Ends
  <2> QED
    BY <2>3, <2>4
<1> QED
  BY <1>3, <1>7, <1>8


(* The word after set. *)
LEMMA SettingStep ==
  ASSUME Inv, NEW w, ReadSetting(w)
  PROVE  Inv'
<1>1. /\ next = "setting" /\ Read(w) /\ TypeOK
      /\ Len(line) = 1 /\ line[1] = "set" /\ ~over
  BY DEF ReadSetting, Inv, Where, WordsRead
<1>2. PICK l : l = line'
  OBVIOUS
<1>3. /\ l \in Seq(Words) /\ l # <<>> /\ l[1] = "set"
      /\ w = Null => Len(l) = 1
      /\ w # Null => ~over' /\ Len(l) = 2 /\ l[2] = w
  BY <1>1, <1>2, ReadWordAt
<1>4. Null \notin Keywords
  BY WordsAssumption
<1>5. CASE w = "interval"
  <2>1. ReadOn("setInterval", [Blank EXCEPT !.verb = "set interval"])
    BY <1>5 DEF ReadSetting
  <2>2. Where'
    BY <1>2, <1>3, <1>4, <1>5, <2>1 DEF Where, ReadOn, WordsRead, Keywords, Blank
  <2> QED
    BY <1>1, <2>1, <2>2, GoesOn DEF Inv
<1>6. CASE w = "logfile"
  <2>1. ReadOn("setLogFile", [Blank EXCEPT !.verb = "set logfile"])
    BY <1>6 DEF ReadSetting
  <2>2. Where'
    BY <1>2, <1>3, <1>4, <1>6, <2>1 DEF Where, ReadOn, WordsRead, Keywords, Blank
  <2> QED
    BY <1>1, <2>1, <2>2, GoesOn DEF Inv
<1>7. CASE w \notin {"interval", "logfile"}
  <2>1. Finish(Refused)
    BY <1>7 DEF ReadSetting
  <2>2. Means(l) = Refused
    <3>1. CASE w = Null
      BY <1>3, <3>1, SetMeans
    <3>2. CASE w # Null
      BY <1>3, <1>7, <3>2 DEF Means, Begins
    <3> QED
      BY <3>1, <3>2
  <2> QED
    BY <1>1, <1>2, <2>1, <2>2, Ends
<1> QED
  BY <1>5, <1>6, <1>7

(* A set is done with: the defaults may be others, and the line means the same. *)
LEMMA SetEnds ==
  ASSUME Inv, NEW w, Read(w), NEW result, Done(result), NEW l, l = line',
         l # <<>>, l[1] = "set", result = Means(l),
         defaultInterval' \in Words, defaultLogFile' \in Words, DefaultIsAnInterval'
  PROVE  Inv'
<1>1. next' = "prompt" /\ outcome' = result
  BY DEF Done
<1>2. TypeOK'
  BY <1>1, ReadOne DEF Inv, TypeOK
<1>3. Where'
  BY <1>1 DEF Where
<1>4. LineIsUnderstood'
  <2>1. Means(line)' = Means(l)
    BY SetMeansStays
  <2> QED
    BY <1>1, <2>1 DEF LineIsUnderstood
<1> QED
  BY <1>2, <1>3, <1>4 DEF Inv

(* The new default interval. *)
LEMMA SetIntervalStep ==
  ASSUME Inv, NEW w, ReadSetInterval(w)
  PROVE  Inv'
<1>1. /\ next = "setInterval" /\ Read(w) /\ TypeOK /\ DefaultIsAnInterval
      /\ Len(line) = 2 /\ line[1] = "set" /\ line[2] = "interval" /\ ~over
      /\ cmd = [Blank EXCEPT !.verb = "set interval"]
  BY DEF ReadSetInterval, Inv, Where, WordsRead
<1>2. PICK l : l = line'
  OBVIOUS
<1>3. /\ l \in Seq(Words) /\ l # <<>> /\ l[1] = "set" /\ l[2] = "interval"
      /\ w = Null => Len(l) = 2
      /\ w # Null => w \in Words /\ Len(l) = 3 /\ l[3] = w
  <2>1. Len(line) = 2
    BY <1>1
  <2>2. Len(line) >= 1 /\ Len(line) >= 2 /\ Len(line) + 1 = 3
    BY <2>1
  <2> QED
    BY <1>1, <1>2, <2>2, ReadWordAt
<1>4. defaultInterval \in Words /\ defaultLogFile \in Words
  BY <1>1 DEF TypeOK
<1>5. defaultLogFile' = defaultLogFile
  BY DEF ReadSetInterval
<1>6. CASE w # Null /\ IsInterval(w)
  <2>1. /\ Done([cmd EXCEPT !.interval = w])
        /\ defaultInterval' = Copied[w] /\ whole' = (Copied[w] = w)
    BY <1>6 DEF ReadSetInterval
  <2>2. Means(l) = [Blank EXCEPT !.verb = "set interval", !.interval = w]
    BY <1>3, <1>6, SetMeans
  <2>3. Means(l) = [cmd EXCEPT !.interval = w]
    BY <1>1, <2>2 DEF Blank
  <2>4. defaultInterval' \in Words
    BY <1>3, <1>6, <2>1, WordsAssumption
  <2>5. DefaultIsAnInterval'
    BY <1>6, <2>1 DEF DefaultIsAnInterval, IsInterval, OutOfRange, IntOf, ToInt
  <2> QED
    BY <1>1, <1>2, <1>3, <1>4, <1>5, <2>1, <2>3, <2>4, <2>5, SetEnds
<1>7. CASE ~(w # Null /\ IsInterval(w))
  <2>1. Done(Refused) /\ defaultInterval' = defaultInterval /\ whole' = whole
    BY <1>7 DEF ReadSetInterval
  <2>2. Means(l) = Refused
    BY <1>3, <1>7, SetMeans
  <2>3. DefaultIsAnInterval'
    BY <1>1, <1>5, <2>1 DEF DefaultIsAnInterval, IsInterval, OutOfRange, IntOf, ToInt
  <2> QED
    BY <1>1, <1>2, <1>3, <1>4, <1>5, <2>1, <2>2, <2>3, SetEnds
<1> QED
  BY <1>6, <1>7

(* The new default log file. *)
LEMMA SetLogFileStep ==
  ASSUME Inv, NEW w, ReadSetLogFile(w)
  PROVE  Inv'
<1>1. /\ next = "setLogFile" /\ Read(w) /\ TypeOK /\ DefaultIsAnInterval
      /\ Len(line) = 2 /\ line[1] = "set" /\ line[2] = "logfile" /\ ~over
      /\ cmd = [Blank EXCEPT !.verb = "set logfile"]
  BY DEF ReadSetLogFile, Inv, Where, WordsRead
<1>2. PICK l : l = line'
  OBVIOUS
<1>3. /\ l \in Seq(Words) /\ l # <<>> /\ l[1] = "set" /\ l[2] = "logfile"
      /\ w = Null => Len(l) = 2
      /\ w # Null => w \in Words /\ Len(l) = 3 /\ l[3] = w
  <2>1. Len(line) = 2
    BY <1>1
  <2>2. Len(line) >= 1 /\ Len(line) >= 2 /\ Len(line) + 1 = 3
    BY <2>1
  <2> QED
    BY <1>1, <1>2, <2>2, ReadWordAt
<1>4. defaultInterval \in Words /\ defaultLogFile \in Words
  BY <1>1 DEF TypeOK
<1>5. defaultInterval' = defaultInterval /\ whole' = whole
  BY DEF ReadSetLogFile
<1>6. CASE w # Null
  <2>1. Done([cmd EXCEPT !.file = w]) /\ defaultLogFile' \in Words
    BY <1>3, <1>6, WordsAssumption DEF ReadSetLogFile
  <2>2. Means(l) = [Blank EXCEPT !.verb = "set logfile", !.file = w]
    BY <1>3, <1>6, SetMeans
  <2>3. Means(l) = [cmd EXCEPT !.file = w]
    BY <1>1, <2>2 DEF Blank
  <2>4. DefaultIsAnInterval'
    BY <1>1, <1>5 DEF DefaultIsAnInterval, IsInterval, OutOfRange, IntOf, ToInt
  <2> QED
    BY <1>1, <1>2, <1>3, <1>4, <1>5, <1>6, <2>1, <2>3, <2>4, SetEnds
<1>7. CASE w = Null
  <2>1. Done(Refused) /\ defaultLogFile' = defaultLogFile
    BY <1>7 DEF ReadSetLogFile
  <2>2. Means(l) = Refused
    BY <1>3, <1>7, SetMeans
  <2>3. DefaultIsAnInterval'
    BY <1>1, <1>5, <2>1 DEF DefaultIsAnInterval, IsInterval, OutOfRange, IntOf, ToInt
  <2> QED
    BY <1>1, <1>2, <1>3, <1>4, <1>5, <2>1, <2>2, <2>3, SetEnds
<1> QED
  BY <1>6, <1>7

(* The word after remove. *)
LEMMA ThreadStep ==
  ASSUME Inv, NEW w, ReadThread(w)
  PROVE  Inv'
<1>1. /\ next = "thread" /\ Read(w) /\ TypeOK
      /\ Len(line) = 1 /\ line[1] = "remove" /\ ~over
  BY DEF ReadThread, Inv, Where, WordsRead
<1>2. PICK l : l = line'
  OBVIOUS
<1>3. /\ l \in Seq(Words) /\ l # <<>> /\ l[1] = "remove"
      /\ w = Null => Len(l) = 1
      /\ w # Null => ~over' /\ Len(l) = 2 /\ l[2] = w
  BY <1>1, <1>2, ReadWordAt
<1>4. Null \notin Keywords
  BY WordsAssumption
<1>5. CASE w = "-s"
  <2>1. Finish([Blank EXCEPT !.verb = "remove -s"])
    BY <1>5 DEF ReadThread
  <2>2. Means(l) = [Blank EXCEPT !.verb = "remove -s"]
    BY <1>3, <1>4, <1>5, RemoveMeans DEF Keywords
  <2> QED
    BY <1>1, <1>2, <2>1, <2>2, Ends
<1>6. CASE w = "-t"
  <2>1. ReadOn("tid", [Blank EXCEPT !.verb = "remove -t"])
    BY <1>6 DEF ReadThread
  <2>2. Where'
    BY <1>2, <1>3, <1>4, <1>6, <2>1 DEF Where, ReadOn, WordsRead, Keywords, Blank
  <2> QED
    BY <1>1, <2>1, <2>2, GoesOn DEF Inv
<1>7. CASE w \notin {"-s", "-t"}
  <2>1. Finish(Refused)
    BY <1>7 DEF ReadThread
  <2>2. Means(l) = Refused
    BY <1>3, <1>7, RemoveMeans
  <2> QED
    BY <1>1, <1>2, <2>1, <2>2, Ends
<1> QED
  BY <1>5, <1>6, <1>7

(* The thread of remove -t. *)
LEMMA TidStep ==
  ASSUME Inv, NEW w, ReadTid(w)
  PROVE  Inv'
<1>1. /\ next = "tid" /\ Read(w) /\ TypeOK
      /\ Len(line) = 2 /\ line[1] = "remove" /\ line[2] = "-t" /\ ~over
      /\ cmd = [Blank EXCEPT !.verb = "remove -t"]
  BY DEF ReadTid, Inv, Where, WordsRead
<1>2. PICK l : l = line'
  OBVIOUS
<1>3. /\ l \in Seq(Words) /\ l # <<>> /\ l[1] = "remove" /\ l[2] = "-t"
      /\ w = Null => Len(l) = 2
      /\ w # Null => Len(l) = 3 /\ l[3] = w
  <2>1. Len(line) = 2
    BY <1>1
  <2>2. Len(line) >= 1 /\ Len(line) >= 2 /\ Len(line) + 1 = 3
    BY <2>1
  <2> QED
    BY <1>1, <1>2, <2>2, ReadWordAt
<1>4. Means(l) = IF w = Null THEN Fault
                 ELSE IF IsTid(w) THEN [Blank EXCEPT !.verb = "remove -t", !.arg = w]
                 ELSE Refused
  <2>1. CASE w = Null
    BY <1>3, <2>1, RemoveMeans
  <2>2. CASE w # Null
    BY <1>3, <2>2, RemoveMeans DEF IsTid
  <2> QED
    BY <2>1, <2>2
<1>5. [cmd EXCEPT !.arg = w] = [Blank EXCEPT !.verb = "remove -t", !.arg = w]
  BY <1>1 DEF Blank
<1>6. Finish(Means(l))
  BY <1>4, <1>5 DEF ReadTid
<1> QED
  BY <1>1, <1>2, <1>6, Ends

(* The process of kill. *)
LEMMA PidStep ==
  ASSUME Inv, NEW w, ReadPid(w)
  PROVE  Inv'
<1>1. /\ next = "pid" /\ Read(w) /\ TypeOK
      /\ Len(line) = 1 /\ line[1] = "kill" /\ ~over
      /\ cmd = [Blank EXCEPT !.verb = "kill"]
  BY DEF ReadPid, Inv, Where, WordsRead
<1>2. PICK l : l = line'
  OBVIOUS
<1>3. /\ l \in Seq(Words) /\ l # <<>> /\ l[1] = "kill"
      /\ w = Null => Len(l) = 1
      /\ w # Null => Len(l) = 2 /\ l[2] = w
  BY <1>1, <1>2, ReadWordAt
<1>4. Means(l) = IF w = Null THEN Fault
                 ELSE IF IsPid(w) THEN [Blank EXCEPT !.verb = "kill", !.arg = w]
                 ELSE Refused
  <2>1. CASE w = Null
    BY <1>3, <2>1, KillMeans
  <2>2. CASE w # Null
    BY <1>3, <2>2, KillMeans DEF IsPid
  <2> QED
    BY <2>1, <2>2
<1>5. [cmd EXCEPT !.arg = w] = [Blank EXCEPT !.verb = "kill", !.arg = w]
  BY <1>1 DEF Blank
<1>6. Finish(Means(l))
  BY <1>4, <1>5 DEF ReadPid
<1> QED
  BY <1>1, <1>2, <1>6, Ends

(* The two numbers of webmon. *)
LEMMA WebIntervalStep ==
  ASSUME Inv, NEW w, ReadWebInterval(w)
  PROVE  Inv'
<1>1. /\ next = "webInterval" /\ Read(w) /\ TypeOK
      /\ Len(line) = 1 /\ line[1] = "webmon" /\ ~over /\ ~busy.webmon
      /\ cmd = [Blank EXCEPT !.verb = "webmon"]
  BY DEF ReadWebInterval, Inv, Where
<1>2. PICK l : l = line'
  OBVIOUS
<1>3. /\ l \in Seq(Words) /\ l # <<>> /\ l[1] = "webmon" /\ busy' = busy
      /\ w = Null => Len(l) = 1
      /\ w # Null => ~over' /\ Len(l) = 2 /\ l[2] = w
  BY <1>1, <1>2, ReadWordAt
<1>4. CASE w # Null /\ IsInterval(w)
  <2>1. ReadOn("refreshRate", [cmd EXCEPT !.interval = w])
    BY <1>4 DEF ReadWebInterval
  <2>2. cmd' = [Blank EXCEPT !.verb = "webmon", !.interval = w] /\ next' = "refreshRate"
    BY <1>1, <2>1 DEF ReadOn, Blank
  <2>3. IsInterval(line[2])'
    BY <1>2, <1>3, <1>4 DEF IsInterval, OutOfRange, IntOf, ToInt
  <2>4. Where'
    BY <1>1, <1>2, <1>3, <1>4, <2>2, <2>3 DEF Where, Blank
  <2> QED
    BY <1>1, <2>1, <2>4, GoesOn
<1>5. CASE ~(w # Null /\ IsInterval(w))
  <2>1. Finish(Refused)
    BY <1>5 DEF ReadWebInterval
  <2>2. Len(l) = 1 \/ Len(l) = 2
    BY <1>3
  <2>3. Means(l) = Refused
    BY <1>3, <2>2, WebmonMeans
  <2> QED
    BY <1>1, <1>2, <2>1, <2>3, Ends
<1> QED
  BY <1>4, <1>5

(* The second number of webmon. *)
LEMMA RefreshRateStep ==
  ASSUME Inv, NEW w, ReadRefreshRate(w)
  PROVE  Inv'
<1>1. /\ next = "refreshRate" /\ Read(w) /\ TypeOK
      /\ Len(line) = 2 /\ line[1] = "webmon" /\ ~over /\ ~busy.webmon
      /\ IsInterval(line[2])
      /\ cmd = [Blank EXCEPT !.verb = "webmon", !.interval = line[2]]
  BY DEF ReadRefreshRate, Inv, Where
<1>2. PICK l : l = line'
  OBVIOUS
<1>3. /\ l \in Seq(Words) /\ l # <<>> /\ l[1] = "webmon" /\ l[2] = line[2] /\ busy' = busy
      /\ w = Null => Len(l) = 2
      /\ w # Null => ~over' /\ Len(l) = 3 /\ l[3] = w
  BY <1>1, <1>2, ReadWordAt
<1>4. CASE w # Null /\ IsInterval(w)
  <2>1. ReadOn("page", [cmd EXCEPT !.arg = w])
    BY <1>4 DEF ReadRefreshRate
  <2>2. cmd' = AddCommand("webmon", w, l[2], Null) /\ next' = "page"
    BY <1>1, <1>3, <2>1 DEF ReadOn, Blank, AddCommand
  <2>3. IsInterval(line[2])' /\ IsInterval(line[3])'
    BY <1>1, <1>2, <1>3, <1>4 DEF IsInterval, OutOfRange, IntOf, ToInt
  <2>4. Where'
    BY <1>1, <1>2, <1>3, <1>4, <2>2, <2>3 DEF Where, AddCommand
  <2> QED
    BY <1>1, <2>1, <2>4, GoesOn
<1>5. CASE ~(w # Null /\ IsInterval(w))
  <2>1. Finish(Refused)
    BY <1>5 DEF ReadRefreshRate
  <2>2. Len(l) = 2 \/ Len(l) = 3
    BY <1>3
  <2>3. Means(l) = Refused
    BY <1>3, <2>2, WebmonMeans
  <2> QED
    BY <1>1, <1>2, <2>1, <2>3, Ends
<1> QED
  BY <1>4, <1>5

(* The page of webmon. *)
LEMMA PageStep ==
  ASSUME Inv, NEW w, ReadPage(w)
  PROVE  Inv'
<1>1. /\ next = "page" /\ Read(w) /\ TypeOK
      /\ Len(line) = 3 /\ line[1] = "webmon" /\ ~over /\ ~busy.webmon
      /\ IsInterval(line[2]) /\ IsInterval(line[3])
      /\ cmd = AddCommand("webmon", line[3], line[2], Null)
  BY DEF ReadPage, Inv, Where
<1>2. PICK l : l = line'
  OBVIOUS
<1>3. /\ l \in Seq(Words) /\ l # <<>> /\ l[1] = "webmon"
      /\ l[2] = line[2] /\ l[3] = line[3]
      /\ w = Null => Len(l) = 3
      /\ w # Null => Len(l) = 4 /\ l[4] = w
  BY <1>1, <1>2, ReadWordAt
<1>4. Finish(IF w = Null THEN Refused ELSE [cmd EXCEPT !.file = w])
  BY DEF ReadPage
<1>5. [cmd EXCEPT !.file = w] = AddCommand("webmon", line[3], line[2], w)
  BY <1>1 DEF AddCommand
<1>6. CASE w = Null
  <2>1. Means(l) = Refused
    BY <1>3, <1>6, WebmonMeans
  <2> QED
    BY <1>1, <1>2, <1>4, <1>6, <2>1, Ends
<1>7. CASE w # Null
  <2>1. Means(l) = AddCommand("webmon", l[3], l[2], l[4])
    <3>1. IsInterval(l[2]) /\ IsInterval(l[3])
      BY <1>1, <1>3 DEF IsInterval
    <3>2. Len(l) = 4
      BY <1>3, <1>7
    <3> QED
      BY <1>1, <1>3, <3>1, <3>2, WebmonMeans
  <2>2. Means(l) = [cmd EXCEPT !.file = w]
    BY <1>3, <1>5, <1>7, <2>1
  <2> QED
    BY <1>1, <1>2, <1>4, <1>7, <2>2, Ends
<1> QED
  BY <1>6, <1>7

(* The answer to the question of exit. *)
LEMMA AnswerStep ==
  ASSUME Inv, ReadAnswer
  PROVE  Inv'
<1>1. /\ next = "answer" /\ line' = line /\ line[1] = "exit"
      /\ over' = over /\ next' = "prompt" /\ UNCHANGED defaults
  BY DEF ReadAnswer, Finish, Done, Inv, Where
<1>2. TypeOK'
  BY <1>1 DEF Inv, TypeOK, defaults
<1>3. Where' /\ LineIsUnderstood'
  BY <1>1 DEF Where, LineIsUnderstood
<1>4. DefaultIsAnInterval'
  BY <1>1 DEF Inv, DefaultIsAnInterval, defaults, IsInterval, OutOfRange, IntOf, ToInt
<1> QED
  BY <1>2, <1>3, <1>4 DEF Inv

(* The line is lost to another thread's strtok. *)
LEMMA LostStep ==
  ASSUME Inv, LoseTheLine
  PROVE  Inv'
<1>1. /\ next' = "prompt" /\ outcome' = Astray /\ line' = line /\ over' = over
      /\ busy' = busy /\ busy.others
  BY DEF LoseTheLine, Done
<1>2. /\ defaultInterval' \in Words /\ defaultLogFile' \in Words
      /\ whole' => whole /\ defaultInterval' = defaultInterval
  BY WordsAssumption DEF LoseTheLine, Inv, TypeOK, defaults
<1>3. TypeOK'
  BY <1>1, <1>2 DEF Inv, TypeOK
<1>4. Where'
  BY <1>1 DEF Where
<1>5. LineIsUnderstood'
  BY <1>1 DEF LineIsUnderstood, Astray, Blank
<1>6. DefaultIsAnInterval'
  BY <1>2 DEF Inv, DefaultIsAnInterval, IsInterval, OutOfRange, IntOf, ToInt
<1> QED
  BY <1>3, <1>4, <1>5, <1>6 DEF Inv

(* A new line. *)
LEMMA ReadlineStep ==
  ASSUME Inv, Readline
  PROVE  Inv'
<1>1. /\ next' = "verb" /\ line' = <<>> /\ over' = FALSE /\ UNCHANGED defaults
  BY DEF Readline
<1>2. TypeOK'
  <2>1. <<>> \in Seq(Words)
    OBVIOUS
  <2>2. defaultInterval \in Words /\ defaultLogFile \in Words
    BY DEF Inv, TypeOK
  <2> QED
    BY <1>1, <2>1, <2>2 DEF TypeOK, defaults
<1>3. Where' /\ LineIsUnderstood'
  BY <1>1 DEF Where, LineIsUnderstood
<1>4. DefaultIsAnInterval'
  BY <1>1 DEF Inv, DefaultIsAnInterval, defaults, IsInterval, OutOfRange, IntOf, ToInt
<1> QED
  BY <1>2, <1>3, <1>4 DEF Inv

-----------------------------------------------------------------------------
(* The specification.                                                       *)

(* The default interval of the build is an interval: it fits an int. *)
LEMMA Starts == Init => Inv
<1> SUFFICES ASSUME Init PROVE Inv
  OBVIOUS
<1>1. next = "verb" /\ line = <<>> /\ over = FALSE
      /\ defaultInterval = DEFAULT_INTERVAL /\ defaultLogFile = DEFAULT_LOG_FILE
  BY DEF Init
<1>2. TypeOK
  <2>1. <<>> \in Seq(Words)
    OBVIOUS
  <2>2. DEFAULT_INTERVAL \in Words /\ DEFAULT_LOG_FILE \in Words
    BY WordsAssumption
  <2> QED
    BY <1>1, <2>1, <2>2 DEF TypeOK
<1>3. Where /\ LineIsUnderstood
  BY <1>1 DEF Where, LineIsUnderstood
<1>4. DefaultIsAnInterval
  <2>1. \A v \in Int, m \in Nat \ {0} : 0 <= v /\ v < m => v % m = v
    OBVIOUS
  <2>2. PICK v \in 1..(INT - 1) : v = ValueOf[DEFAULT_INTERVAL]
    BY WordsAssumption
  <2>3. INT \in Nat \ {0} /\ LONG \in Nat /\ LONG >= INT
    BY WordsAssumption
  <2>4. v \in (-LONG)..(LONG - 1)
    BY <2>2, <2>3
  <2>5. ToInt(v) = v
    <3>1. (v + INT) % (2 * INT) = v + INT
      <4>1. v + INT \in Int /\ 2 * INT \in Nat \ {0} /\ 0 <= v + INT /\ v + INT < 2 * INT
        BY <2>2, <2>3
      <4> QED
        BY <2>1, <4>1
    <3> QED
      BY <2>2, <2>3, <3>1 DEF ToInt
  <2> QED
    BY <1>1, <2>2, <2>4, <2>5 DEF DefaultIsAnInterval, IsInterval, OutOfRange, IntOf
<1> QED
  BY <1>2, <1>3, <1>4 DEF Inv

(* Every step keeps the invariant. *)
LEMMA Keeps == Inv /\ [Next]_vars => Inv'
<1> SUFFICES ASSUME Inv, [Next]_vars PROVE Inv'
  OBVIOUS
<1>1. CASE Readline
  BY <1>1, ReadlineStep
<1>2. CASE ReadAnswer
  BY <1>2, AnswerStep
<1>3. ASSUME NEW w \in Words \cup {Null}, ReadWord(w) PROVE Inv'
  <2>1. CASE ReadVerb(w) \/ ReadType(w) \/ ReadAddArg(w)
    BY <2>1, VerbStep, TypeStep, AddArgStep
  <2>2. CASE ReadOption(w) \/ ReadInterval(w) \/ ReadAfterInterval(w) \/ ReadFile(w)
    BY <2>2, OptionStep, IntervalStep, AfterIntervalStep, FileStep
  <2>3. CASE ReadSetting(w) \/ ReadSetInterval(w) \/ ReadSetLogFile(w)
    BY <2>3, SettingStep, SetIntervalStep, SetLogFileStep
  <2>4. CASE ReadThread(w) \/ ReadTid(w) \/ ReadPid(w)
    BY <2>4, ThreadStep, TidStep, PidStep
  <2>5. CASE ReadWebInterval(w) \/ ReadRefreshRate(w) \/ ReadPage(w)
    BY <2>5, WebIntervalStep, RefreshRateStep, PageStep
  <2> QED
    BY <1>3, <2>1, <2>2, <2>3, <2>4, <2>5 DEF ReadWord
<1>4. CASE LoseTheLine
  BY <1>4, LostStep
<1>5. CASE UNCHANGED vars
  <2>1. /\ next' = next /\ line' = line /\ over' = over /\ cmd' = cmd /\ busy' = busy
        /\ outcome' = outcome /\ UNCHANGED defaults
        /\ defaultInterval' = defaultInterval /\ defaultLogFile' = defaultLogFile
        /\ whole' = whole
    BY <1>5 DEF vars, defaults
  <2>2. TypeOK'
    BY <2>1 DEF Inv, TypeOK
  <2>3. Where'
    <3>1. /\ AtOption' = AtOption /\ AtInterval' = AtInterval
          /\ AtAfterInterval' = AtAfterInterval /\ AtFile' = AtFile
      BY <2>1 DEF AtOption, AtInterval, AtAfterInterval, AtFile, AddOf, WordsRead, OptionIs
    <3>2. Where' = Where
      BY <2>1, <3>1 DEF Where, WordsRead, IsInterval, OutOfRange, IntOf, ToInt
    <3> QED
      BY <3>2 DEF Inv
  <2>4. LineIsUnderstood'
    <3>1. Means(line)' = Means(line)
      BY <2>1, MeansStays
    <3> QED
      BY <2>1, <3>1 DEF Inv, LineIsUnderstood, Astray, Blank
  <2>5. DefaultIsAnInterval'
    BY <2>1 DEF Inv, DefaultIsAnInterval, IsInterval, OutOfRange, IntOf, ToInt
  <2> QED
    BY <2>2, <2>3, <2>4, <2>5 DEF Inv
<1> QED
  BY <1>1, <1>2, <1>3, <1>4, <1>5 DEF Next, Faulted

(* At each place of the prompt where a word is read, the words before it, and what
   has been made of them, are what the code there takes them to be
   (commandThread, mond.c:117-349). *)
THEOREM PromptCorrect == Spec => []Inv
  BY Starts, Keeps, PTL DEF Spec

(* Whatever is typed, a line comes to what it means as a whole: the chain of ifs that
   reads the options one by one takes none for another, loses none, and lets none
   of an earlier line through, unless another thread's strtok takes a word of the
   line away (mond.c:117-349, commands.c:39-81, logLibrary.c:56). *)
THEOREM LinesAreUnderstood == Spec => []LineIsUnderstood
<1>1. Inv => LineIsUnderstood
  BY DEF Inv
<1> QED
  BY <1>1, PromptCorrect, PTL

(* A text kept whole as the default interval is one that add reads as an interval,
   whatever the widths of int and long: set looks at the number after it has become
   an int (mond.c:200-208, commands.c:39-45).  A text that strncpy cuts, or that was
   another thread's, may be none. *)
THEOREM TheDefaultIsAnInterval == Spec => []DefaultIsAnInterval
<1>1. Inv => DefaultIsAnInterval
  BY DEF Inv
<1> QED
  BY <1>1, PromptCorrect, PTL
=============================================================================
