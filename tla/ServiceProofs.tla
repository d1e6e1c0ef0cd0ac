--------------------------- MODULE ServiceProofs ---------------------------
(***************************************************************************)
(* A process of the tool, with any arguments, files and environment and    *)
(* any number of signals at any moment: it ends in order, keeps the level  *)
(* that was asked for, and a service has the port that it was told.        *)
(*                                                                         *)
(* The invariant says how far the process has come at each point of its    *)
(* main program (Progress), what runs on top of it (Stack), what holds the *)
(* lock (LockHeld), and what the logger is set up as (LevelSet).           *)
(***************************************************************************)
EXTENDS ServiceLoop, FiniteSetTheorems, SequenceTheorems, TLAPS

Frame == [signal : Signals, at : {"log", "store"}]

(* Where the loop waits, and where a process is on its way out.            *)
Looping == {"announcing", "loop", "sleeping"}
Terminating == {"terminated", "cleaning", "cleanup"}
Leaving == {"ending", "closed", "returning"}

(* What the variables are, but for what the parts below say.               *)
Typed ==
  /\ command \in ServiceActions \cup DOMAIN ExitCode
  /\ service \in Services \cup {"unknown", None}
  /\ level \in Levels
  /\ logFile \in {"none", "opens", "fails"}
  /\ ready \in {"yes", "no"}
  /\ logs \in Levels
  /\ handle \in {"none", "open", "freed"}
  /\ exit \in {None, "0", "1"}
  /\ pc \in {"main", "command", "configured", "setup"} \cup Looping \cup Terminating
            \cup Leaving \cup Over
  /\ step \in 1..4
  /\ resource \in {"down", "up"}
  /\ running \in {"yes", "no"}
  /\ pending \subseteq Signals
  /\ asked \in {"yes", "no"}
  /\ sent \in 0..MaxSignals

(* What the process was started with is there until it is configured, and  *)
(* then it has a port.                                                     *)
Started ==
  /\ pc \in {"main", "command", "configured"} =>
       args \in Arguments /\ file \in Files /\ env \in Environments
  /\ pc = "configured" => port # None

(* Both handlers are installed before the process announces itself, and    *)
(* none before the flag is set; only a handler takes the flag back.        *)
Progress ==
  /\ handled \subseteq Signals
  /\ pc \in {"main", "command", "configured"} => step = 1 /\ handled = {}
  /\ pc = "setup" => handled = {Setup[i] : i \in 1..(step - 1)} \cap Signals
  /\ pc \in Looping \cup Terminating => step = 4 /\ handled = Signals
  /\ pc \in Leaving => handled \in {{}, Signals}
  /\ step > 1 /\ running = "no" => asked = "yes"
  /\ pc \in Terminating => asked = "yes"
  /\ pc \in Leaving \cup {"done"} /\ exit = "0" /\ command = "start" /\ ~Help
       => asked = "yes" /\ resource = "down"

(* The handlers that run are of different signals, and installed.          *)
Stack ==
  /\ frames \in Seq(Frame)
  /\ \A i \in 1..Len(frames) : frames[i].signal \in handled
  /\ \A i, j \in 1..Len(frames) : i # j => frames[i].signal # frames[j].signal

(* The lock is held by a frame that is in the middle of its message.       *)
LockHeld ==
  /\ lock \in {Free} \cup 0..Len(frames)
  /\ lock = MainDepth => pc \in DOMAIN AfterLog \cup {"killed"}
  /\ lock \in 1..Len(frames) => frames[lock].at = "log"
  /\ lock # Free => Logs

(* From the start of the log to its end the level is that asked for.       *)
LevelSet ==
  logFile # "fails" /\ pc \notin {"main", "returning"} \cup Over
       => ready = "yes" /\ logs = level

ServiceInv == Typed /\ Started /\ Progress /\ Stack /\ LockHeld /\ LevelSet /\ LevelIsKept

-----------------------------------------------------------------------------
(***************************************************************************)
(* The stack of handlers.                                                  *)
(***************************************************************************)

(* All of a sequence but its last element.                                 *)
LEMMA FrontIs ==
  ASSUME NEW S, NEW s \in Seq(S), s # <<>>
  PROVE  /\ Front(s) \in Seq(S)
         /\ Len(Front(s)) = Len(s) - 1
         /\ \A i \in 1..Len(s) - 1 : Front(s)[i] = s[i]
<1> DEFINE n == Len(s) - 1
<1>1. n \in Nat /\ Len(s) \in Nat /\ \A i \in 1..n : s[i] \in S
  OBVIOUS
<1>2. Front(s) = SubSeq(s, 1, n)
  BY DEF Front
<1> HIDE DEF n
<1>3. /\ SubSeq(s, 1, n) \in Seq(S)
      /\ Len(SubSeq(s, 1, n)) = n
      /\ \A i \in 1..n : SubSeq(s, 1, n)[i] = s[i]
  BY <1>1, SubSeqProperties
<1> QED
  BY <1>2, <1>3 DEF n

(* A stack that stays, over handlers that stay installed.                  *)
LEMMA StackStays ==
  ASSUME Stack, frames' = frames, handled \subseteq handled'
  PROVE  Stack'
  BY DEF Stack

(* One frame more: a signal that has a handler and is not masked.          *)
LEMMA StackGrows ==
  ASSUME Stack, NEW s \in Signals, s \in handled, ~Masked(s), handled' = handled,
         frames' = Append(frames, [signal |-> s, at |-> "log"])
  PROVE  /\ Stack'
         /\ Len(frames) \in Nat
         /\ Len(frames') = Len(frames) + 1
         /\ \A i \in 1..Len(frames) : frames'[i] = frames[i]
<1> DEFINE f == [signal |-> s, at |-> "log"]
<1>1. f \in Frame /\ f.signal = s
  BY DEF Frame
<1> HIDE DEF f
<1>2. /\ frames \in Seq(Frame) /\ Len(frames) \in Nat
      /\ frames' \in Seq(Frame)
      /\ Len(frames') = Len(frames) + 1
      /\ \A i \in 1..Len(frames) : frames'[i] = frames[i]
      /\ frames'[Len(frames) + 1] = f
  BY <1>1 DEF Stack, f
<1>3. \A i \in 1..Len(frames) : frames[i].signal # s
  BY DEF Masked
<1>4. \A i \in 1..Len(frames') : frames'[i].signal \in handled'
  BY <1>1, <1>2 DEF Stack
<1>5. ASSUME NEW i \in 1..Len(frames'), NEW j \in 1..Len(frames'), i # j
      PROVE  frames'[i].signal # frames'[j].signal
  <2>1. CASE i \in 1..Len(frames) /\ j \in 1..Len(frames)
    BY <1>2, <1>5, <2>1 DEF Stack
  <2>2. CASE i = Len(frames) + 1 /\ j \in 1..Len(frames)
    BY <1>1, <1>2, <1>3, <2>2
  <2>3. CASE j = Len(frames) + 1 /\ i \in 1..Len(frames)
    BY <1>1, <1>2, <1>3, <2>3
  <2> QED
    BY <1>2, <1>5, <2>1, <2>2, <2>3
<1> QED
  BY <1>2, <1>4, <1>5 DEF Stack

(* The frame on top goes on from its message to the store.                 *)
LEMMA StackGoesOn ==
  ASSUME Stack, frames # <<>>, handled' = handled,
         frames' = [frames EXCEPT ![Depth].at = "store"]
  PROVE  /\ Stack'
         /\ Len(frames') = Len(frames)
<1>1. frames \in Seq(Frame) /\ Len(frames) \in Nat \ {0} /\ Depth = Len(frames)
  BY DEF Stack, Depth
<1>2. frames[Depth] \in Frame
  BY <1>1
<1> DEFINE f == [frames[Depth] EXCEPT !.at = "store"]
<1>3. f \in Frame /\ f.signal = frames[Depth].signal
  BY <1>2 DEF Frame
<1>4. frames' = [frames EXCEPT ![Depth] = f]
  OBVIOUS
<1> HIDE DEF f
<1>5. /\ frames' \in Seq(Frame)
      /\ Len(frames') = Len(frames)
      /\ \A i \in 1..Len(frames) : frames'[i] = IF i = Depth THEN f ELSE frames[i]
  BY <1>1, <1>3, <1>4
<1>6. \A i \in 1..Len(frames) : frames'[i].signal = frames[i].signal
  BY <1>3, <1>5
<1> QED
  BY <1>5, <1>6 DEF Stack

(* The frame on top is done.                                               *)
LEMMA StackShrinks ==
  ASSUME Stack, frames # <<>>, handled' = handled, frames' = Front(frames)
  PROVE  /\ Stack'
         /\ Len(frames) \in Nat
         /\ Len(frames') = Len(frames) - 1
         /\ \A i \in 1..Len(frames) - 1 : frames'[i] = frames[i]
<1>1. frames \in Seq(Frame) /\ Len(frames) \in Nat \ {0}
  BY DEF Stack
<1>2. /\ frames' \in Seq(Frame)
      /\ Len(frames') = Len(frames) - 1
      /\ \A i \in 1..Len(frames) - 1 : frames'[i] = frames[i]
  BY <1>1, FrontIs
<1> QED
  BY <1>1, <1>2 DEF Stack

(* There are two signals, so at most two handlers run.                     *)
LEMMA AtMostTwo ==
  ASSUME Stack, handled \subseteq Signals
  PROVE  Len(frames) <= Cardinality(Signals)
<1>1. Cardinality(Signals) = 2
  <2>1. IsFiniteSet({"SIGINT"}) /\ Cardinality({"SIGINT"}) = 1
    BY FS_Singleton
  <2>2. "SIGTERM" \notin {"SIGINT"} /\ Signals = {"SIGINT"} \cup {"SIGTERM"}
    BY DEF Signals
  <2>3. Cardinality(Signals) = 1 + 1
    BY <2>1, <2>2, FS_AddElement
  <2> QED
    BY <2>3
<1>2. SUFFICES ASSUME Len(frames) > 2 PROVE FALSE
  BY <1>1 DEF Stack
<1>3. 1 \in 1..Len(frames) /\ 2 \in 1..Len(frames) /\ 3 \in 1..Len(frames)
  BY <1>2 DEF Stack
<1>4. /\ frames[1].signal \in Signals /\ frames[2].signal \in Signals /\ frames[3].signal \in Signals
      /\ frames[1].signal # frames[2].signal
      /\ frames[1].signal # frames[3].signal
      /\ frames[2].signal # frames[3].signal
  BY <1>3 DEF Stack
<1> QED
  BY <1>4 DEF Signals

-----------------------------------------------------------------------------
(***************************************************************************)
(* The options of the command line.                                        *)
(***************************************************************************)

(* A minimum is taken of a set of indices, which has one.                  *)
LEMMA FirstIndex ==
  ASSUME NEW n \in Nat, NEW I \in SUBSET (1..n), I # {}
  PROVE  Min(I) \in I /\ \A j \in I : Min(I) <= j
<1> DEFINE upTo == {1..i : i \in I}
           all == 1..n
<1>1. upTo \subseteq SUBSET all /\ upTo # {}
  <2>1. \A i \in I : i \in 1..n
    OBVIOUS
  <2>2. \A i \in I : 1..i \subseteq 1..n
    BY <2>1
  <2>3. \A i \in I : 1..i \in upTo
    OBVIOUS
  <2> QED
    BY <2>2, <2>3
<1>2. IsWellFoundedOn(StrictSubsetOrdering(all), SUBSET all)
  <2>1. IsFiniteSet(all)
    BY FS_Interval
  <2> HIDE DEF all
  <2>2. FiniteSubsetsOf(all) = SUBSET all
    BY <2>1, FS_FiniteSubsetsOfFinite
  <2>3. IsWellFoundedOn(StrictSubsetOrdering(all), FiniteSubsetsOf(all))
    BY FS_StrictSubsetOrderingWellFounded
  <2> QED
    BY <2>2, <2>3
<1> HIDE DEF upTo, all
<1>3. \E T \in upTo : \A U \in upTo : <<U, T>> \notin StrictSubsetOrdering(all)
  BY <1>1, <1>2, WFMin
<1> USE DEF upTo, all
<1>4. PICK i \in I : \A j \in I : <<1..j, 1..i>> \notin StrictSubsetOrdering(all)
  BY <1>3
<1>5. \A j \in I : i <= j
  <2> SUFFICES ASSUME NEW j \in I, j < i PROVE FALSE
    OBVIOUS
  <2>1. 1..j \subseteq 1..i /\ 1..j # 1..i /\ 1..i \subseteq all
    OBVIOUS
  <2> QED
    BY <1>4, <2>1 DEF StrictSubsetOrdering
<1> QED
  BY <1>4, <1>5 DEF Min

(* A variable has the value of the first line that defines it, a text, or   *)
(* no line does.                                                           *)
LEMMA InFileIs ==
  ASSUME NEW lines \in Seq([var : STRING, value : STRING]), NEW var
  PROVE  \/ \E i \in 1..Len(lines) : /\ lines[i] = [var |-> var, value |-> InFile(lines, var)]
                                     /\ \A j \in 1..(i - 1) : lines[j].var # var
                                     /\ InFile(lines, var) # None
         \/ /\ \A i \in 1..Len(lines) : lines[i].var # var
            /\ InFile(lines, var) = None
<1> DEFINE I == {i \in 1..Len(lines) : lines[i].var = var}
<1>1. Len(lines) \in Nat /\ I \in SUBSET (1..Len(lines))
  OBVIOUS
<1>2. InFile(lines, var) = LET i == IF I # {} THEN Min(I) ELSE 0
                           IN  IF i = 0 THEN None ELSE lines[i].value
  BY DEF InFile, SelectInSeq
<1>3. CASE I = {}
  BY <1>2, <1>3
<1>4. CASE I # {}
  <2>1. Min(I) \in I /\ \A j \in I : Min(I) <= j
    BY <1>1, <1>4, FirstIndex
  <2> DEFINE m == Min(I)
  <2> HIDE DEF m
  <2>2. /\ m \in 1..Len(lines) /\ lines[m].var = var
        /\ \A j \in 1..Len(lines) : lines[j].var = var => m <= j
    BY <2>1 DEF m
  <2>3. InFile(lines, var) = lines[m].value
    BY <1>2, <1>4, <2>1 DEF m
  <2>4. lines[m] \in [var : STRING, value : STRING]
    <3> DEFINE Line == [var : STRING, value : STRING]
    <3>1. lines \in Seq(Line)
      OBVIOUS
    <3> HIDE DEF Line
    <3>2. lines[m] \in Line
      BY <2>2, <3>1
    <3> QED
      BY <3>2 DEF Line
  <2>5. lines[m] = [var |-> var, value |-> lines[m].value] /\ lines[m].value \in STRING
    BY <2>2, <2>4
  <2>6. \A j \in 1..(m - 1) : lines[j].var # var
    BY <1>1, <2>2
  <2> QED
    BY <2>2, <2>3, <2>5, <2>6, ServiceAssumption
<1> QED
  BY <1>3, <1>4

(* The options named port: that of the service command has no default, and *)
(* the next is that of SMTP, so that no later one is asked.                *)
LEMMA SmtpValue ==
  ASSUME NEW lines, NEW environment
  PROVE  OptionValue(lines, environment, PortOptions) =
           IF GetEnvVar(lines, environment, "FEDERATED_PORT") # None
           THEN GetEnvVar(lines, environment, "FEDERATED_PORT")
           ELSE IF GetEnvVar(lines, environment, "FEDERATED_SMTP_PORT") # None
                THEN GetEnvVar(lines, environment, "FEDERATED_SMTP_PORT") ELSE "25"
<1> DEFINE values == [i \in 1..4 |-> Yields(lines, environment, PortOptions[i])]
           I == {i \in 1..4 : values[i] # None}
<1>1. Len(PortOptions) = 4
  BY DEF PortOptions
<1>2. values[1] = GetEnvVar(lines, environment, "FEDERATED_PORT")
  BY DEF PortOptions, Yields
<1>3. values[2] = IF GetEnvVar(lines, environment, "FEDERATED_SMTP_PORT") # None
                  THEN GetEnvVar(lines, environment, "FEDERATED_SMTP_PORT") ELSE "25"
  BY DEF PortOptions, Yields
<1>4. values[2] # None
  <2>1. "smtp" \in DOMAIN OwnOption /\ OwnOption["smtp"].default = "25"
    BY DEF OwnOption, PortOptions
  <2>2. "25" # None
    BY <2>1, DefaultAssumption
  <2> HIDE DEF values
  <2> QED
    BY <1>3, <2>2
<1>5. Len(values) = 4
  OBVIOUS
<1>6. OptionValue(lines, environment, PortOptions)
        = LET i == IF I # {} THEN Min(I) ELSE 0
          IN  IF i = 0 THEN None ELSE values[i]
  BY <1>1, <1>5 DEF OptionValue, SelectInSeq
<1> HIDE DEF values
<1>7. I \in SUBSET (1..4) /\ 2 \in I
  BY <1>4
<1>8. Min(I) \in I /\ \A j \in I : Min(I) <= j
  BY <1>7, FirstIndex
<1>9. CASE values[1] # None
  <2>1. Min(I) = 1
    BY <1>8, <1>9
  <2> QED
    BY <1>2, <1>6, <1>7, <1>9, <2>1
<1>10. CASE values[1] = None
  <2>1. Min(I) = 2
    BY <1>7, <1>8, <1>10
  <2> QED
    BY <1>2, <1>3, <1>6, <1>7, <1>10, <2>1
<1> QED
  BY <1>9, <1>10

(* Where the value of a variable is from.                                  *)
LEMMA VariableIs ==
  ASSUME NEW lines \in Seq([var : STRING, value : STRING]), NEW environment, NEW var,
         NEW value, value = GetEnvVar(lines, environment, var)
  PROVE  \/ /\ value # None
            /\ \/ \E i \in 1..Len(lines) : /\ lines[i] = [var |-> var, value |-> value]
                                           /\ \A j \in 1..(i - 1) : lines[j].var # var
               \/ environment[var] = value /\ \A i \in 1..Len(lines) : lines[i].var # var
         \/ /\ value = None
            /\ environment[var] = None /\ \A i \in 1..Len(lines) : lines[i].var # var
<1>1. CASE InFile(lines, var) # None
  <2>1. value = InFile(lines, var)
    BY <1>1 DEF GetEnvVar
  <2> QED
    BY <1>1, <2>1, InFileIs
<1>2. CASE InFile(lines, var) = None
  <2>1. value = environment[var]
    BY <1>2 DEF GetEnvVar
  <2> QED
    BY <1>2, <2>1, InFileIs
<1> QED
  BY <1>1, <1>2

(* The last argument is the one that counts, and it is no null pointer.    *)
LEMMA StoredIs ==
  ASSUME NEW arguments \in Arguments
  PROVE  /\ arguments = <<>> => StoredOption(arguments) = None
         /\ arguments # <<>> => /\ StoredOption(arguments) = Last(arguments)
                               /\ StoredOption(arguments) # None
<1> DEFINE Text == STRING \cup {Missing}
<1>1. arguments \in Seq(Text) /\ None \notin Text
  BY ServiceAssumption
<1> HIDE DEF Text
<1>2. arguments # <<>> => Last(arguments) \in Text
  BY <1>1 DEF Last
<1> QED
  BY <1>1, <1>2 DEF StoredOption

(* Whatever a service is started with, it has a port.                      *)
LEMMA PortIsGiven ==
  ASSUME NEW arguments \in Arguments, NEW lines, NEW environment
  PROVE  GetOptionValue(arguments, lines, environment) # None
<1>1. "25" # None
  <2>1. "smtp" \in DOMAIN OwnOption /\ OwnOption["smtp"].default = "25"
    BY DEF OwnOption, PortOptions
  <2> QED
    BY <2>1, DefaultAssumption
<1> QED
  BY <1>1, StoredIs, SmtpValue DEF GetOptionValue

(* A file that fits is loaded whole.                                       *)
LEMMA LoadedWhole ==
  ASSUME NEW lines \in Seq([var : STRING, value : STRING]), Len(lines) <= MaxEnvVars
  PROVE  Loaded(lines) = lines
<1>1. Loaded(lines) = SubSeq(lines, 1, Len(lines))
  BY CliAssumption DEF Loaded
<1> QED
  BY <1>1, SubSeqFull

-----------------------------------------------------------------------------
(***************************************************************************)
(* The steps of the process.                                               *)
(***************************************************************************)

LEMMA ServiceInit == Init => ServiceInv
<1> SUFFICES ASSUME Init PROVE ServiceInv
  OBVIOUS
<1>1. frames = <<>> /\ frames \in Seq(Frame) /\ Len(frames) = 0
  BY DEF Init
<1>2. Typed
  BY ServiceAssumption DEF Init, Typed, Levels
<1>3. Started /\ Progress /\ LevelSet
  BY DEF Init, Started, Progress, LevelSet, Looping, Terminating, Leaving, Over
<1>4. Stack
  BY <1>1 DEF Stack
<1>5. LockHeld /\ LevelIsKept
  BY <1>1 DEF Init, LockHeld, LevelIsKept, Free, MainDepth
<1> QED
  BY <1>2, <1>3, <1>4, <1>5 DEF ServiceInv

(* When no handler runs, only a message of the main program has the lock.  *)
LEMMA Unlocked ==
  ASSUME ServiceInv, frames = <<>>, pc \notin DOMAIN AfterLog \cup {"killed"}
  PROVE  lock = Free
  BY DEF ServiceInv, LockHeld, MainDepth

(* A step of the main program that takes no lock leaves the stack alone.   *)
LEMMA MainKeeps ==
  ASSUME ServiceInv, frames = <<>>, lock = Free, UNCHANGED <<frames, lock>>,
         handled \subseteq handled'
  PROVE  Stack' /\ LockHeld' /\ LevelIsKept'
<1>1. Stack'
  BY StackStays DEF ServiceInv
<1>2. LockHeld'
  BY DEF LockHeld, Free, MainDepth
<1>3. LevelIsKept'
  BY DEF LevelIsKept
<1> QED
  BY <1>1, <1>2, <1>3

(* Setting up the log and the commands that end at once.                   *)
LEMMA BeginKeeps ==
  ASSUME ServiceInv, StartLog \/ Tell \/ Refuse \/ StopOrStatus
  PROVE  ServiceInv'
<1>1. /\ frames = <<>> /\ pc \in {"main", "command"}
      /\ UNCHANGED <<inputs, port, step, resource, running, signals>>
  BY DEF StartLog, Tell, Refuse, StopOrStatus, MainAt, Finish
<1>2. lock = Free
  BY <1>1, Unlocked DEF AfterLog
<1>3. Stack' /\ LockHeld' /\ LevelIsKept'
  BY <1>1, <1>2, MainKeeps DEF signals
<1>4. /\ Typed /\ Started /\ Progress /\ LevelSet
      /\ UNCHANGED <<command, helps, service, args, file, env, level, logFile, port, step,
                     resource, running, handled, pending, asked, sent>>
  BY <1>1 DEF ServiceInv, inputs, signals
<1>5. Typed'
  BY <1>1, <1>4
  DEF StartLog, Tell, Refuse, StopOrStatus, MainAt, Finish, Typed, LogInit, AutoInit, logger,
      ExitCode, Levels, Leaving
<1>6. Started' /\ Progress' /\ LevelSet'
  <2>1. CASE StartLog
    BY <1>1, <1>4, <2>1
    DEF StartLog, MainAt, Started, Progress, LevelSet, Typed, LogInit, Leaving, Looping,
        Terminating, Over, Help, Registered
  <2>2. CASE Tell \/ Refuse \/ StopOrStatus
    <3>1. /\ pc' = "ending"
          /\ exit' = "1" \/ command # "start" \/ Help
          /\ AutoInit \/ UNCHANGED logger
          /\ pc = "command"
      BY <2>2 DEF Tell, Refuse, StopOrStatus, MainAt, Finish, ExitCode
    <3>2. Help' = Help
      BY <1>4 DEF Help, Registered
    <3> QED
      BY <1>1, <1>4, <3>1, <3>2
      DEF Started, Progress, LevelSet, AutoInit, logger, Leaving, Looping, Terminating, Over, Typed
  <2> QED
    BY <2>1, <2>2
<1> QED
  BY <1>3, <1>5, <1>6 DEF ServiceInv

(* Finding the port.                                                       *)
LEMMA ConfigureKeeps ==
  ASSUME ServiceInv, Configure
  PROVE  ServiceInv'
<1>1. /\ frames = <<>> /\ pc = "command" /\ pc' = "configured"
      /\ command = "start" /\ ~Help
      /\ port' = GetOptionValue(args, Loaded(file), env)
      /\ AutoInit
      /\ UNCHANGED <<inputs, exit, step, resource, running, signals>>
  BY DEF Configure, MainAt
<1>2. lock = Free
  BY <1>1, Unlocked DEF AfterLog
<1>3. Stack' /\ LockHeld' /\ LevelIsKept'
  BY <1>1, <1>2, MainKeeps DEF signals
<1>4. /\ Typed /\ Started /\ Progress /\ LevelSet
      /\ UNCHANGED <<command, helps, service, args, file, env, level, logFile, exit, step,
                     resource, running, handled, pending, asked, sent>>
  BY <1>1 DEF ServiceInv, inputs, signals
<1>5. Typed'
  BY <1>1, <1>4 DEF Typed, AutoInit, logger, Levels
<1>6. port' # None
  BY <1>1, <1>4, PortIsGiven DEF Started
<1>7. Started' /\ LevelSet'
  BY <1>1, <1>4, <1>6
  DEF Started, LevelSet, AutoInit, logger, Over, Typed
<1>8. Progress'
  <2>1. Help' = Help
    BY <1>4 DEF Help, Registered
  <2> QED
    BY <1>1, <1>4, <2>1 DEF Progress, Leaving, Looping, Terminating, Over
<1> QED
  BY <1>3, <1>5, <1>7, <1>8 DEF ServiceInv

(* Setting up what the service serves from, the flag and the handlers.     *)
LEMMA SetupKeeps ==
  ASSUME ServiceInv, InitResource \/ SetUp \/ SetupEnds
  PROVE  ServiceInv'
<1>1. /\ frames = <<>> /\ pc \in {"configured", "setup"}
      /\ UNCHANGED <<command, helps, service, level, logFile, logger, exit, frames, lock,
                     pending, asked, sent>>
      /\ handled \subseteq handled'
  BY DEF InitResource, SetUp, SetupEnds, MainAt, inputs, signals
<1>2. lock = Free
  BY <1>1, Unlocked DEF AfterLog
<1>3. Stack' /\ LockHeld' /\ LevelIsKept'
  BY <1>1, <1>2, MainKeeps
<1>4. Typed /\ Started /\ Progress /\ LevelSet
  BY DEF ServiceInv
<1>5. Help' = Help
  BY <1>1 DEF Help, Registered
<1>6. CASE InitResource
  <2>1. /\ pc = "configured" /\ pc' = "setup" /\ resource' = "up"
        /\ UNCHANGED <<step, running, handled>>
    BY <1>6 DEF InitResource, MainAt, signals
  <2>2. step = 1 /\ handled = {}
    BY <1>4, <2>1 DEF Progress
  <2>3. handled' = {Setup[i] : i \in 1..(step' - 1)} \cap Signals
    BY <2>1, <2>2
  <2> QED
    BY <1>1, <1>3, <1>4, <1>5, <2>1, <2>2, <2>3
    DEF Typed, Started, Progress, LevelSet, ServiceInv, Looping, Terminating, Leaving, Over, logger
<1>7. CASE SetUp
  <2>1. /\ pc = "setup" /\ pc' = "setup"
        /\ step \in 1..3 /\ step' = step + 1
        /\ running' = IF Setup[step] = "flag" THEN "yes" ELSE running
        /\ handled' = handled \cup ({Setup[step]} \cap Signals)
        /\ UNCHANGED resource
    BY <1>4, <1>7 DEF SetUp, MainAt, Typed, Setup
  <2>2. handled' = {Setup[i] : i \in 1..(step' - 1)} \cap Signals
    <3>1. handled = {Setup[i] : i \in 1..(step - 1)} \cap Signals
      BY <1>4, <2>1 DEF Progress
    <3>2. 1..(step' - 1) = 1..(step - 1) \cup {step}
      BY <2>1
    <3>3. {Setup[i] : i \in 1..(step' - 1)} = {Setup[i] : i \in 1..(step - 1)} \cup {Setup[step]}
      BY <3>2
    <3> QED
      BY <2>1, <3>1, <3>3
  <2>3. step = 1 => running' = "yes"
    BY <2>1 DEF Setup
  <2>4. handled' \subseteq Signals
    BY <2>2
  <2>5. step' > 1 /\ running' = "no" => asked' = "yes"
    BY <1>1, <1>4, <2>1, <2>3 DEF Progress, Typed
  <2>6. Progress'
    BY <1>1, <2>1, <2>2, <2>4, <2>5 DEF Progress, Looping, Terminating, Leaving
  <2> QED
    BY <1>1, <1>3, <1>4, <2>1, <2>6
    DEF Typed, Started, LevelSet, ServiceInv, Over, logger
<1>8. CASE SetupEnds
  <2>1. /\ pc = "setup" /\ pc' = "announcing"
        /\ step = 4
        /\ UNCHANGED <<step, running, handled, resource>>
    BY <1>4, <1>8 DEF SetupEnds, MainAt, Typed, Setup, signals
  <2>2. handled = Signals
    <3>1. handled = {Setup[i] : i \in 1..3} \cap Signals
      BY <1>4, <2>1 DEF Progress
    <3>2. Setup[2] = "SIGINT" /\ Setup[3] = "SIGTERM"
      BY DEF Setup
    <3> HIDE DEF Setup
    <3> QED
      BY <3>1, <3>2 DEF Signals
  <2>3. Progress'
    BY <1>1, <1>4, <2>1, <2>2 DEF Progress, Looping, Terminating, Leaving
  <2> QED
    BY <1>1, <1>3, <1>4, <2>1, <2>3
    DEF Typed, Started, LevelSet, ServiceInv, Looping, Terminating, Over, logger
<1> QED
  BY <1>6, <1>7, <1>8

(* The loop, its end and the clean-up.                                     *)
LEMMA LoopKeeps ==
  ASSUME ServiceInv, Test \/ WakeUp \/ CleanUp
  PROVE  ServiceInv'
<1>1. /\ frames = <<>> /\ pc \in {"loop", "sleeping", "cleanup"}
      /\ UNCHANGED <<inputs, logger, port, step, running, signals>>
      /\ \/ pc = "loop" /\ running = "yes" /\ pc' = "sleeping" /\ UNCHANGED <<exit, resource>>
         \/ pc = "loop" /\ running # "yes" /\ pc' = "terminated" /\ UNCHANGED <<exit, resource>>
         \/ pc = "sleeping" /\ pc' = "loop" /\ UNCHANGED <<exit, resource>>
         \/ pc = "cleanup" /\ pc' = "ending" /\ exit' = "0" /\ resource' = "down"
  BY DEF Test, WakeUp, CleanUp, MainAt
<1>2. lock = Free
  BY <1>1, Unlocked DEF AfterLog
<1>3. Stack' /\ LockHeld' /\ LevelIsKept'
  BY <1>1, <1>2, MainKeeps DEF signals
<1>4. /\ Typed /\ Started /\ Progress /\ LevelSet
      /\ UNCHANGED <<command, helps, service, args, file, env, level, logFile, ready, logs,
                     handle, port, step, running, handled, pending, asked, sent>>
  BY <1>1 DEF ServiceInv, inputs, signals, logger
<1>5. Help' = Help
  BY <1>4 DEF Help, Registered
<1>6. Typed' /\ Started' /\ LevelSet'
  BY <1>1, <1>4 DEF Typed, Started, LevelSet, Looping, Terminating, Leaving, Over
<1>7. Progress'
  BY <1>1, <1>4, <1>5 DEF Progress, Typed, Looping, Terminating, Leaving
<1> QED
  BY <1>3, <1>6, <1>7 DEF ServiceInv

(* log_cleanup() and the return from main().                               *)
LEMMA EndKeeps ==
  ASSUME ServiceInv, CloseLog \/ ForgetLog \/ Exit
  PROVE  ServiceInv'
<1>1. /\ frames = <<>>
      /\ UNCHANGED <<inputs, logs, exit, port, step, resource, running, signals>>
      /\ \/ pc = "ending" /\ pc' = "closed" /\ ready' = ready /\ handle' \in {handle, "freed"}
         \/ pc = "closed" /\ pc' = "returning" /\ ready' = "no" /\ handle' = "none"
         \/ pc = "returning" /\ pc' = "done" /\ ready' = ready /\ handle' = handle
  BY DEF CloseLog, ForgetLog, Exit, MainAt, logger
<1>2. lock = Free
  BY <1>1, Unlocked DEF AfterLog
<1>3. Stack' /\ LockHeld' /\ LevelIsKept'
  BY <1>1, <1>2, MainKeeps DEF signals
<1>4. /\ Typed /\ Started /\ Progress /\ LevelSet
      /\ UNCHANGED <<command, helps, service, args, file, env, level, logFile,
                     handled, pending, asked, sent>>
  BY <1>1 DEF ServiceInv, inputs, signals
<1>5. Help' = Help
  BY <1>4 DEF Help, Registered
<1>6. Typed' /\ Started' /\ LevelSet'
  BY <1>1, <1>4 DEF Typed, Started, LevelSet, Looping, Terminating, Leaving, Over
<1>7. Progress'
  BY <1>1, <1>4, <1>5 DEF Progress, Typed, Looping, Terminating, Leaving
<1> QED
  BY <1>3, <1>6, <1>7 DEF ServiceInv

(* Whoever begins a message has the level that was asked for.              *)
LEMMA BeginMessage ==
  ASSUME ServiceInv, MayLog, AutoInit, UNCHANGED <<level, logFile, pc>>,
         pc \notin {"main"} \cup Over
  PROVE  /\ Logs'
         /\ LevelSet'
         /\ LevelIsKept'
         /\ ready' \in {"yes", "no"} /\ logs' \in Levels /\ handle' \in {"none", "open", "freed"}
<1>1. /\ ready = "no" \/ logs = "info"
      /\ ready \in {"yes", "no"} /\ logs \in Levels /\ handle \in {"none", "open", "freed"}
      /\ LevelSet
  BY DEF MayLog, Logs, ServiceInv, Typed
<1>2. \/ ready = "yes" /\ ready' = ready /\ logs' = logs /\ handle' = handle
      \/ ready = "no" /\ ready' = "yes" /\ logs' = "info" /\ handle' = "none"
  BY <1>1 DEF AutoInit, logger
<1> QED
  BY <1>1, <1>2 DEF Logs, LevelSet, LevelIsKept, Levels

(* The messages of the main program.                                       *)
LEMMA MainLogKeeps ==
  ASSUME ServiceInv, MainLog
  PROVE  ServiceInv'
<1>1. /\ frames = <<>> /\ pc \in {"announcing", "terminated", "cleaning"}
      /\ UNCHANGED <<command, helps, service, args, file, env, level, logFile, exit, port, step,
                     resource, running, handled, pending, frames, asked, sent>>
      /\ \/ MayLog /\ lock' = MainDepth /\ pc' = pc /\ AutoInit
         \/ /\ lock' = Free /\ UNCHANGED logger
            /\ \/ pc = "announcing" /\ pc' = "loop"
               \/ pc = "terminated" /\ pc' = "cleaning"
               \/ pc = "cleaning" /\ pc' = "cleanup"
  BY DEF MainLog, AfterLog, inputs
<1>2. /\ Typed /\ Started /\ Progress /\ Stack /\ LockHeld /\ LevelSet /\ LevelIsKept
  BY DEF ServiceInv
<1>3. Stack' /\ Len(frames) = 0 /\ frames' = frames
  BY <1>1, <1>2, StackStays
<1>4. Help' = Help
  BY <1>1 DEF Help, Registered
<1>5. CASE MayLog /\ lock' = MainDepth /\ pc' = pc /\ AutoInit
  <2>1. /\ Logs' /\ LevelSet' /\ LevelIsKept'
        /\ ready' \in {"yes", "no"} /\ logs' \in Levels /\ handle' \in {"none", "open", "freed"}
    BY <1>1, <1>5, BeginMessage DEF Over
  <2>2. Typed' /\ Started' /\ Progress'
    BY <1>1, <1>2, <1>4, <1>5, <2>1 DEF Typed, Started, Progress
  <2>3. LockHeld'
    BY <1>1, <1>3, <1>5, <2>1 DEF LockHeld, MainDepth, Free, AfterLog
  <2> QED
    BY <1>3, <2>1, <2>2, <2>3 DEF ServiceInv
<1>6. CASE /\ lock' = Free /\ UNCHANGED logger
           /\ \/ pc = "announcing" /\ pc' = "loop"
              \/ pc = "terminated" /\ pc' = "cleaning"
              \/ pc = "cleaning" /\ pc' = "cleanup"
  <2>1. Typed' /\ Started' /\ LevelSet'
    BY <1>1, <1>2, <1>6 DEF Typed, Started, LevelSet, Looping, Terminating, Leaving, Over, logger
  <2>2. Progress'
    BY <1>1, <1>2, <1>4, <1>6 DEF Progress, Looping, Terminating, Leaving
  <2>3. LockHeld' /\ LevelIsKept'
    BY <1>3, <1>6 DEF LockHeld, LevelIsKept, MainDepth, Free
  <2> QED
    BY <1>3, <2>1, <2>2, <2>3 DEF ServiceInv
<1> QED
  BY <1>1, <1>5, <1>6

(* Anybody sends a signal.                                                 *)
LEMMA KillKeeps ==
  ASSUME ServiceInv, NEW s \in Signals, Kill(s)
  PROVE  ServiceInv'
<1>1. /\ UNCHANGED <<command, helps, service, args, file, env, level, logFile, ready, logs, handle,
                     exit, port, pc, step, resource, running, handled, frames, lock, asked>>
      /\ sent < MaxSignals /\ sent' = sent + 1
      /\ pending' = pending \cup {s}
  BY DEF Kill, inputs, logger
<1>2. Typed'
  BY <1>1, ServiceAssumption DEF ServiceInv, Typed
<1>3. /\ Started' /\ Progress' /\ LevelSet' /\ LevelIsKept'
  BY <1>1 DEF ServiceInv, Started, Progress, LevelSet, LevelIsKept, Help, Registered
<1>4. Stack'
  BY <1>1, StackStays DEF ServiceInv
<1>5. LockHeld'
  BY <1>1 DEF ServiceInv, LockHeld, Logs
<1> QED
  BY <1>2, <1>3, <1>4, <1>5 DEF ServiceInv

(* A signal begins a handler or ends the process.                          *)
LEMMA DeliverKeeps ==
  ASSUME ServiceInv, NEW s \in Signals, Deliver(s)
  PROVE  ServiceInv'
<1>1. /\ UNCHANGED <<command, helps, service, args, file, env, level, logFile, ready, logs, handle,
                     exit, port, step, resource, running, handled, lock, asked, sent>>
      /\ pc \notin Over /\ ~Masked(s)
      /\ pending' = pending \ {s}
      /\ \/ s \in handled /\ frames' = Append(frames, [signal |-> s, at |-> "log"]) /\ pc' = pc
         \/ s \notin handled /\ frames' = frames /\ pc' = "killed"
  BY DEF Deliver, inputs, logger
<1>2. /\ Typed /\ Started /\ Progress /\ Stack /\ LockHeld /\ LevelSet /\ LevelIsKept
      /\ Help' = Help
  BY <1>1 DEF ServiceInv, Help, Registered
<1>3. CASE s \in handled /\ frames' = Append(frames, [signal |-> s, at |-> "log"]) /\ pc' = pc
  <2>1. /\ Stack'
        /\ Len(frames) \in Nat
        /\ Len(frames') = Len(frames) + 1
        /\ \A i \in 1..Len(frames) : frames'[i] = frames[i]
    BY <1>1, <1>2, <1>3, StackGrows
  <2>2. Typed' /\ Started' /\ Progress' /\ LevelSet' /\ LevelIsKept'
    BY <1>1, <1>2, <1>3 DEF Typed, Started, Progress, LevelSet, LevelIsKept
  <2>3. lock \in 1..Len(frames') => lock \in 1..Len(frames) \/ lock = Len(frames) + 1
    BY <2>1
  <2>4. LockHeld'
    BY <1>1, <1>2, <1>3, <2>1 DEF LockHeld, Logs, Free
  <2> QED
    BY <2>1, <2>2, <2>4 DEF ServiceInv
<1>4. CASE s \notin handled /\ frames' = frames /\ pc' = "killed"
  <2>1. Stack'
    BY <1>1, <1>2, <1>4, StackStays
  <2>2. Typed' /\ Started' /\ Progress' /\ LevelSet'
    BY <1>1, <1>2, <1>4
    DEF Typed, Started, Progress, LevelSet, Over, Looping, Terminating, Leaving
  <2>3. LockHeld'
    BY <1>1, <1>2, <1>4 DEF LockHeld, Logs
  <2>4. pc = "returning" => lock = Free
    <3> SUFFICES ASSUME pc = "returning" PROVE lock = Free
      OBVIOUS
    <3>1. handled = {}
      BY <1>2, <1>4 DEF Progress, Leaving
    <3>2. Len(frames) = 0
      BY <1>2, <3>1 DEF Stack
    <3> QED
      BY <1>2, <3>2 DEF LockHeld, AfterLog, MainDepth
  <2>5. LevelIsKept'
    BY <1>1, <1>2, <2>4 DEF LevelIsKept
  <2> QED
    BY <2>1, <2>2, <2>3, <2>5 DEF ServiceInv
<1> QED
  BY <1>1, <1>3, <1>4

(* A handler runs only when the handlers are being installed, or are.      *)
LEMMA HandlerRuns ==
  ASSUME ServiceInv, frames # <<>>
  PROVE  pc \notin {"main", "command", "configured"} /\ Len(frames) \in Nat \ {0}
<1>1. Len(frames) \in Nat \ {0} /\ frames[1].signal \in handled
  BY DEF ServiceInv, Stack
<1> QED
  BY <1>1 DEF ServiceInv, Progress

(* A handler logs.                                                         *)
LEMMA HandlerLogKeeps ==
  ASSUME ServiceInv, HandlerLog
  PROVE  ServiceInv'
<1>1. /\ UNCHANGED <<command, helps, service, args, file, env, level, logFile,
                     exit, port, pc, step, resource, running, handled, pending, asked, sent>>
      /\ pc \notin Over /\ frames # <<>> /\ Last(frames).at = "log"
      /\ \/ MayLog /\ lock' = Depth /\ frames' = frames /\ AutoInit
         \/ /\ lock' = Free
            /\ frames' = [frames EXCEPT ![Depth].at = "store"]
            /\ UNCHANGED <<ready, logs, handle>>
  BY DEF HandlerLog, HandlerAt, inputs, logger
<1>2. /\ Typed /\ Started /\ Progress /\ Stack /\ LockHeld /\ LevelSet /\ LevelIsKept
      /\ Help' = Help
  BY <1>1 DEF ServiceInv, Help, Registered
<1>3. /\ pc \notin {"main"} \cup Over
      /\ Len(frames) \in Nat \ {0} /\ Depth = Len(frames) /\ frames[Depth].at = "log"
  BY <1>1, HandlerRuns DEF Depth, Last
<1>4. Started' /\ Progress'
  BY <1>1, <1>2 DEF Started, Progress
<1>5. CASE MayLog /\ lock' = Depth /\ frames' = frames /\ AutoInit
  <2>1. /\ Logs' /\ LevelSet' /\ LevelIsKept'
        /\ ready' \in {"yes", "no"} /\ logs' \in Levels /\ handle' \in {"none", "open", "freed"}
    BY <1>1, <1>3, <1>5, BeginMessage
  <2>2. Typed'
    BY <1>1, <1>2, <2>1 DEF Typed
  <2>3. Stack'
    BY <1>1, <1>2, <1>5, StackStays
  <2>4. LockHeld'
    BY <1>3, <1>5, <2>1 DEF LockHeld, MainDepth
  <2> QED
    BY <1>4, <2>1, <2>2, <2>3, <2>4 DEF ServiceInv
<1>6. CASE /\ lock' = Free
           /\ frames' = [frames EXCEPT ![Depth].at = "store"]
           /\ UNCHANGED <<ready, logs, handle>>
  <2>1. Stack' /\ Len(frames') = Len(frames)
    BY <1>1, <1>2, <1>6, StackGoesOn
  <2>2. Typed' /\ LevelSet'
    BY <1>1, <1>2, <1>6 DEF Typed, LevelSet
  <2>3. LockHeld' /\ LevelIsKept'
    BY <1>3, <1>6, <2>1 DEF LockHeld, LevelIsKept, Free, MainDepth
  <2> QED
    BY <1>4, <2>1, <2>2, <2>3 DEF ServiceInv
<1> QED
  BY <1>1, <1>5, <1>6

(* A handler takes the flag back and is done: it does not have the lock.   *)
LEMMA HandlerStoreKeeps ==
  ASSUME ServiceInv, HandlerStore
  PROVE  ServiceInv'
<1>1. /\ UNCHANGED <<command, helps, service, args, file, env, level, logFile, ready, logs, handle,
                     exit, port, pc, step, resource, handled, pending, lock, sent>>
      /\ pc \notin Over /\ frames # <<>> /\ Last(frames).at = "store"
      /\ running' = "no" /\ asked' = "yes"
      /\ frames' = Front(frames)
  BY DEF HandlerStore, HandlerAt, inputs, logger
<1>2. /\ Typed /\ Started /\ Progress /\ Stack /\ LockHeld /\ LevelSet /\ LevelIsKept
      /\ Help' = Help
  BY <1>1 DEF ServiceInv, Help, Registered
<1>3. /\ Stack'
      /\ Len(frames) \in Nat \ {0}
      /\ Len(frames') = Len(frames) - 1
      /\ \A i \in 1..Len(frames) - 1 : frames'[i] = frames[i]
  BY <1>1, <1>2, StackShrinks, HandlerRuns
<1>4. frames[Len(frames)].at = "store"
  BY <1>1 DEF Last
<1>5. lock # Len(frames)
  BY <1>2, <1>3, <1>4 DEF LockHeld
<1>6. LockHeld'
  BY <1>1, <1>2, <1>3, <1>5 DEF LockHeld, Logs, Free, MainDepth
<1>7. Typed' /\ Started' /\ Progress' /\ LevelSet' /\ LevelIsKept'
  BY <1>1, <1>2 DEF Typed, Started, Progress, LevelSet, LevelIsKept
<1> QED
  BY <1>3, <1>6, <1>7 DEF ServiceInv

-----------------------------------------------------------------------------
(***************************************************************************)
(* What holds of every process.                                            *)
(***************************************************************************)

LEMMA ServiceStep == ServiceInv /\ [Next]_vars => ServiceInv'
<1> SUFFICES ASSUME ServiceInv, [Next]_vars PROVE ServiceInv'
  OBVIOUS
<1>1. CASE UNCHANGED vars
  <2>1. UNCHANGED <<command, helps, service, args, file, env, level, logFile, ready, logs, handle,
                    exit, port, pc, step, resource, running, handled, pending, frames, lock,
                    asked, sent>>
    BY <1>1 DEF vars, inputs, logger, signals
  <2> QED
    BY <2>1
    DEF ServiceInv, Typed, Started, Progress, Stack, LockHeld, LevelSet, LevelIsKept, Logs, Help,
        Registered
<1>2. CASE Main
  BY <1>2, BeginKeeps, ConfigureKeeps, SetupKeeps, MainLogKeeps, LoopKeeps, EndKeeps DEF Main
<1> QED
  BY <1>1, <1>2, KillKeeps, DeliverKeeps, HandlerLogKeeps, HandlerStoreKeeps DEF Next

(* Where a process is, what handlers run on top of it and what its log is  *)
(* set up as, at any moment at which a signal may come (cli_commands.cpp). *)
THEOREM ServiceInvariant == Spec => []ServiceInv
<1>1. Init => ServiceInv
  BY ServiceInit
<1>2. ServiceInv /\ [Next]_vars => ServiceInv'
  BY ServiceStep
<1> QED
  BY <1>1, <1>2, PTL DEF Spec

(* The variables are what they are declared to be: in particular a service *)
(* that is configured has a port, and no more handlers run than there are  *)
(* signals (get_option_value, cli.cpp; service_signal_handler).            *)
THEOREM ServiceTypeOK == Spec => []TypeOK
<1>1. ServiceInv => TypeOK
  <2> SUFFICES ASSUME ServiceInv PROVE TypeOK
    OBVIOUS
  <2>1. frames \in Seq([signal : handled, at : {"log", "store"}])
    <3>1. frames \in Seq(Frame) /\ \A i \in 1..Len(frames) : frames[i].signal \in handled
      BY DEF ServiceInv, Stack
    <3>2. ASSUME NEW i \in 1..Len(frames)
          PROVE  frames[i] \in [signal : handled, at : {"log", "store"}]
      <4>1. frames[i] \in Frame
        BY <3>1
      <4> QED
        BY <3>1, <4>1 DEF Frame
    <3> DEFINE Installed == [signal : handled, at : {"log", "store"}]
    <3>3. \A i \in 1..Len(frames) : frames[i] \in Installed
      BY <3>2
    <3> HIDE DEF Installed
    <3>4. frames \in Seq(Installed)
      BY <3>1, <3>3, IsASeq
    <3> QED
      BY <3>4 DEF Installed
  <2>2. Len(frames) <= Cardinality(Signals)
    BY AtMostTwo DEF ServiceInv, Progress
  <2>3. Len(Setup) + 1 = 4
    BY DEF Setup
  <2> QED
    BY <2>1, <2>2, <2>3
    DEF ServiceInv, Typed, Started, Progress, LockHeld, TypeOK, Looping, Terminating, Leaving,
        AfterLog
<1> QED
  BY <1>1, ServiceInvariant, PTL

(* A service that ends with success was asked to by a handler, and has     *)
(* taken down what it had set up ("graceful shutdown", cli_commands.cpp).  *)
THEOREM ServiceEndsInOrder == Spec => []EndsInOrder
<1>1. ServiceInv => EndsInOrder
  BY DEF ServiceInv, Progress, EndsInOrder
<1> QED
  BY <1>1, ServiceInvariant, PTL

(* No message is written that the level asked for excludes, unless the log *)
(* file did not open or the log is closed already (log_init, log.cpp).     *)
THEOREM ServiceLevelIsKept == Spec => []LevelIsKept
<1>1. ServiceInv => LevelIsKept
  BY DEF ServiceInv
<1> QED
  BY <1>1, ServiceInvariant, PTL

(* A process that was asked to log errors only never waits for itself: its *)
(* handlers take the lock for no message, until log_cleanup() has forgotten *)
(* the level (cli_commands.cpp:29, log.cpp:196).  At any other level        *)
(* NeverStuck is false.                                                    *)
THEOREM ServiceQuietNeverStuck ==
  Spec => [](level = "error" /\ logFile # "fails" /\ pc # "returning" => NeverStuck)
<1>1. ServiceInv => (level = "error" /\ logFile # "fails" /\ pc # "returning" => NeverStuck)
  BY DEF ServiceInv, LevelIsKept, NeverStuck, Stuck
<1> QED
  BY <1>1, ServiceInvariant, PTL

(* The first definition of a variable gives its value to a service that    *)
(* asks for the variable.                                                  *)
LEMMA FileHas ==
  ASSUME NEW var, NEW value,
         NEW i \in 1..Len(file), file[i] = [var |-> var, value |-> value],
         \A j \in 1..(i - 1) : file[j].var # var
  PROVE  /\ Defines(var)
         /\ \A name : var \in PortVariables(name) => value \in FileGives(name)
<1>1. file[i].var = var /\ file[i].value = value
  OBVIOUS
<1> QED
  BY <1>1 DEF FileGives, Defines

(* A variable has its value from the file, or from the environment.        *)
LEMMA VariableGives ==
  ASSUME file \in Seq([var : STRING, value : STRING]), NEW var, NEW value,
         value = GetEnvVar(file, env, var)
  PROVE  \/ /\ value # None
            /\ Defines(var)
            /\ \A name : var \in PortVariables(name) => value \in FileGives(name)
         \/ value # None /\ env[var] = value /\ ~Defines(var)
         \/ value = None /\ env[var] = None /\ ~Defines(var)
<1> DEFINE First(i) == /\ file[i] = [var |-> var, value |-> value]
                       /\ \A j \in 1..(i - 1) : file[j].var # var
<1>1. \/ value # None /\ \E i \in 1..Len(file) : First(i)
      \/ value # None /\ env[var] = value /\ \A i \in 1..Len(file) : file[i].var # var
      \/ value = None /\ env[var] = None /\ \A i \in 1..Len(file) : file[i].var # var
  BY VariableIs
<1>2. (\A i \in 1..Len(file) : file[i].var # var) => ~Defines(var)
  BY DEF Defines
<1>3. ASSUME NEW i \in 1..Len(file), First(i)
      PROVE  /\ Defines(var)
             /\ \A name : var \in PortVariables(name) => value \in FileGives(name)
  BY <1>3, FileHas
<1> HIDE DEF First
<1> QED
  BY <1>1, <1>2, <1>3

(* A file that defines no variable of a service gives it nothing.          *)
LEMMA FileHasNot ==
  ASSUME NEW name, ~Defines("FEDERATED_PORT"), ~Defines(OwnOption[name].env)
  PROVE  FileGives(name) = {}
  BY DEF FileGives, Defines, PortVariables

(* The port is where the search finds it.                                  *)
LEMMA ConfiguredPort ==
  ASSUME ServiceInv, Configure, \A f \in Files : Len(f) <= MaxEnvVars
  PROVE  PortByPriority'
<1> DEFINE PortAfterIsOf(name) ==
      IF args # <<>> THEN port' = Last(args)
      ELSE IF FileGives(name) # {} THEN port' \in FileGives(name)
      ELSE IF EnvGives(name) # {} THEN port' \in EnvGives(name)
      ELSE port' = OwnOption[name].default
<1>1. /\ UNCHANGED <<service, args, file, env>>
      /\ args \in Arguments /\ file \in Files
      /\ port' = GetOptionValue(args, Loaded(file), env)
  BY DEF Configure, MainAt, inputs, ServiceInv, Started
<1>2. SUFFICES /\ Crossed(AskedFor) => port' \in EnvGives(AskedFor)
               /\ ~Crossed(AskedFor) => PortAfterIsOf(AskedFor)
  <2>1. /\ AskedFor' = AskedFor
        /\ \A name : Crossed(name)' = Crossed(name)
        /\ \A name : FileGives(name)' = FileGives(name)
        /\ \A name : EnvGives(name)' = EnvGives(name)
    BY <1>1 DEF AskedFor, Crossed, FileGives, EnvGives, Defines, PortVariables
  <2>2. PortAfterIsOf(AskedFor) => PortIsOf(AskedFor)'
    BY <1>1, <2>1 DEF PortIsOf
  <2> HIDE DEF PortAfterIsOf
  <2> QED
    BY <1>2, <2>1, <2>2 DEF PortByPriority
<1>3. file \in Seq([var : STRING, value : STRING]) /\ Loaded(file) = file
  BY <1>1, LoadedWhole, ServiceAssumption
<1>4. CASE args # <<>>
  <2>1. port' = Last(args)
    BY <1>1, <1>4, StoredIs DEF GetOptionValue
  <2> QED
    BY <1>4, <2>1 DEF Crossed
<1>5. CASE args = <<>>
  <2> DEFINE shared == GetEnvVar(file, env, "FEDERATED_PORT")
             own == GetEnvVar(file, env, "FEDERATED_SMTP_PORT")
  <2>1. port' = IF shared # None THEN shared ELSE IF own # None THEN own ELSE "25"
    BY <1>1, <1>3, <1>5, StoredIs, SmtpValue DEF GetOptionValue
  <2>2. OwnOption["smtp"] = [env |-> "FEDERATED_SMTP_PORT", default |-> "25"]
    BY DEF OwnOption, PortOptions
  <2>3. /\ \A name : "FEDERATED_PORT" \in PortVariables(name)
        /\ PortVariables("smtp") = {"FEDERATED_PORT", "FEDERATED_SMTP_PORT"}
    BY <2>2 DEF PortVariables
  <2>4. \/ /\ shared # None
           /\ \A name : shared \in FileGives(name)
           /\ Defines("FEDERATED_PORT")
        \/ /\ shared # None
           /\ env["FEDERATED_PORT"] = shared /\ ~Defines("FEDERATED_PORT")
        \/ /\ shared = None
           /\ env["FEDERATED_PORT"] = None /\ ~Defines("FEDERATED_PORT")
    BY <1>3, <2>3, VariableGives
  <2>5. \/ own # None /\ own \in FileGives("smtp")
        \/ own # None /\ env["FEDERATED_SMTP_PORT"] = own /\ ~Defines("FEDERATED_SMTP_PORT")
        \/ own = None /\ env["FEDERATED_SMTP_PORT"] = None /\ ~Defines("FEDERATED_SMTP_PORT")
    <3>1. "FEDERATED_SMTP_PORT" \in PortVariables("smtp")
      BY <2>3
    <3> QED
      BY <1>3, <3>1, VariableGives
  <2> HIDE DEF shared, own
  <2>6. CASE shared # None /\ Defines("FEDERATED_PORT")
    BY <1>5, <2>1, <2>4, <2>6 DEF Crossed
  <2>7. CASE shared # None /\ ~Defines("FEDERATED_PORT")
    <3>1. env["FEDERATED_PORT"] = shared
      BY <2>4, <2>7
    <3>2. port' = shared /\ \A name : port' \in EnvGives(name)
      BY <2>1, <2>3, <2>7, <3>1 DEF EnvGives
    <3>3. ~Crossed(AskedFor) => FileGives(AskedFor) = {}
      BY <1>5, <2>7, <3>1, FileHasNot DEF Crossed
    <3> QED
      BY <1>5, <3>2, <3>3
  <2>8. CASE shared = None
    <3>1. AskedFor = "smtp" /\ ~Crossed("smtp")
      BY <1>5, <2>4, <2>8 DEF AskedFor, Crossed
    <3>2. CASE own # None /\ own \in FileGives("smtp")
      BY <1>5, <2>1, <2>8, <3>1, <3>2
    <3>3. CASE own # None /\ env["FEDERATED_SMTP_PORT"] = own /\ ~Defines("FEDERATED_SMTP_PORT")
      <4>1. FileGives("smtp") = {}
        BY <2>2, <2>4, <2>8, <3>3, FileHasNot
      <4>2. port' = own /\ port' \in EnvGives("smtp")
        BY <2>1, <2>3, <2>8, <3>3 DEF EnvGives
      <4> QED
        BY <1>5, <3>1, <4>1, <4>2
    <3>4. CASE own = None /\ env["FEDERATED_SMTP_PORT"] = None /\ ~Defines("FEDERATED_SMTP_PORT")
      <4>1. FileGives("smtp") = {}
        BY <2>2, <2>4, <2>8, <3>4, FileHasNot
      <4>2. EnvGives("smtp") = {}
        BY <2>3, <2>4, <2>8, <3>4 DEF EnvGives
      <4>3. port' = "25"
        BY <2>1, <2>8, <3>4
      <4> QED
        BY <1>5, <2>2, <3>1, <4>1, <4>2, <4>3
    <3> QED
      BY <2>5, <3>2, <3>3, <3>4
  <2> QED
    BY <2>6, <2>7, <2>8
<1> QED
  BY <1>4, <1>5

(* Nothing touches what the port is from until the port is used.           *)
LEMMA ConfiguredStays ==
  ASSUME PortByPriority, [Next]_vars, ~Configure
  PROVE  PortByPriority'
<1> SUFFICES ASSUME pc' = "configured" PROVE PortByPriority'
  BY DEF PortByPriority
<1>1. UNCHANGED <<pc, service, args, file, env, port>>
  <2>1. CASE UNCHANGED vars
    BY <2>1 DEF vars, inputs
  <2>2. CASE Main
    BY <2>2
    DEF Main, StartLog, Tell, Refuse, StopOrStatus, InitResource, SetUp, SetupEnds, MainLog, Test,
        WakeUp, CleanUp, CloseLog, ForgetLog, Exit, Finish, AfterLog, MainAt
  <2>3. CASE \/ \E s \in Signals : Kill(s) \/ Deliver(s)
             \/ HandlerLog
             \/ HandlerStore
    BY <2>3 DEF Kill, Deliver, HandlerLog, HandlerStore, inputs
  <2> QED
    BY <2>1, <2>2, <2>3 DEF Next
<1>2. /\ AskedFor' = AskedFor
      /\ \A name : Crossed(name)' = Crossed(name)
      /\ \A name : EnvGives(name)' = EnvGives(name)
      /\ \A name : PortIsOf(name)' = PortIsOf(name)
  BY <1>1 DEF PortIsOf, AskedFor, Crossed, FileGives, EnvGives, Defines, PortVariables
<1> QED
  BY <1>1, <1>2 DEF PortByPriority

(* With an environment file that load_env_file() keeps whole, a service    *)
(* has the port of its arguments, that file, the environment or its        *)
(* default, in that order (cli.h:103), but for two departures: where       *)
(* FEDERATED_PORT is in the environment and the own variable in the file,  *)
(* it is the environment's, and where neither an argument nor              *)
(* FEDERATED_PORT is given it is that of SMTP, whose options               *)
(* get_option_value() asks first (cli.cpp:199).                            *)
THEOREM ServicePortByPriority ==
  ASSUME \A f \in Files : Len(f) <= MaxEnvVars
  PROVE  Spec => []PortByPriority
<1>1. Init => PortByPriority
  BY DEF Init, PortByPriority
<1>2. ServiceInv /\ PortByPriority /\ [Next]_vars => PortByPriority'
  BY ConfiguredPort, ConfiguredStays
<1> QED
  BY <1>1, <1>2, ServiceInvariant, PTL DEF Spec
=============================================================================
