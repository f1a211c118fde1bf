--------------------------- MODULE EmuServerProofs ---------------------------
(***************************************************************************)
(* Theorems about the control of the emulator, for any number of runs.     *)
(***************************************************************************)
EXTENDS EmuServer, TLAPS

-----------------------------------------------------------------------------
(* Every step keeps the types, what the page says, and whose the file is.  *)

\* A runner that is not the placeholder belongs to a run.
RunnerStarted == runner \notin {"dead", "date"} => starts \in Runs

\* From the moment a runner has removed the file, a file that is there was
\* created in its run, and by its own model if no earlier one was alive.
FileFresh ==
    /\ online /\ runner \in {"launch", "wait_online"} =>
          /\ created.run = starts
          /\ clean => created.model = starts /\ port = starts
    /\ FreshOnline

\* In a run that began without any other model there is its own model only, and the
\* port is that model's once it has opened it.
OwnModel ==
    runner \in {"launch", "wait_online", "upload"} /\ clean =>
        \A n \in Runs: Alive(n) =>
            n = starts /\ (model[n] \in {"first_cycle", "running"} => port = n)

\* A run that was stopped has had its model and is over; the present run has its
\* model once the runner waits for it.
StopKnown ==
    /\ signalled \subseteq stopped
    /\ \A n \in stopped: n <= starts /\ model[n] # "none"
    /\ runner \notin {"dead", "date"} => starts \notin stopped
    /\ runner \in {"wait_online", "upload", "handler", "serve"} => model[starts] # "none"

ControlInv ==
    /\ TypeOK /\ RunnerStarted /\ StoppedIsStopping
    /\ FileFresh /\ OwnModel /\ StopKnown /\ StopReachesModel

LEMMA InitControl == Init => ControlInv
<1> SUFFICES ASSUME Init PROVE ControlInv
  OBVIOUS
<1>1. TypeOK
  <2>1. emu_state = "STOPPED" /\ runner = "date" /\ starts = 0 /\ port = 0 /\ eraser = 0
    BY DEF Init
  <2>2. /\ sigterm \in BOOLEAN /\ online \in BOOLEAN /\ shell_execs \in BOOLEAN
        /\ clean \in BOOLEAN /\ signalled = {} /\ stopped = {}
    BY DEF Init
  <2>3. model \in [Runs -> ModelSteps]
    BY DEF Init, ModelSteps
  <2>4. 0 \in 0 .. MaxStarts
    BY StartsAssumption
  <2>5. created \in [model: 0 .. MaxStarts, run: 0 .. MaxStarts]
    BY <2>4 DEF Init
  <2> QED
    BY <2>1, <2>2, <2>3, <2>4, <2>5 DEF TypeOK, RunnerSteps
<1>2. RunnerStarted /\ StoppedIsStopping /\ FileFresh /\ OwnModel
  BY DEF Init, RunnerStarted, StoppedIsStopping, FileFresh, FreshOnline, OwnModel
<1>3. StopKnown /\ StopReachesModel
  BY DEF Init, StopKnown, StopReachesModel
<1> QED
  BY <1>1, <1>2, <1>3 DEF ControlInv

\* The requests.
LEMMA RequestsControl ==
    ASSUME ControlInv, Start \/ Stop
    PROVE  ControlInv'
<1> USE DEF ControlInv, TypeOK, RunnerSteps, file, stops, Runs, RunnerStarted,
            StoppedIsStopping, FileFresh, FreshOnline, OwnModel, StopKnown, StopReachesModel,
            Alive, Over
<1>1. CASE Start
  <2>1. TypeOK'
    <3>1. starts' \in 0 .. MaxStarts
      BY <1>1, StartsAssumption DEF Start
    <3>2. emu_state' = "RUNNING" /\ runner' = "begin" /\ sigterm' = FALSE
      BY <1>1 DEF Start
    <3>3. UNCHANGED <<shell_execs, model, online, created, eraser, port, signalled, stopped,
                      clean>>
      BY <1>1 DEF Start
    <3> QED
      BY <3>1, <3>2, <3>3
  <2>2. RunnerStarted' /\ StoppedIsStopping'
    BY <1>1, StartsAssumption DEF Start
  <2>3. FileFresh'
    BY <1>1, StartsAssumption DEF Start
  <2>4. OwnModel'
    BY <1>1, StartsAssumption DEF Start
  <2>5. StopKnown'
    BY <1>1, StartsAssumption DEF Start
  <2>6. StopReachesModel'
    BY <1>1, StartsAssumption DEF Start
  <2> QED
    BY <2>1, <2>2, <2>3, <2>4, <2>5, <2>6
<1>2. CASE Stop
  <2>1. TypeOK'
    BY <1>2 DEF Stop
  <2>2. RunnerStarted' /\ StoppedIsStopping'
    BY <1>2 DEF Stop
  <2>3. FileFresh'
    BY <1>2 DEF Stop
  <2>4. OwnModel'
    BY <1>2 DEF Stop
  <2>5. StopKnown'
    BY <1>2 DEF Stop
  <2>6. StopReachesModel'
    BY <1>2 DEF Stop
  <2> QED
    BY <2>1, <2>2, <2>3, <2>4, <2>5, <2>6
<1> QED
  BY <1>1, <1>2

\* The life of a runner.
LEMMA RunnerControl ==
    ASSUME ControlInv, Runner \/ RunnerEnds \/ Terminated
    PROVE  ControlInv'
<1> USE DEF ControlInv, TypeOK, RunnerSteps, ModelSteps, file, stops, Runs, RunnerStarted,
            StoppedIsStopping, FileFresh, FreshOnline, OwnModel, StopKnown, StopReachesModel,
            Alive, Over
<1>1. CASE RunnerBegins
  <2>1. TypeOK'
    <3>1. clean' \in BOOLEAN
      BY <1>1, Zenon DEF RunnerBegins
    <3>2. runner' = "launch" /\ online' = FALSE /\ eraser' = 0
      BY <1>1 DEF RunnerBegins
    <3>3. UNCHANGED <<shell_execs, emu_state, sigterm, starts, model, created, port, signalled,
                      stopped>>
      BY <1>1 DEF RunnerBegins
    <3>4. 0 \in 0 .. MaxStarts
      BY StartsAssumption
    <3> QED
      BY <3>1, <3>2, <3>3, <3>4
  <2>2. RunnerStarted' /\ StoppedIsStopping'
    BY <1>1 DEF RunnerBegins
  <2>3. FileFresh'
    BY <1>1 DEF RunnerBegins
  <2>4. OwnModel'
    BY <1>1 DEF RunnerBegins
  <2>5. StopKnown'
    BY <1>1 DEF RunnerBegins
  <2>6. StopReachesModel'
    BY <1>1 DEF RunnerBegins
  <2> QED
    BY <2>1, <2>2, <2>3, <2>4, <2>5, <2>6
<1>2. CASE Launch
  BY <1>2 DEF Launch
<1>3. CASE SeesOnline
  BY <1>3 DEF SeesOnline
<1>4. CASE Uploaded
  BY <1>4 DEF Uploaded
<1>5. CASE HandlerInstalled
  BY <1>5
  DEF HandlerInstalled
<1>6. CASE RunnerEnds
  BY <1>6 DEF RunnerEnds
<1>7. CASE Terminated
  <2>a. ASSUME runner = "serve"
        PROVE  /\ signalled' = signalled \union {starts} /\ stopped' = stopped \union {starts}
               /\ starts \in 1 .. MaxStarts /\ starts <= starts /\ model[starts] # "none"
    BY <1>7, <2>a DEF Terminated
  <2>b. /\ runner' = "dead" /\ UNCHANGED <<starts, model>>
        /\ runner # "serve" => UNCHANGED <<signalled, stopped>>
    BY <1>7 DEF Terminated
  <2>1. TypeOK'
    <3>1. signalled' \subseteq Runs /\ stopped' \subseteq Runs
      BY <2>a, <2>b
    <3>2. runner' = "dead" /\ sigterm' = FALSE
      BY <1>7 DEF Terminated
    <3>3. UNCHANGED <<shell_execs, emu_state, starts, model, online, created, eraser, port,
                      clean>>
      BY <1>7 DEF Terminated
    <3> QED
      BY <3>1, <3>2, <3>3
  <2>2. RunnerStarted' /\ StoppedIsStopping'
    BY <1>7 DEF Terminated
  <2>3. FileFresh'
    BY <1>7 DEF Terminated
  <2>4. OwnModel'
    BY <1>7 DEF Terminated
  <2>5. StopKnown'
    BY <2>a, <2>b
  <2>6. StopReachesModel'
    BY <1>7 DEF Terminated
  <2> QED
    BY <2>1, <2>2, <2>3, <2>4, <2>5, <2>6
<1> QED
  BY <1>1, <1>2, <1>3, <1>4, <1>5, <1>6, <1>7 DEF Runner

\* The life of a model.
LEMMA ModelControl ==
    ASSUME ControlInv, NEW n \in Runs, Model(n) \/ ModelExits(n) \/ ModelTerminated(n)
    PROVE  ControlInv'
<1> USE DEF ControlInv, TypeOK, RunnerSteps, ModelSteps, file, stops, Runs, RunnerStarted,
            StoppedIsStopping, FileFresh, FreshOnline, OwnModel, StopKnown, StopReachesModel,
            Alive, Over
<1>1. CASE ModelBegins(n)
  <2>1. TypeOK'
    <3>1. model' \in [Runs -> ModelSteps] /\ online' = FALSE /\ eraser' \in 0 .. MaxStarts
      BY <1>1 DEF ModelBegins
    <3>2. UNCHANGED <<shell_execs, emu_state, runner, sigterm, starts, created, port, signalled,
                      stopped, clean>>
      BY <1>1 DEF ModelBegins
    <3> QED
      BY <3>1, <3>2
  <2>2. RunnerStarted' /\ StoppedIsStopping'
    BY <1>1 DEF ModelBegins
  <2>3. FileFresh'
    BY <1>1 DEF ModelBegins
  <2>4. OwnModel'
    BY <1>1 DEF ModelBegins
  <2>5. StopKnown'
    BY <1>1 DEF ModelBegins
  <2>6. StopReachesModel'
    BY <1>1 DEF ModelBegins
  <2> QED
    BY <2>1, <2>2, <2>3, <2>4, <2>5, <2>6
<1>2. CASE ModelConnects(n)
  BY <1>2 DEF ModelConnects
<1>3. CASE ModelOnline(n)
  <2>1. TypeOK'
    <3>1. model' \in [Runs -> ModelSteps] /\ online' = TRUE /\ eraser' = 0
      BY <1>3 DEF ModelOnline
    <3>2. created' \in [model: 0 .. MaxStarts, run: 0 .. MaxStarts] /\ 0 \in 0 .. MaxStarts
      BY <1>3, StartsAssumption DEF ModelOnline
    <3>3. UNCHANGED <<shell_execs, emu_state, runner, sigterm, starts, port, signalled, stopped,
                      clean>>
      BY <1>3 DEF ModelOnline
    <3> QED
      BY <3>1, <3>2, <3>3
  <2>2. RunnerStarted' /\ StoppedIsStopping'
    BY <1>3 DEF ModelOnline
  <2>3. FileFresh'
    BY <1>3 DEF ModelOnline
  <2>4. OwnModel'
    BY <1>3 DEF ModelOnline
  <2>5. StopKnown'
    BY <1>3 DEF ModelOnline
  <2>6. StopReachesModel'
    BY <1>3 DEF ModelOnline
  <2> QED
    BY <2>1, <2>2, <2>3, <2>4, <2>5, <2>6
<1>4. CASE ModelExits(n)
  BY <1>4 DEF ModelExits
<1>5. CASE ModelTerminated(n)
  BY <1>5 DEF ModelTerminated
<1> QED
  BY <1>1, <1>2, <1>3, <1>4, <1>5 DEF Model

LEMMA NextControl == ControlInv /\ [Next]_vars => ControlInv'
<1> SUFFICES ASSUME ControlInv, [Next]_vars PROVE ControlInv'
  OBVIOUS
<1>1. CASE UNCHANGED vars
  BY <1>1
  DEF vars, file, stops, ControlInv, TypeOK, RunnerStarted, StoppedIsStopping, FileFresh,
      FreshOnline, OwnModel, StopKnown, StopReachesModel, Alive
<1>2. CASE Next
  BY <1>2, RequestsControl, RunnerControl, ModelControl DEF Next
<1> QED
  BY <1>1, <1>2

LEMMA Controlled == Spec => []ControlInv
<1> QED
  BY InitControl, NextControl, PTL DEF Spec

-----------------------------------------------------------------------------
(* Theorems.                                                               *)

\* The state of the server, of its runner and of the models is well formed.
THEOREM ControlTypes == Spec => []TypeOK
<1>1. ControlInv => TypeOK
  BY DEF ControlInv
<1> QED
  BY <1>1, Controlled, PTL

\* While the page shows STOPPED, no runner is going to stay.
THEOREM StopsShown == Spec => []StoppedIsStopping
<1>1. ControlInv => StoppedIsStopping
  BY DEF ControlInv
<1> QED
  BY <1>1, Controlled, PTL

\* No upload begins on a file that an earlier run left behind, and none goes to
\* another model where no earlier one was alive.
THEOREM UploadsFresh == Spec => []FreshOnline
<1>1. ControlInv => FreshOnline
  BY DEF ControlInv, FileFresh
<1> QED
  BY <1>1, Controlled, PTL

\* Whichever shell there is, a stop ends the model of a run that has its handler
\* installed and that the shell became, and no other.
THEOREM StopsReachModels == Spec => []StopReachesModel
<1>1. ControlInv => StopReachesModel
  BY DEF ControlInv
<1> QED
  BY <1>1, Controlled, PTL
=============================================================================
