------------------------------ MODULE EmuServer -----------------------------
(***************************************************************************)
(* The emulator's web control and the processes it controls.               *)
(*                                                                         *)
(*   server.py            answers start and stop requests; emu_proc is the *)
(*                        last runner it has started.                      *)
(*   run_emu.py           a runner: starts an emulator model, waits for    *)
(*                        emu_online.txt, uploads the firmware through the *)
(*                        model's serial port, installs its SIGTERM        *)
(*                        handler and copies the port to a log.            *)
(*   emu_base_model.elf   a model: removes emu_online.txt when it starts,  *)
(*                        opens its port and creates the file again after  *)
(*                        its first cycle.                                 *)
(*                                                                         *)
(* The request handlers run to their end: the server is single-threaded    *)
(* and its green threads switch only while they wait.  Everything else is  *)
(* interleaved.  The n-th runner starts the n-th model.                    *)
(***************************************************************************)
EXTENDS Integers, FiniteSets

CONSTANT MaxStarts  \* how many runners are started

ASSUME StartsAssumption == MaxStarts \in Nat \ {0}

VARIABLES
    shell_execs,\* does "sh -c cmd" become cmd, instead of staying its parent?
    emu_state,  \* what /control/state answers
    runner,     \* what the process emu_proc is at
    sigterm,    \* has it been sent a SIGTERM that it has not received?
    starts,     \* number of runners so far, and the number of this one
    model,      \* what each model is at
    online,     \* does emu_online.txt exist?
    port,       \* 0, or the model /tmp/simavr-uart0 leads to
    signalled,  \* runs whose handler's SIGTERM is on its way to what Popen started
    stopped,    \* runs whose handler has sent it
    created,    \* by which model, and during which run, the file was created last
    eraser,     \* 0, or the model that has removed it since
    clean       \* was no earlier model alive when this run removed the file?

file    == <<online, created, eraser>>
stops   == <<signalled, stopped>>
vars    == <<shell_execs, emu_state, runner, sigterm, starts, model, file, port,
             stops, clean>>

Runs == 1 .. MaxStarts

RunnerSteps == {"dead", "date", "begin", "launch", "wait_online", "upload",
                "handler", "serve"}
ModelSteps  == {"none", "begin", "connect", "first_cycle", "running", "exited", "killed"}

Over    == {"exited", "killed"}
Alive(n) == model[n] \notin {"none"} \union Over

TypeOK ==
    /\ shell_execs \in BOOLEAN
    /\ emu_state \in {"STOPPED", "RUNNING"}
    /\ runner \in RunnerSteps
    /\ sigterm \in BOOLEAN
    /\ starts \in 0 .. MaxStarts
    /\ model \in [Runs -> ModelSteps]
    /\ online \in BOOLEAN
    /\ created \in [model: 0 .. MaxStarts, run: 0 .. MaxStarts]
    /\ eraser \in 0 .. MaxStarts
    /\ port \in 0 .. MaxStarts
    /\ signalled \subseteq Runs /\ stopped \subseteq Runs
    /\ clean \in BOOLEAN

\* The server has started, with the process date for a runner; a file may be
\* left over from an earlier one.
Init ==
    /\ shell_execs \in BOOLEAN
    /\ emu_state = "STOPPED"
    /\ runner = "date"
    /\ sigterm = FALSE
    /\ starts = 0
    /\ model = [n \in Runs |-> "none"]
    /\ online \in BOOLEAN
    /\ created = [model |-> 0, run |-> 0]
    /\ eraser = 0
    /\ port = 0
    /\ signalled = {} /\ stopped = {}
    /\ clean = TRUE

-----------------------------------------------------------------------------
(* server.py.                                                              *)

\* A slip in the server: the new state is not recorded.
StartSilently ==
    /\ runner = "dead"
    /\ starts < MaxStarts
    /\ starts' = starts + 1
    /\ runner' = "begin"
    /\ sigterm' = FALSE
    /\ UNCHANGED <<shell_execs, emu_state, model, file, port, stops, clean>>

\* /control/start, when poll() says that the last runner has ended; otherwise
\* the request is turned down and changes nothing.
Start ==
    /\ runner = "dead"
    /\ starts < MaxStarts
    /\ starts' = starts + 1
    /\ runner' = "begin"
    /\ sigterm' = FALSE
    /\ emu_state' = "RUNNING"
    /\ UNCHANGED <<shell_execs, model, file, port, stops, clean>>

\* A slip in the server: the answer to the request recorded as the state.
StopAnswered ==
    /\ sigterm' = (runner # "dead")
    /\ emu_state' = "stop"
    /\ UNCHANGED <<shell_execs, runner, starts, model, file, port, stops, clean>>

\* /control/stop: a SIGTERM for the runner, ended or not.
Stop ==
    /\ sigterm' = (runner # "dead")
    /\ emu_state' = "STOPPED"
    /\ UNCHANGED <<shell_execs, runner, starts, model, file, port, stops, clean>>

-----------------------------------------------------------------------------
(* run_emu.py.                                                             *)

\* The placeholder process, or a runner whose firmware build does not exist,
\* or one whose serial port fails, ends by itself.
RunnerEnds ==
    /\ runner \in {"date", "begin", "handler", "serve"}
    /\ runner' = "dead"
    /\ sigterm' = FALSE
    /\ UNCHANGED <<shell_execs, emu_state, starts, model, file, port, stops, clean>>

\* A slip in the runner: the file of an earlier model is not removed.
RunnerBeginsDirty ==
    /\ runner = "begin"
    /\ runner' = "launch"
    /\ clean' = (\A n \in Runs: ~Alive(n))
    /\ UNCHANGED <<shell_execs, emu_state, sigterm, starts, model, file, port, stops>>

RunnerBegins ==
    /\ runner = "begin"
    /\ runner' = "launch"
    /\ online' = FALSE
    /\ eraser' = 0
    /\ clean' = (\A n \in Runs: ~Alive(n))
    /\ UNCHANGED <<shell_execs, emu_state, sigterm, starts, model, created, port, stops>>

Launch ==
    /\ runner = "launch"
    /\ runner' = "wait_online"
    /\ model' = [model EXCEPT ![starts] = "begin"]
    /\ UNCHANGED <<shell_execs, emu_state, sigterm, starts, file, port, stops, clean>>

SeesOnline ==
    /\ runner = "wait_online"
    /\ online
    /\ runner' = "upload"
    /\ UNCHANGED <<shell_execs, emu_state, sigterm, starts, model, file, port, stops, clean>>

\* avrdude ends, well or not: the runner does not look.
Uploaded ==
    /\ runner = "upload"
    /\ runner' = "handler"
    /\ UNCHANGED <<shell_execs, emu_state, sigterm, starts, model, file, port, stops, clean>>

\* The serial port is open and the SIGTERM handler installed.
HandlerInstalled ==
    /\ runner = "handler"
    /\ runner' = "serve"
    /\ UNCHANGED <<shell_execs, emu_state, sigterm, starts, model, file, port, stops, clean>>

\* A slip in the runner: the handler does not pass the signal on.
TerminatedAlone ==
    /\ sigterm
    /\ sigterm' = FALSE
    /\ runner' = "dead"
    /\ stopped' = IF runner = "serve" THEN stopped \union {starts} ELSE stopped
    /\ UNCHANGED <<shell_execs, emu_state, starts, model, file, port, signalled, clean>>

\* SIGTERM ends the runner; its handler, once installed, sends another one to the
\* process that the runner's Popen started.
Terminated ==
    /\ sigterm
    /\ sigterm' = FALSE
    /\ runner' = "dead"
    /\ IF runner = "serve"
       THEN signalled' = signalled \union {starts} /\ stopped' = stopped \union {starts}
       ELSE UNCHANGED stops
    /\ UNCHANGED <<shell_execs, emu_state, starts, model, file, port, clean>>

-----------------------------------------------------------------------------
(* emu_base_model.c.                                                       *)

ModelBegins(n) ==
    /\ model[n] = "begin"
    /\ model' = [model EXCEPT ![n] = "connect"]
    /\ online' = FALSE
    /\ eraser' = IF online THEN n ELSE eraser
    /\ UNCHANGED <<shell_execs, emu_state, runner, sigterm, starts, created, port, stops,
                   clean>>

ModelConnects(n) ==
    /\ model[n] = "connect"
    /\ model' = [model EXCEPT ![n] = "first_cycle"]
    /\ port' = n
    /\ UNCHANGED <<shell_execs, emu_state, runner, sigterm, starts, file, stops, clean>>

\* A slip in the model: the file created only where no other model runs.
ModelOnlineAlone(n) ==
    /\ model[n] = "first_cycle"
    /\ model' = [model EXCEPT ![n] = "running"]
    /\ online' = (\A m \in Runs: model[m] # "running")
    /\ created' = [model |-> n, run |-> starts]
    /\ eraser' = 0
    /\ UNCHANGED <<shell_execs, emu_state, runner, sigterm, starts, port, stops, clean>>

ModelOnline(n) ==
    /\ model[n] = "first_cycle"
    /\ model' = [model EXCEPT ![n] = "running"]
    /\ online' = TRUE
    /\ created' = [model |-> n, run |-> starts]
    /\ eraser' = 0
    /\ UNCHANGED <<shell_execs, emu_state, runner, sigterm, starts, port, stops, clean>>

\* The simulated processor stops or crashes.
ModelExits(n) ==
    /\ Alive(n)
    /\ model' = [model EXCEPT ![n] = "exited"]
    /\ UNCHANGED <<shell_execs, emu_state, runner, sigterm, starts, file, port, stops,
                   clean>>

\* The handler's SIGTERM arrives: at the model if the shell became it, and at the
\* shell otherwise.
ModelTerminated(n) ==
    /\ n \in signalled
    /\ signalled' = signalled \ {n}
    /\ model' = IF shell_execs /\ Alive(n) THEN [model EXCEPT ![n] = "killed"] ELSE model
    /\ UNCHANGED <<shell_execs, emu_state, runner, sigterm, starts, file, port, stopped,
                   clean>>

Runner == RunnerBegins \/ Launch \/ SeesOnline \/ Uploaded \/ HandlerInstalled
Model(n) == ModelBegins(n) \/ ModelConnects(n) \/ ModelOnline(n)

Next ==
    \/ Start \/ Stop
    \/ RunnerEnds \/ Runner \/ Terminated
    \/ \E n \in Runs: Model(n) \/ ModelExits(n) \/ ModelTerminated(n)

Spec == Init /\ [][Next]_vars

\* Processes run, and signals arrive.
FairSpec ==
    /\ Spec
    /\ WF_vars(Runner)
    /\ WF_vars(Terminated)
    /\ \A n \in Runs: WF_vars(Model(n)) /\ WF_vars(ModelTerminated(n))

-----------------------------------------------------------------------------
\* While the page shows STOPPED, no runner is going to stay: each start is
\* shown, and each stop is on its way, whatever requests came in between.
StoppedIsStopping ==
    emu_state = "STOPPED" => runner \in {"dead", "date"} \/ sigterm

\* A runner uploads on the strength of a file that was created in its own run,
\* never on one left over by a model that has since ended.  If no earlier model was
\* alive when the run began, its own model has created the file, and the port the
\* firmware goes to is that model's.
FreshOnline ==
    runner = "upload" =>
        /\ created.run = starts
        /\ clean => created.model = starts /\ port = starts

\* What a stop does to a model: one whose runner had its handler installed and
\* whose process the shell became is ended, at the latest when the signal on its
\* way arrives; in every other case (an earlier stop, a runner that fails, a shell
\* that stays its parent) nothing ends it but itself, in this run or later ones.
StopReachesModel ==
    \A n \in Runs:
        /\ n \in stopped \ signalled /\ shell_execs => model[n] \in Over
        /\ model[n] = "killed" => n \in stopped /\ shell_execs

\* The file is gone, and so is the model of another run that has removed it and was
\* to create it again.
ErasedForGood(n) == ~online /\ eraser \notin {0, n} /\ model[eraser] \in Over

\* No run waits for ever for its model to come online, unless that model itself
\* crashes before it is: a model of another run that removes its file creates its
\* own, or has ended in between.
WaitEnds ==
    \A n \in Runs:
        runner = "wait_online" /\ starts = n ~>
            \/ ~(runner = "wait_online" /\ starts = n)
            \/ model[n] \in Over
            \/ ErasedForGood(n)
=============================================================================
