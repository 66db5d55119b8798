----------------------------- MODULE GatewayApp -----------------------------
(***************************************************************************)
(* The gateway program around the library (crates/websrt-gateway/src:      *)
(* gui.rs, main.rs, web_server.rs; serve of ingest/srt_listener.rs).       *)
(*                                                                         *)
(* The window starts a run; the run sets up its services as tasks, ends    *)
(* with Gateway::run, and reports to the window over a channel.  All tasks *)
(* of a run are stopped by one Notify, with notify_waiters, which reaches  *)
(* the tasks that hold a Notified at that moment and leaves no permit.     *)
(* The window can be closed, the process can crash, and be started again;  *)
(* without a display, or when told so, it runs once until Ctrl-C.          *)
(***************************************************************************)
EXTENDS Naturals, Sequences

CONSTANTS
  MaxRuns,      \* bound: runs started, over all launches
  MaxLaunches,  \* bound: times the program is started
  Service,      \* services beside the run task, a subset of web, health, srt
  Form,         \* what the form can show
  Secret,       \* what its two secrets, the passphrase and the token, can be
  NoSecret,     \* an empty secret
  GivenForm, GivenSecret   \* what the command line asks for, of the two

ASSUME AppAssumption ==
  /\ MaxRuns \in Nat \ {0} /\ MaxLaunches \in Nat \ {0}
  /\ Service \subseteq {"web", "health", "srt"}
  /\ GivenForm \in Form /\ {NoSecret, GivenSecret} \subseteq Secret

VARIABLES
  gui,       \* GuiApp: state, the run its channel and its Notify belong to (0: None);
             \* without a window, state is Headless, and Interrupted after a Ctrl-C
  config,    \* GuiApp::config
  file,      \* gateway-config.json: what is in it, and whether it is there and whole
  starter,   \* starter[r]: the task that start() spawned for run r
  task,      \* task[r][k]: the task of service k, or "run", in run r
  chan,      \* chan[r]: messages on their way to the window
  kept,      \* ghost: the form of the last run from a window that was not refused its save,
             \* and whether it was written whole or torn
  launches   \* bound: launches so far

runVars == <<starter, task, chan>>
appVars == <<gui, config, file, runVars, kept, launches>>

Run == 1..MaxRuns
Config == [form : Form, secret : Secret]
Task == Service \cup {"run"}
NoTask == [at |-> "none", waits |-> FALSE, told |-> FALSE]

Serving(r, k) == task[r][k].at \in {"serving", "accepting"}
Over(r, k) == task[r][k].at \in {"none", "ended", "failed"}

-----------------------------------------------------------------------------
NoWindow == [state |-> "Closed", rx |-> 0, shutdown |-> 0]

(* The command line, what the window makes of it, and what it makes of the  *)
(* window: the options that the form does not have are back at defaults.    *)
Cli == [form |-> GivenForm, secret |-> GivenSecret, others |-> "given"]
FromCli(cli) == [form |-> cli.form, secret |-> cli.secret]
ToCli(cfg) == [form |-> cfg.form, secret |-> cfg.secret, others |-> "default"]

AppInit ==
  /\ gui = NoWindow
  /\ config = FromCli(Cli)
  /\ file = [form |-> GivenForm, state |-> "absent"]
  /\ starter = [r \in Run |-> "idle"]
  /\ task = [r \in Run |-> [k \in Task |-> NoTask]]
  /\ chan = [r \in Run |-> <<>>]
  /\ kept = [form |-> GivenForm, save |-> "none"]
  /\ launches = 0

Headless == gui.state \in {"Headless", "Interrupted"}

Send(r, msg) == chan' = IF Headless THEN chan ELSE [chan EXCEPT ![r] = Append(@, msg)]

(* notify_waiters on the Notify of run r, given the tasks as they are.      *)
NotifyWaiters(r, tasks) ==
  [tasks EXCEPT ![r] = [k \in Task |->
     IF tasks[r][k].waits THEN [tasks[r][k] EXCEPT !.waits = FALSE, !.told = TRUE]
     ELSE tasks[r][k]]]

(* save_to_file: what it leaves in the file, without the secrets.  When the *)
(* directory, the data or the file is refused, or the write is cut short, it*)
(* warns and returns; a crash inside it cuts it short as well.              *)
Outcome == {"whole", "refused", "torn"}
Save(cfg, how) ==
  CASE how = "whole" -> [form |-> cfg.form, state |-> "whole"]
    [] how = "refused" -> file
    [] how = "torn" -> [file EXCEPT !.state = "corrupt"]

(* start: the configuration cfg is saved and a task spawned for the run,    *)
(* with the same configuration however the save ended.                      *)
NextRun(r) == starter[r] = "idle" /\ \A s \in Run : s < r => starter[s] # "idle"
StartWith(r, cfg) ==
  /\ NextRun(r)
  /\ config' = cfg
  /\ \E how \in Outcome :
       /\ file' = Save(cfg, how)
       /\ kept' = IF how = "refused" THEN kept ELSE [form |-> cfg.form, save |-> how]
  /\ gui' = [gui EXCEPT !.state = "Starting", !.rx = r]
  /\ starter' = [starter EXCEPT ![r] = "setup"]

(* GuiApp::new: the saved configuration, or that of the command line; the   *)
(* first run starts at once.                                                *)
Loaded == IF file.state = "whole" THEN [form |-> file.form, secret |-> NoSecret]
          ELSE FromCli(Cli)
Launch(r) ==
  /\ gui.state = "Closed" /\ launches < MaxLaunches
  /\ StartWith(r, Loaded)
  /\ launches' = launches + 1
  /\ UNCHANGED <<task, chan>>

(* run_headless, with --no-gui or when there is no display: the run gets the*)
(* command line, and the first Ctrl-C is its Stop.                          *)
LaunchHeadless(r) ==
  /\ gui.state = "Closed" /\ launches < MaxLaunches
  /\ NextRun(r)
  /\ gui' = [gui EXCEPT !.state = "Headless"]
  /\ starter' = [starter EXCEPT ![r] = "setup"]
  /\ launches' = launches + 1
  /\ UNCHANGED <<config, file, task, chan, kept>>
CtrlC(r) ==
  /\ gui.state = "Headless" /\ starter[r] \notin {"idle", "done"}
  /\ gui' = [gui EXCEPT !.state = "Interrupted"]
  /\ task' = NotifyWaiters(r, task)
  /\ UNCHANGED <<config, file, starter, chan, kept, launches>>

(* Mutant: Start is enabled as soon as the window shows Stopping.           *)
StartEager(r) ==
  /\ gui.state \in {"Stopped", "Stopping"}
  /\ StartWith(r, config)
  /\ UNCHANGED <<task, chan, launches>>

StartClicked(r) ==
  /\ gui.state = "Stopped" /\ gui.rx = 0
  /\ StartWith(r, config)
  /\ UNCHANGED <<task, chan, launches>>

(* Mutant: the form can be edited while a run goes on, and is saved.        *)
EditAnyTime(cfg) ==
  /\ gui.state # "Closed"
  /\ config' = cfg
  /\ file' = Save(cfg, "whole")
  /\ UNCHANGED <<gui, runVars, kept, launches>>

(* MoreRuns is a bound: an edit that no run follows is of no interest.      *)
MoreRuns == \E r \in Run : starter[r] = "idle"
Edit(cfg) ==
  /\ gui.state = "Stopped" /\ gui.rx = 0 /\ MoreRuns
  /\ config' = cfg
  /\ UNCHANGED <<gui, file, runVars, kept, launches>>

(* stop: without a Notify, the press is remembered by the state.            *)
StopClicked ==
  /\ gui.state \in {"Running", "Starting"}
  /\ task' = IF gui.shutdown = 0 THEN task ELSE NotifyWaiters(gui.shutdown, task)
  /\ gui' = [gui EXCEPT !.state = "Stopping"]
  /\ UNCHANGED <<config, file, starter, chan, kept, launches>>

(* Mutant: the press of Stop before the run was started is forgotten.       *)
PollStartedForgets(r) ==
  /\ gui.rx = r /\ chan[r] # <<>> /\ Head(chan[r]) = "Started"
  /\ chan' = [chan EXCEPT ![r] = Tail(@)]
  /\ gui' = [gui EXCEPT !.shutdown = r]
  /\ UNCHANGED <<config, file, starter, task, kept, launches>>

(* poll, one message of the channel it holds.                               *)
PollStarted(r) ==
  /\ gui.rx = r /\ chan[r] # <<>> /\ Head(chan[r]) = "Started"
  /\ chan' = [chan EXCEPT ![r] = Tail(@)]
  /\ IF gui.state = "Stopping"
     THEN /\ gui' = [gui EXCEPT !.shutdown = r]
          /\ task' = NotifyWaiters(r, task)
     ELSE /\ gui' = [gui EXCEPT !.shutdown = r, !.state = "Running"]
          /\ UNCHANGED task
  /\ UNCHANGED <<config, file, starter, kept, launches>>

PollOver(r) ==
  /\ gui.rx = r /\ chan[r] # <<>> /\ Head(chan[r]) \in {"Stopped", "Error"}
  /\ chan' = [chan EXCEPT ![r] = Tail(@)]
  /\ gui' = [state |-> "Stopped", rx |-> 0, shutdown |-> 0]
  /\ UNCHANGED <<config, file, starter, task, kept, launches>>

(* The end of the process takes every task and every port with it: after a  *)
(* Drop, or a crash.                                                        *)
Exit ==
  /\ gui.state # "Closed"
  /\ gui' = NoWindow
  /\ starter' = [r \in Run |-> IF starter[r] = "idle" THEN "idle" ELSE "done"]
  /\ task' = [r \in Run |-> [k \in Task |-> NoTask]]
  /\ chan' = [r \in Run |-> <<>>]
  /\ config' = FromCli(Cli)
  /\ UNCHANGED <<file, kept, launches>>

-----------------------------------------------------------------------------
(* run_gateway, in the task of run r: certificate, then the web server, then*)
(* the gateway, the health server and the ingester, then the run task.      *)
Spawned(r, kinds) ==
  task' = [task EXCEPT ![r] = [k \in Task |-> IF k \in kinds THEN [NoTask EXCEPT !.at = "spawned"]
                                              ELSE task[r][k]]]
CertReady(r) ==
  /\ starter[r] = "setup"
  /\ Spawned(r, Service \cap {"web"})
  /\ starter' = [starter EXCEPT ![r] = "building"]
  /\ UNCHANGED <<gui, config, file, chan, kept, launches>>
GatewayReady(r) ==
  /\ starter[r] = "building"
  /\ Spawned(r, Task \ {"web"})
  /\ Send(r, "Started")
  /\ starter' = [starter EXCEPT ![r] = "awaiting"]
  /\ UNCHANGED <<gui, config, file, kept, launches>>

(* A setup that fails reports; it tells nobody of the run to stop.          *)
SetupFails(r) ==
  /\ starter[r] \in {"setup", "building"} /\ ~Headless
  /\ Send(r, "Error")
  /\ starter' = [starter EXCEPT ![r] = "done"]
  /\ UNCHANGED <<gui, config, file, task, kept, launches>>

(* The run task is over: the others are told only if it failed.             *)
RunOver(r) ==
  /\ starter[r] = "awaiting" /\ task[r]["run"].at \in {"ended", "failed"} /\ ~Headless
  /\ IF task[r]["run"].at = "failed"
     THEN task' = NotifyWaiters(r, task) /\ starter' = [starter EXCEPT ![r] = "failing"]
     ELSE UNCHANGED task /\ starter' = [starter EXCEPT ![r] = "stopping"]
  /\ UNCHANGED <<gui, config, file, chan, kept, launches>>

(* After a second of sleep.                                                 *)
Report(r) ==
  /\ starter[r] \in {"stopping", "failing"}
  /\ Send(r, IF starter[r] = "failing" THEN "Error" ELSE "Stopped")
  /\ starter' = [starter EXCEPT ![r] = "done"]
  /\ UNCHANGED <<gui, config, file, task, kept, launches>>

(* Without a window, the process ends with a failed setup or with its run.  *)
HeadlessOver(r) ==
  /\ Headless
  /\ \/ starter[r] \in {"setup", "building"}
     \/ starter[r] = "awaiting" /\ task[r]["run"].at \in {"ended", "failed"}
  /\ Exit

-----------------------------------------------------------------------------
(* The tasks.  The run task and the watcher of the web server take their    *)
(* Notified before they bind, the health server and the SRT listener after. *)
Step(r, k, next) ==
  /\ task' = [task EXCEPT ![r][k] = next]
  /\ UNCHANGED <<gui, config, file, starter, chan, kept, launches>>

TakesNotified(r, k) ==
  /\ task[r][k].at \in (CASE k = "run" -> {"spawned"} [] k = "web" -> {"spawned", "serving"}
                          [] OTHER -> {"serving"})
  /\ ~task[r][k].waits /\ ~task[r][k].told
  /\ Step(r, k, [task[r][k] EXCEPT !.waits = TRUE])

PortFree(k) == \A r \in Run : ~Serving(r, k)
MayBind(r, k) ==
  /\ task[r][k].at = "spawned"
  /\ k = "run" => task[r][k].waits \/ task[r][k].told
Binds(r, k) ==
  /\ MayBind(r, k) /\ PortFree(k)
  /\ Step(r, k, [task[r][k] EXCEPT !.at = "serving"])

(* The port is taken, by an earlier run or by another program.              *)
BindFails(r, k) ==
  /\ MayBind(r, k)
  /\ Step(r, k, [NoTask EXCEPT !.at = IF k = "run" THEN "failed" ELSE "ended"])

(* SRT: a handshake is awaited with no Notified held; a new one after it.   *)
Accepting(r) ==
  /\ task[r]["srt"].at = "serving" /\ task[r]["srt"].waits
  /\ Step(r, "srt", [task[r]["srt"] EXCEPT !.at = "accepting", !.waits = FALSE])
Accepted(r) ==
  /\ task[r]["srt"].at = "accepting"
  /\ Step(r, "srt", [task[r]["srt"] EXCEPT !.at = "serving"])

Ends(r, k) ==
  /\ task[r][k].told /\ Serving(r, k)
  /\ Step(r, k, [NoTask EXCEPT !.at = "ended"])

TaskNext(r, k) ==
  \/ TakesNotified(r, k) \/ Binds(r, k) \/ BindFails(r, k) \/ Ends(r, k)
  \/ k = "srt" /\ (Accepting(r) \/ Accepted(r))

StarterNext(r) ==
  \/ CertReady(r) \/ GatewayReady(r) \/ SetupFails(r) \/ RunOver(r) \/ Report(r)
  \/ HeadlessOver(r)

AppNext ==
  \/ StopClicked \/ Exit
  \/ \E cfg \in Config : Edit(cfg)
  \/ \E r \in Run : LaunchHeadless(r) \/ CtrlC(r)
  \/ \E r \in Run : Launch(r) \/ StartClicked(r) \/ PollStarted(r) \/ PollOver(r) \/ StarterNext(r)
  \/ \E r \in Run, k \in Task : TaskNext(r, k)

(* The tasks run; the window is drawn again while it is not Stopped; a      *)
(* handshake ends.                                                          *)
AppFairness ==
  \A r \in Run :
    /\ WF_appVars(PollStarted(r)) /\ WF_appVars(PollOver(r)) /\ WF_appVars(StarterNext(r))
    /\ \A k \in Task : WF_appVars(TakesNotified(r, k)) /\ WF_appVars(Binds(r, k) \/ BindFails(r, k))
                       /\ WF_appVars(Ends(r, k))
    /\ "srt" \in Service => WF_appVars(Accepted(r))

AppSpec == AppInit /\ [][AppNext]_appVars /\ AppFairness

-----------------------------------------------------------------------------
AppTypeOK ==
  /\ gui \in [state : {"Closed", "Stopped", "Starting", "Running", "Stopping",
                        "Headless", "Interrupted"},
              rx : {0} \cup Run, shutdown : {0} \cup Run]
  /\ config \in Config
  /\ file \in [form : Form, state : {"absent", "whole", "corrupt"}]
  /\ starter \in [Run -> {"idle", "setup", "building", "awaiting", "stopping", "failing", "done"}]
  /\ task \in [Run -> [Task -> [at : {"none", "spawned", "serving", "accepting", "ended", "failed"},
                                waits : BOOLEAN, told : BOOLEAN]]]
  /\ kept \in [form : Form, save : {"none", "whole", "torn"}]
  /\ launches \in 0..MaxLaunches

(* However Stop, Start, failures and the delays of the tasks fall, the run  *)
(* task of one run is over before another one binds the port of the viewers,*)
(* and the handle behind Stop is that of the run the window shows           *)
(* (gui.rs:253-344).                                                        *)
OneRunAtATime ==
  /\ \A r, s \in Run : r # s => Over(r, "run") \/ Over(s, "run")
  /\ gui.shutdown \in {0, gui.rx}
  /\ gui.state = "Running" => gui.shutdown # 0
  /\ gui.state = "Stopped" => \A r \in Run : Over(r, "run")

(* A run that is told to stop, fails in its setup or fails later gives the  *)
(* window back: its channel is let go, and Start is enabled again; so does  *)
(* one that was stopped before the window knew of its Notify, if the run    *)
(* task waits by then.  Without a window, it is the process that ends       *)
(* (gui.rs:265-288, 317-335, main.rs:271-274).                              *)
RunGivenUp(r) ==
  \/ task[r]["run"].told \/ task[r]["run"].at = "failed" \/ starter[r] = "done"
  \/ gui.state = "Stopping" /\ gui.shutdown = 0 /\ task[r]["run"].waits
Held(r) == gui.rx = r \/ (Headless /\ starter[r] \notin {"idle", "done"})
RunEndIsSeen == \A r \in Run : (Held(r) /\ RunGivenUp(r)) ~> ~Held(r)

(* A window opened again runs with what the last run whose configuration was*)
(* written ran with, whether the window was closed or crashed and whatever  *)
(* ran without a window in between: not with an edit that no run followed,  *)
(* and only after a refused save with less than the last run.  When that    *)
(* write was torn, or there was none, it runs with the command line.  The   *)
(* secrets were not kept: with a file there are none (gui.rs:55-62, 95-126, *)
(* 242-254).                                                                *)
RestartKeepsConfig ==
  [][(gui.state = "Closed" /\ gui'.state = "Starting") =>
       config' = IF kept.save = "whole" THEN [form |-> kept.form, secret |-> NoSecret]
                 ELSE FromCli(Cli)]_appVars

(* A window, when it is opened, starts what the command line asks for.      *)
CommandLineCounts ==
  [][(gui.state = "Closed" /\ gui'.state = "Starting") =>
       ToCli(config') = Cli]_appVars

(* What was told to stop, by the window or by Ctrl-C, ends.                 *)
StopStops ==
  gui.state \in {"Stopping", "Interrupted"} ~> gui.state \notin {"Stopping", "Interrupted"}

(* Once the window shows Stopped, the services of the runs so far end.      *)
ServicesEnd == \A r \in Run, k \in Service : (gui.state = "Stopped" /\ Serving(r, k)) ~> Over(r, k)
=============================================================================
