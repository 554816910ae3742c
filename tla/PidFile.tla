------------------------------ MODULE PidFile -------------------------------
(***************************************************************************)
(* The pid file: handlePidFile (cmd/cfddns/main.go), between the start of  *)
(* a process and its main loop.                                            *)
(*                                                                         *)
(* The removal of the file is deferred in handlePidFile itself, so that it *)
(* happens when handlePidFile returns, before the main loop is entered.    *)
(***************************************************************************)
CONSTANTS
  Procs,   \* processes configured with the same pid file
  NoFile

ASSUME PidFileAssumption == NoFile \notin Procs

VARIABLES
  file,    \* whose pid the file holds, NoFile if there is none
  pc,      \* where in main each process is
  catcher, \* the goroutine waiting for the interrupt
  mishap   \* whether a process ever died, or failed to write, and left its
           \* file behind (history only: no guard reads it)

vars == <<file, pc, catcher, mishap>>

(* Between its writing the file and its removing it. *)
Window == {"notify", "clean"}

TypeOK ==
  /\ file \in Procs \cup {NoFile}
  /\ pc \in [Procs -> {"off", "check", "write", "notify", "clean", "run"}]
  /\ catcher \in [Procs -> {"none", "armed", "cleaning", "exit"}]
  /\ mishap \in BOOLEAN

Init ==
  /\ file = NoFile
  /\ pc = [p \in Procs |-> "off"]
  /\ catcher = [p \in Procs |-> "none"]
  /\ mishap = FALSE

Goto(p, label) == pc' = [pc EXCEPT ![p] = label]

Exit(p) ==
  /\ Goto(p, "off")
  /\ catcher' = [catcher EXCEPT ![p] = "none"]
  /\ UNCHANGED <<file, mishap>>

(* main sets up everything else and calls handlePidFile. *)
Start(p) ==
  /\ pc[p] = "off"
  /\ Goto(p, "check")
  /\ UNCHANGED <<file, catcher, mishap>>

(* Mutant of CheckFile: the result of os.ReadFile is not looked at. *)
CheckNothing(p) ==
  /\ pc[p] = "check"
  /\ Goto(p, "write")
  /\ UNCHANGED <<file, catcher, mishap>>

(* os.ReadFile reports that there is no such file. *)
CheckFile(p) ==
  /\ pc[p] = "check"
  /\ file = NoFile
  /\ Goto(p, "write")
  /\ UNCHANGED <<file, catcher, mishap>>

(* "cfddns with pidfile already running" *)
Refuse(p) ==
  /\ pc[p] = "check"
  /\ file # NoFile
  /\ Exit(p)

(* os.WriteFile, which creates the file or overwrites one that has         *)
(* appeared in the meantime, or fails: to open it, or only to fill it.     *)
WriteFile(p) ==
  /\ pc[p] = "write"
  /\ \/ /\ file' = p
        /\ Goto(p, "notify")
        /\ UNCHANGED <<catcher, mishap>>
     \/ Exit(p)
     \/ /\ file' = p
        /\ Goto(p, "off")
        /\ mishap' = TRUE
        /\ catcher' = catcher

(* signal.Notify, and the goroutine is started. *)
Notify(p) ==
  /\ pc[p] = "notify"
  /\ Goto(p, "clean")
  /\ catcher' = [catcher EXCEPT ![p] = "armed"]
  /\ UNCHANGED <<file, mishap>>

(* Mutants of DeferredClean: the file is not removed, or only emptied. *)
CleanNothing(p) ==
  /\ pc[p] = "clean"
  /\ Goto(p, "run")
  /\ UNCHANGED <<file, catcher, mishap>>

CleanByTruncating(p) ==
  /\ pc[p] = "clean"
  /\ file' = "empty"
  /\ Goto(p, "run")
  /\ UNCHANGED <<catcher, mishap>>

(* The deferred clean: os.Remove, of whatever file there is. *)
DeferredClean(p) ==
  /\ pc[p] = "clean"
  /\ file' = NoFile
  /\ Goto(p, "run")
  /\ UNCHANGED <<catcher, mishap>>

(* main breaks out of its loop and returns. *)
Finish(p) ==
  /\ pc[p] = "run"
  /\ Exit(p)

(* An interrupt once it is caught. *)
Interrupt(p) ==
  /\ catcher[p] = "armed"
  /\ catcher' = [catcher EXCEPT ![p] = "cleaning"]
  /\ UNCHANGED <<file, pc, mishap>>

CatcherClean(p) ==
  /\ catcher[p] = "cleaning"
  /\ file' = NoFile
  /\ catcher' = [catcher EXCEPT ![p] = "exit"]
  /\ UNCHANGED <<pc, mishap>>

(* os.Exit, wherever main is by then. *)
CatcherExit(p) ==
  /\ catcher[p] = "exit"
  /\ Exit(p)

(* The process dies: killed, by an interrupt before it is caught, or       *)
(* because initialisation fails.                                           *)
Kill(p) ==
  /\ pc[p] # "off"
  /\ Goto(p, "off")
  /\ catcher' = [catcher EXCEPT ![p] = "none"]
  /\ mishap' = (mishap \/ pc[p] \in Window)
  /\ file' = file

Next ==
  \E p \in Procs :
     \/ Start(p) \/ CheckFile(p) \/ Refuse(p) \/ WriteFile(p) \/ Notify(p)
     \/ DeferredClean(p) \/ Finish(p)
     \/ Interrupt(p) \/ CatcherClean(p) \/ CatcherExit(p)
     \/ Kill(p)

Spec == Init /\ [][Next]_vars

(* The file that is there is that of a process about to remove it.  So     *)
(* nothing is left behind that keeps the program from ever starting again, *)
(* however the starts, the deferred removal, and the interrupts of several *)
(* processes are interleaved, unless there was a mishap between the two.   *)
NoStaleFile ==
  file # NoFile /\ ~mishap => pc[file] \in Window /\ catcher[file] # "exit"

(* Nobody is left who is going to remove the file. *)
Stale == file # NoFile /\ \A p \in Procs : pc[p] \in {"off", "check"}

(* A file that was left behind is never removed by the program: from then  *)
(* on, no process gets past the check, until somebody removes the file.    *)
StaleStays == [][Stale => Stale' /\ file' = file]_vars

(* main.go:98: "cfddns with pidfile already running".  So where a pid file *)
(* is configured there are not two processes running.                      *)
AtMostOneRunning ==
  \A p, q \in Procs : pc[p] = "run" /\ pc[q] = "run" => p = q
=============================================================================
