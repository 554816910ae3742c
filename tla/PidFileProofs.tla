--------------------------- MODULE PidFileProofs ----------------------------
(* Proofs about PidFile, for any number of processes. *)
EXTENDS PidFile, TLAPS

(* Every variable of the pid file protocol keeps the type that main.go     *)
(* gives it, whatever the processes do.                                    *)
THEOREM TypeCorrect == Spec => []TypeOK
<1>1. Init => TypeOK
  BY DEF Init, TypeOK
<1>2. TypeOK /\ [Next]_vars => TypeOK'
  <2> SUFFICES ASSUME TypeOK, [Next]_vars PROVE TypeOK'
    OBVIOUS
  <2>1. CASE UNCHANGED vars
    BY <2>1 DEF TypeOK, vars
  <2>2. ASSUME NEW p \in Procs,
               Start(p) \/ CheckFile(p) \/ Refuse(p) \/ WriteFile(p) \/ Notify(p)
        PROVE  TypeOK'
    BY <2>2 DEF TypeOK, Start, CheckFile, Refuse, WriteFile, Notify, Goto, Exit
  <2>3. ASSUME NEW p \in Procs,
               \/ DeferredClean(p) \/ Finish(p) \/ Interrupt(p)
               \/ CatcherClean(p) \/ CatcherExit(p) \/ Kill(p)
        PROVE  TypeOK'
    BY <2>3 DEF TypeOK, DeferredClean, Finish, Interrupt, CatcherClean, CatcherExit,
                Kill, Goto, Exit
  <2> QED
    BY <2>1, <2>2, <2>3 DEF Next
<1> QED
  BY <1>1, <1>2, PTL DEF Spec

(* A process that has not yet reached signal.Notify has no goroutine that  *)
(* could remove the file once the process has written it.                  *)
NotYetArmed ==
  \A p \in Procs : pc[p] \in {"off", "check", "write", "notify"} => catcher[p] = "none"

IInv == TypeOK /\ NotYetArmed /\ NoStaleFile

(* Without mishaps the pid file that is found always belongs to a process  *)
(* that is between writing it and removing it: the sequence of write,      *)
(* deferred clean, caught interrupt and exit in handlePidFile never leaves *)
(* a file behind.                                                          *)
THEOREM NeverStale == Spec => []NoStaleFile
<1>1. Init => IInv
  BY DEF Init, IInv, TypeOK, NotYetArmed, NoStaleFile
<1>2. IInv /\ [Next]_vars => IInv'
  <2> SUFFICES ASSUME IInv, [Next]_vars PROVE IInv'
    OBVIOUS
  <2> USE DEF IInv, TypeOK, NotYetArmed, NoStaleFile, Window, Goto, Exit
  <2>1. CASE UNCHANGED vars
    BY <2>1 DEF vars
  <2>2. ASSUME NEW p \in Procs PROVE Start(p) => IInv'
    BY DEF Start
  <2>3. ASSUME NEW p \in Procs PROVE CheckFile(p) => IInv'
    BY DEF CheckFile
  <2>4. ASSUME NEW p \in Procs PROVE Refuse(p) => IInv'
    BY DEF Refuse
  <2>5. ASSUME NEW p \in Procs, WriteFile(p) PROVE IInv'
    <3>1. pc[p] = "write" /\ catcher[p] = "none" /\ p # NoFile
      BY <2>5, PidFileAssumption DEF WriteFile
    <3>2. CASE Exit(p)
      BY <3>1, <3>2
    <3>3. CASE file' = p /\ Goto(p, "notify") /\ UNCHANGED <<catcher, mishap>>
      BY <3>1, <3>3
    <3>4. CASE file' = p /\ Goto(p, "off") /\ mishap' = TRUE /\ catcher' = catcher
      BY <3>1, <3>4
    <3> QED
      BY <2>5, <3>2, <3>3, <3>4 DEF WriteFile
  <2>6. ASSUME NEW p \in Procs PROVE Notify(p) => IInv'
    BY DEF Notify
  <2>7. ASSUME NEW p \in Procs PROVE DeferredClean(p) => IInv'
    BY DEF DeferredClean
  <2>8. ASSUME NEW p \in Procs PROVE Finish(p) => IInv'
    BY DEF Finish
  <2>9. ASSUME NEW p \in Procs PROVE Interrupt(p) => IInv'
    BY DEF Interrupt
  <2>10. ASSUME NEW p \in Procs PROVE CatcherClean(p) => IInv'
    BY DEF CatcherClean
  <2>11. ASSUME NEW p \in Procs PROVE CatcherExit(p) => IInv'
    BY DEF CatcherExit
  <2>12. ASSUME NEW p \in Procs, Kill(p) PROVE IInv'
    <3>1. TypeOK' /\ NotYetArmed'
      BY <2>12 DEF Kill
    <3>2. NoStaleFile'
      BY <2>12 DEF Kill
    <3> QED
      BY <3>1, <3>2
  <2> QED
    BY <2>1, <2>2, <2>3, <2>4, <2>5, <2>6, <2>7, <2>8, <2>9, <2>10, <2>11, <2>12 DEF Next
<1>3. IInv => NoStaleFile
  BY DEF IInv
<1> QED
  BY <1>1, <1>2, <1>3, PTL DEF Spec

(* Once nobody is left to remove the pid file, mishaps or not, the program *)
(* leaves it where it is: no process gets past the check of handlePidFile. *)
THEOREM LeftBehind == Spec => StaleStays
<1> DEFINE I == TypeOK /\ NotYetArmed
<1>1. Init => I
  BY DEF Init, TypeOK, NotYetArmed
<1>2. TypeOK /\ NotYetArmed /\ [Next]_vars => NotYetArmed'
  BY DEF TypeOK, NotYetArmed, Next, vars, Start, CheckFile, Refuse, WriteFile, Notify,
         DeferredClean, Finish, Interrupt, CatcherClean, CatcherExit, Kill, Goto, Exit
<1>3. TypeOK /\ NotYetArmed /\ [Next]_vars => [Stale => Stale' /\ file' = file]_vars
  <2> SUFFICES ASSUME TypeOK, NotYetArmed, [Next]_vars, Stale
               PROVE  (Stale' /\ file' = file) \/ UNCHANGED vars
    OBVIOUS
  <2>1. \A p \in Procs : pc[p] \in {"off", "check"} /\ catcher[p] = "none"
    BY DEF Stale, NotYetArmed
  <2>2. ASSUME NEW p \in Procs, Start(p) \/ Refuse(p) \/ Kill(p)
        PROVE  Stale' /\ file' = file
    BY <2>2 DEF TypeOK, Stale, Start, Refuse, Kill, Goto, Exit
  <2>3. ASSUME NEW p \in Procs
        PROVE  /\ ~CheckFile(p) /\ ~WriteFile(p) /\ ~Notify(p) /\ ~DeferredClean(p)
               /\ ~Finish(p) /\ ~Interrupt(p) /\ ~CatcherClean(p) /\ ~CatcherExit(p)
    BY <2>1 DEF Stale, CheckFile, WriteFile, Notify, DeferredClean, Finish, Interrupt,
                CatcherClean, CatcherExit
  <2> QED
    BY <2>2, <2>3 DEF Next
<1> QED
  BY <1>1, <1>2, <1>3, TypeCorrect, PTL DEF Spec, StaleStays
=============================================================================
