------------------------------- MODULE System -------------------------------
(***************************************************************************)
(* The build machine of HostBuild and the phone of Device, recipe by       *)
(* recipe: the steps of install-to-device that HostBuild takes in one are  *)
(* the phone's.  The variables of Installer show what module Build sees of *)
(* the build machine.                                                      *)
(***************************************************************************)
EXTENDS HostBuild, Installer

\* Whatever ends a line of the recipe ends make.
ASSUME SystemAssumption == "install-to-device" \in Flaky

svars == <<vars, ivars>>

\* What Build's variables show.
View == stage = Stage /\ out = Out /\ excused = Excused /\ made = result
ShowView == /\ stage' = Stage' /\ out' = Out'
            /\ excused' = Excused' /\ made' = result'

SInit == Init /\ PhoneInit /\ View /\ recipe = "no" /\ blame = FALSE

\* Mutant: a signal ends make, and its adb goes on.
SignalAtHost == /\ User \/ \E s \in Signals : Signal(s)
                /\ recipe' = IF Idle /\ ~Idle' THEN "no" ELSE recipe
                /\ UNCHANGED <<dvars, blame>> /\ ShowView

\* All of make but the recipe of install-to-device; a signal that arrives in
\* that recipe is Interrupt.
HostSide ==
    /\ \/ \E t \in Target : NoRule(t) \/ Visit(t)
       \/ Local \/ MakeExit
    /\ UNCHANGED <<dvars, recipe, blame>> /\ ShowView
AtHost == /\ User \/ (recipe # "busy" /\ \E s \in Signals : Signal(s))
          /\ recipe' = IF Idle /\ ~Idle' THEN "no" ELSE recipe
          /\ UNCHANGED <<dvars, blame>> /\ ShowView

\* make runs the first line of install-to-device.
Reach == /\ pc["install-to-device"] = "run" /\ recipe = "no" /\ recipe' = "busy"
         /\ StartInstall /\ UNCHANGED <<vars, blame>> /\ ShowView

\* Mutant: the lines of the recipe begin with `-'.
ReturnAnyway == IF line # "idle" /\ line' = "idle"
                THEN /\ Install /\ recipe' = ending'
                     /\ pc'["install-to-device"] = "done"
                ELSE UNCHANGED <<vars, recipe>>

\* make goes on when the recipe ends, and as it ends.
Return == IF line # "idle" /\ line' = "idle"
          THEN /\ Install /\ recipe' = ending'
               /\ pc'["install-to-device"] = IF ending' = "ok" THEN "done" ELSE "failed"
          ELSE UNCHANGED <<vars, recipe>>

\* The lines of the recipe.
PushLine == Push(Out) /\ Return /\ blame' = (blame \/ Excused) /\ ShowView
ShellLine == /\ AdbReturn \/ Remove \/ Script("fg")
             /\ Return /\ UNCHANGED blame /\ ShowView

\* What happens to the phone meanwhile.
AtPhone == /\ \/ Script("bg") \/ Reap \/ StartShell
              \/ Disconnect \/ Restart \/ BootRecovery \/ Unmount \/ Delete
           /\ Return /\ UNCHANGED blame /\ ShowView
FormatCard == Format /\ UNCHANGED <<vars, recipe>> /\ blame' = FALSE /\ ShowView

\* A signal to make in that recipe also ends its adb, and the phone sees a
\* connection that is lost.
Interrupt(s) ==
    /\ recipe = "busy" /\ Signal(s) /\ StopInstall("fail") /\ recipe' = "fail"
    /\ \/ Push(Out) /\ blame' = (blame \/ Excused)
       \/ (Remove \/ Disconnect) /\ UNCHANGED blame
    /\ ShowView

SNext == \/ HostSide \/ AtHost \/ Reach \/ PushLine \/ ShellLine
         \/ AtPhone \/ FormatCard \/ \E s \in Signals : Interrupt(s)

SSpec == SInit /\ [][SNext]_svars

\* make and its recipes go on; what adb runs on the phone comes to an end.
SFairSpec == SSpec /\ WF_svars(HostSide \/ PushLine \/ ShellLine)
-----------------------------------------------------------------------------
\* The build machine and the phone together do what Installer says of a build
\* machine that is only as good as module Build promises, with any -j.
Composed == ISpec
=============================================================================
