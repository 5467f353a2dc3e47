--------------------------- MODULE PxebootProofs ---------------------------
(***************************************************************************)
(* What holds of a run of pxeboot.py for any DPU, any --dpu-dev and any    *)
(* number of tries.                                                        *)
(***************************************************************************)
EXTENDS Pxeboot, SequenceTheorems, TLAPS

USE MacsAssumption, RandomAssumption, MenusAssumption, ParametersAssumption

Inv == TypeOK /\ RunInv

\* --dpu-dev stands for an interface of the menu, an address, or nothing.
LEMMA ChosenType ==
  ASSUME cfg \in Config, NEW macs \in Seq(Macs), macs # <<>>
  PROVE  Chosen(macs) \in Macs \cup {NoMac}
<1>1. Len(macs) \in Nat \ {0} /\ \A i \in 1..Len(macs) : macs[i] \in Macs
  BY EmptySeq, ElementOfSeq
<1>2. cfg.index \in Nat /\ cfg.dpu_dev \in {"primary", "secondary", "index"} \cup Macs
  BY DEF Config
<1>3. macs[1] \in Macs /\ macs[Len(macs)] \in Macs
  BY <1>1
<1>4. cfg.index < Len(macs) => macs[cfg.index + 1] \in Macs
  BY <1>1, <1>2
<1>5. QED
  BY <1>2, <1>3, <1>4 DEF Chosen

LEMMA InitInv == Init => Inv
<1> SUFFICES ASSUME Init PROVE Inv
  OBVIOUS
<1>1. ctx \in RunContext
  <2>1. <<>> \in Seq(Macs)
    BY EmptySeq
  <2>2. QED
    BY <2>1 DEF Init, RunContext
<1>2. TypeOK
  <2>1. cfg \in Config /\ try_count \in 0..MaxTry
    BY DEF Init
  <2>2. QED
    BY <1>1, <2>1 DEF Init, TypeOK, Points
<1>3. ConsoleInv
  BY DEF Init, ConsoleInv, SerialScope, InSerialContext
<1>4. MacInv /\ DhcpInv /\ TryInv /\ PromptInv /\ FaultInv
  BY DEF Init, MacInv, DhcpInv, TryInv, InSetup, InTry, Detecting, PromptInv, FaultInv,
         BeforePrompt
<1>5. QED
  BY <1>2, <1>3, <1>4 DEF Inv, RunInv

\* What the run context may be set to.
LEMMA ContextUpdates ==
  ASSUME NEW c \in RunContext
  PROVE  /\ \A s \in {"none", "open", "released"} : [c EXCEPT !.serial = s] \in RunContext
         /\ \A b \in BOOLEAN : [c EXCEPT !.before_prompt = b] \in RunContext
         /\ \A m \in Macs \cup {NoMac} : [c EXCEPT !.dpu_mac = m] \in RunContext
         /\ \A ms \in Seq(Macs) : [c EXCEPT !.dpu_macs = ms] \in RunContext
         /\ c.serial \in {"none", "open", "released"} /\ c.dpu_mac \in Macs \cup {NoMac}
BY DEF RunContext

\* Configuration and menu are what they were when the run started.
LEMMA ConstantsStay ==
  ASSUME [Next]_vars
  PROVE  cfg' = cfg /\ menu_macs' = menu_macs /\ Chosen(menu_macs)' = Chosen(menu_macs)
<1>1. cfg' = cfg /\ menu_macs' = menu_macs
  BY DEF Next, Program, Setup, Detection, Boot, Exit, PrepareHost, DhcpRestrictedGiven,
     DhcpRestrictedAuto,
         DhcpRestrictedDetected, Lease, StartDhcpd, StartTftp, SetupHttpFiles, StartHttpd,
         CheckServicesRunning, ServiceMissing, MacKnown, MacUnknown, MacsKnown,
         SerialGetRaises,
         EnterBootMenu, DetectMacs, PickMac, NoSuchIndex, StartTry, OpenSerial,
         EnterUnlessInBootMenu, SelectEntry, HostIsBooted, Unwind, Retry, RaiseOut,
         PostPxeboot, Cleanup, ExternalFailure, Prompt, ReleaseConsole, Interrupt,
         ServiceDies, vars, dpuVars
<1>2. QED
  BY <1>1 DEF Chosen

\* One step per action; what each of them disturbs is in its DEF clause.
LEMMA TypeStep ==
  ASSUME Inv, [Next]_vars
  PROVE  TypeOK'
<1> USE DEF Inv, TypeOK, Points, macVars, svcVars, dpuVars
<1>1. CASE PrepareHost
  BY <1>1 DEF PrepareHost
<1>2. CASE DhcpRestrictedGiven
  BY <1>2 DEF DhcpRestrictedGiven, RunContext, Config
<1>3. CASE DhcpRestrictedAuto
  BY <1>3 DEF DhcpRestrictedAuto
<1>4. CASE DhcpRestrictedDetected
  BY <1>4 DEF DhcpRestrictedDetected, RunContext
<1>5. CASE Lease
  BY <1>5 DEF Lease
<1>6. CASE StartDhcpd
  BY <1>6 DEF StartDhcpd, Services
<1>7. CASE StartTftp
  BY <1>7 DEF StartTftp, Services
<1>8. CASE SetupHttpFiles
  BY <1>8 DEF SetupHttpFiles
<1>9. CASE StartHttpd
  BY <1>9 DEF StartHttpd, Services
<1>10. CASE CheckServicesRunning
  <2>1. ctx' \in RunContext
    BY <1>10, ContextUpdates DEF CheckServicesRunning
  <2>2. QED
    BY <1>10, <2>1 DEF CheckServicesRunning
<1>11. CASE MacKnown
  <2>1. dpu_mac' \in Macs
    BY <1>11 DEF MacKnown, FieldGet, RunContext
  <2>2. ctx' \in RunContext
    <3>1. [ctx EXCEPT !.dpu_mac = dpu_mac'] \in RunContext
      BY <2>1, ContextUpdates
    <3>2. QED
      BY <1>11, <3>1 DEF MacKnown, FieldGet
  <2>3. QED
    BY <1>11, <2>1, <2>2 DEF MacKnown, FieldGet
<1>12. CASE MacUnknown
  BY <1>12 DEF MacUnknown, Raise, SerialCreate, RunContext
<1>13. CASE MacsKnown
  <2>1. ctx' \in RunContext
    BY <1>13, ContextUpdates DEF MacsKnown, MacsReturn
  <2>2. QED
    BY <1>13, <2>1 DEF MacsKnown, MacsReturn
<1>14. CASE SerialGetRaises
  BY <1>14 DEF SerialGetRaises, Raise
<1>15. CASE EnterBootMenu
  BY <1>15 DEF EnterBootMenu, EntersMenu
<1>16. CASE DetectMacs
  <2>1. [ctx EXCEPT !.dpu_macs = menu_macs] \in RunContext
    BY <1>16, ContextUpdates DEF DetectMacs
  <2>2. ctx' \in RunContext
    BY <1>16, <2>1, ContextUpdates DEF DetectMacs, MacsReturn
  <2>3. QED
    BY <1>16, <2>2 DEF DetectMacs, MacsReturn
<1>17. CASE PickMac
  <2>1. ctx.dpu_macs \in Seq(Macs) \ {<<>>}
    BY <1>17 DEF PickMac, FieldGet, RunInv, MacInv
  <2>2. dpu_mac' \in Macs
    BY <1>17, <2>1, ChosenType DEF PickMac, FieldGet
  <2>3. ctx' \in RunContext
    <3>1. [ctx EXCEPT !.dpu_mac = dpu_mac'] \in RunContext
      BY <2>2, ContextUpdates
    <3>2. QED
      BY <1>17, <3>1 DEF PickMac, FieldGet
  <2>4. QED
    BY <1>17, <2>2, <2>3 DEF PickMac, FieldGet
<1>18. CASE NoSuchIndex
  BY <1>18 DEF NoSuchIndex, Raise
<1>19. CASE StartTry
  <2>1. try_count' \in 0..MaxTry
    BY <1>19 DEF StartTry, RunInv, TryInv
  <2>2. QED
    BY <1>19, <2>1 DEF StartTry
<1>20. CASE OpenSerial
  BY <1>20 DEF OpenSerial, Raise, SerialCreate, RunContext
<1>21. CASE EnterUnlessInBootMenu
  BY <1>21 DEF EnterUnlessInBootMenu
<1>22. CASE SelectEntry
  BY <1>22 DEF SelectEntry, PressEnter
<1>23. CASE HostIsBooted
  BY <1>23 DEF HostIsBooted, RunContext
<1>24. CASE Unwind
  BY <1>24 DEF Unwind, RunContext
<1>25. CASE Retry
  BY <1>25 DEF Retry
<1>26. CASE RaiseOut
  BY <1>26 DEF RaiseOut
<1>27. CASE PostPxeboot
  BY <1>27 DEF PostPxeboot
<1>28. CASE Cleanup
  BY <1>28 DEF Cleanup
<1>29. CASE ExternalFailure
  BY <1>29 DEF ExternalFailure, LeftBehind, EntersMenu, PressEnter, Raise
<1>30. CASE Prompt
  <2>1. ctx' \in RunContext
    BY <1>30, ContextUpdates DEF Prompt
  <2>2. QED
    BY <1>30, <2>1 DEF Prompt
<1>31. CASE ReleaseConsole
  BY <1>31 DEF ReleaseConsole, RunContext
<1>32. CASE Interrupt
  BY <1>32 DEF Interrupt, LeftBehind, EntersMenu, PressEnter, Raise
<1>33. CASE ServiceDies
  BY <1>33 DEF ServiceDies
<1>34. CASE ServiceMissing
  BY <1>34 DEF ServiceMissing, Raise
<1>35. CASE UNCHANGED vars
  BY <1>35 DEF vars
<1>36. QED
  BY <1>1, <1>2, <1>3, <1>4, <1>5, <1>6, <1>7, <1>8, <1>9, <1>10, <1>11, <1>12, <1>13,
     <1>14, <1>15, <1>16, <1>17, <1>18, <1>19, <1>20, <1>21, <1>22, <1>23, <1>24, <1>25,
     <1>26, <1>27, <1>28, <1>29, <1>30, <1>31, <1>32, <1>33, <1>34, <1>35
     DEF Next, Program, Setup, Detection, Boot, Exit





-----------------------------------------------------------------------------
\* The console is opened and closed with the scopes it belongs to.
LEMMA ConsoleStep ==
  ASSUME Inv, [Next]_vars
  PROVE  ConsoleInv'
<1> USE DEF Inv, RunInv, TypeOK, RunContext, macVars, svcVars, dpuVars,
            ConsoleInv, SerialScope, InSerialContext
<1>1. CASE Setup
  BY <1>1 DEF Setup, PrepareHost, DhcpRestrictedGiven, DhcpRestrictedAuto,
     DhcpRestrictedDetected,
         Lease, StartDhcpd, StartTftp, SetupHttpFiles, StartHttpd, CheckServicesRunning,
         ServiceMissing, Raise
<1>2. CASE Detection
  <2>1. CASE MacKnown
    BY <2>1 DEF MacKnown, FieldGet
  <2>2. CASE MacUnknown
    <3>1. CASE back = "boot"
      BY <2>2, <3>1 DEF MacUnknown
    <3>2. CASE back # "boot"
      <4>1. /\ ctx' = [ctx EXCEPT !.serial = "open"] /\ pc' = "macs" /\ back' = back
            /\ ctx.serial = "none" /\ back # "httpd" /\ dpu' = dpu
        BY <2>2, <3>2 DEF MacUnknown, SerialCreate
      <4>2. ctx'.serial = "open"
        BY <4>1
      <4>3. QED
        BY <3>2, <4>1, <4>2
    <3>3. QED
      BY <3>1, <3>2
  <2>3. CASE MacsKnown
    BY <2>3 DEF MacsKnown, MacsReturn
  <2>4. CASE SerialGetRaises
    BY <2>4 DEF SerialGetRaises, Raise
  <2>5. CASE EnterBootMenu
    BY <2>5 DEF EnterBootMenu, EntersMenu
  <2>6. CASE DetectMacs
    BY <2>6 DEF DetectMacs, MacsReturn
  <2>7. CASE PickMac
    BY <2>7 DEF PickMac, FieldGet
  <2>8. CASE NoSuchIndex
    BY <2>8 DEF NoSuchIndex, Raise
  <2>9. QED
    BY <1>2, <2>1, <2>2, <2>3, <2>4, <2>5, <2>6, <2>7, <2>8 DEF Detection
<1>3. CASE Boot
  BY <1>3 DEF Boot, StartTry, OpenSerial, EnterUnlessInBootMenu, SelectEntry,
     PressEnter, HostIsBooted,
         SerialCreate, Raise
<1>4. CASE Exit
  BY <1>4 DEF Exit, Unwind, Retry, RaiseOut, PostPxeboot, Cleanup
<1>5. CASE ExternalFailure
  BY <1>5 DEF ExternalFailure, LeftBehind, EntersMenu, PressEnter, MayFail, Raise
<1>6. CASE Prompt
  BY <1>6 DEF Prompt
<1>7. CASE ReleaseConsole
  BY <1>7 DEF ReleaseConsole
<1>8. CASE Interrupt
  BY <1>8 DEF Interrupt, LeftBehind, EntersMenu, PressEnter, Raise
<1>9. CASE ServiceDies
  BY <1>9 DEF ServiceDies
<1>10. CASE UNCHANGED vars
  BY <1>10 DEF vars
<1>11. QED
  BY <1>1, <1>2, <1>3, <1>4, <1>5, <1>6, <1>7, <1>8, <1>9, <1>10 DEF Next, Program

\* The tries are counted and bounded.
LEMMA TryStep ==
  ASSUME Inv, [Next]_vars
  PROVE  TryInv'
<1> USE DEF Inv, RunInv, TypeOK, RunContext, macVars, svcVars, dpuVars,
            TryInv, InSetup, InTry, Detecting, InSerialContext, PromptInv, BeforePrompt
<1>1. CASE Setup
  BY <1>1 DEF Setup, PrepareHost, DhcpRestrictedGiven, DhcpRestrictedAuto,
     DhcpRestrictedDetected,
         Lease, StartDhcpd, StartTftp, SetupHttpFiles, StartHttpd, CheckServicesRunning,
         ServiceMissing, Raise
<1>2. CASE Detection
  BY <1>2 DEF Detection, MacKnown, FieldGet, MacUnknown, MacsKnown, SerialGetRaises,
     EnterBootMenu, EntersMenu,
         DetectMacs, PickMac, NoSuchIndex, MacsReturn, SerialCreate, Raise
<1>3. CASE Boot
  BY <1>3 DEF Boot, StartTry, OpenSerial, EnterUnlessInBootMenu, SelectEntry,
     PressEnter, HostIsBooted,
         SerialCreate, Raise
<1>4. CASE Exit
  BY <1>4 DEF Exit, Unwind, Retry, RaiseOut, PostPxeboot, Cleanup
<1>5. CASE ExternalFailure
  BY <1>5 DEF ExternalFailure, LeftBehind, EntersMenu, PressEnter, MayFail, Raise
<1>6. CASE Prompt
  BY <1>6 DEF Prompt
<1>7. CASE ReleaseConsole
  BY <1>7 DEF ReleaseConsole
<1>8. CASE Interrupt
  BY <1>8 DEF Interrupt, LeftBehind, EntersMenu, PressEnter, Raise
<1>9. CASE ServiceDies
  BY <1>9 DEF ServiceDies
<1>10. CASE UNCHANGED vars
  BY <1>10 DEF vars
<1>11. QED
  BY <1>1, <1>2, <1>3, <1>4, <1>5, <1>6, <1>7, <1>8, <1>9, <1>10 DEF Next, Program

\* The menu is left before the prompt.
LEMMA PromptStep ==
  ASSUME Inv, [Next]_vars
  PROVE  PromptInv'
<1> USE DEF Inv, RunInv, TypeOK, RunContext, macVars, svcVars, dpuVars,
            PromptInv, TryInv, InSetup, InTry, Detecting, BeforePrompt, ConsoleInv,
            InSerialContext
<1>1. CASE Setup
  <2>1. CASE PrepareHost
    BY <2>1 DEF PrepareHost
  <2>2. CASE DhcpRestrictedGiven
    BY <2>2 DEF DhcpRestrictedGiven
  <2>3. CASE DhcpRestrictedAuto
    BY <2>3 DEF DhcpRestrictedAuto
  <2>4. CASE DhcpRestrictedDetected
    BY <2>4 DEF DhcpRestrictedDetected
  <2>5. CASE Lease
    BY <2>5 DEF Lease
  <2>6. CASE StartDhcpd
    BY <2>6 DEF StartDhcpd
  <2>7. CASE StartTftp
    BY <2>7 DEF StartTftp
  <2>8. CASE SetupHttpFiles
    BY <2>8 DEF SetupHttpFiles
  <2>9. CASE StartHttpd
    BY <2>9 DEF StartHttpd
  <2>10. CASE CheckServicesRunning
    <3>1. /\ pc = "check" /\ try_count' = 0 /\ dpu' = dpu /\ cfg' = cfg
          /\ \/ cfg.prompt /\ pc' = "prompt" /\ ctx' = ctx
             \/ ~cfg.prompt /\ pc' = "try"
      BY <2>10 DEF CheckServicesRunning
    <3>2. ~ctx.before_prompt
      BY <2>10 DEF CheckServicesRunning
    <3>3. QED
      BY <3>1, <3>2
  <2>11. CASE ServiceMissing
    BY <2>11 DEF ServiceMissing, Raise
  <2>12. QED
    BY <1>1, <2>1, <2>2, <2>3, <2>4, <2>5, <2>6, <2>7, <2>8, <2>9, <2>10, <2>11 DEF Setup
<1>2. CASE Detection
  <2>1. CASE MacKnown
    BY <2>1 DEF MacKnown, FieldGet
  <2>2. CASE MacUnknown
    BY <2>2 DEF MacUnknown, SerialCreate, Raise
  <2>3. CASE MacsKnown
    BY <2>3 DEF MacsKnown, MacsReturn
  <2>4. CASE SerialGetRaises
    BY <2>4 DEF SerialGetRaises, Raise
  <2>5. CASE EnterBootMenu
    BY <2>5 DEF EnterBootMenu, EntersMenu
  <2>6. CASE DetectMacs
    BY <2>6 DEF DetectMacs, MacsReturn
  <2>7. CASE PickMac
    BY <2>7 DEF PickMac, FieldGet
  <2>8. CASE NoSuchIndex
    BY <2>8 DEF NoSuchIndex, Raise
  <2>9. QED
    BY <1>2, <2>1, <2>2, <2>3, <2>4, <2>5, <2>6, <2>7, <2>8 DEF Detection
<1>3. CASE Boot
  BY <1>3 DEF Boot, StartTry, OpenSerial, EnterUnlessInBootMenu, SelectEntry,
     PressEnter, HostIsBooted,
         SerialCreate, Raise
<1>4. CASE Exit
  BY <1>4 DEF Exit, Unwind, Retry, RaiseOut, PostPxeboot, Cleanup
<1>5. CASE ExternalFailure
  BY <1>5 DEF ExternalFailure, LeftBehind, EntersMenu, PressEnter, MayFail, Raise
<1>6. CASE Prompt
  BY <1>6 DEF Prompt
<1>7. CASE ReleaseConsole
  BY <1>7 DEF ReleaseConsole
<1>8. CASE Interrupt
  BY <1>8 DEF Interrupt, LeftBehind, EntersMenu, PressEnter, Raise
<1>9. CASE ServiceDies
  BY <1>9 DEF ServiceDies
<1>10. CASE UNCHANGED vars
  BY <1>10 DEF vars
<1>11. QED
  BY <1>1, <1>2, <1>3, <1>4, <1>5, <1>6, <1>7, <1>8, <1>9, <1>10 DEF Next, Program

\* An exception that reaches the loop was caused outside.
LEMMA FaultStep ==
  ASSUME Inv, [Next]_vars
  PROVE  FaultInv'
<1> USE DEF Inv, RunInv, TypeOK, RunContext, macVars, svcVars, dpuVars,
            FaultInv, TryInv, InSetup, InTry, Detecting, ConsoleInv, SerialScope,
            InSerialContext
<1>1. CASE Setup
  BY <1>1 DEF Setup, PrepareHost, DhcpRestrictedGiven, DhcpRestrictedAuto,
     DhcpRestrictedDetected,
         Lease, StartDhcpd, StartTftp, SetupHttpFiles, StartHttpd, CheckServicesRunning,
         ServiceMissing, Raise
<1>2. CASE Detection
  BY <1>2 DEF Detection, MacKnown, FieldGet, MacUnknown, MacsKnown, SerialGetRaises,
     EnterBootMenu, EntersMenu,
         DetectMacs, PickMac, NoSuchIndex, MacsReturn, SerialCreate, Raise
<1>3. CASE Boot
  BY <1>3 DEF Boot, StartTry, OpenSerial, EnterUnlessInBootMenu, SelectEntry,
     PressEnter, HostIsBooted,
         SerialCreate, Raise
<1>4. CASE Exit
  BY <1>4 DEF Exit, Unwind, Retry, RaiseOut, PostPxeboot, Cleanup
<1>5. CASE ExternalFailure
  BY <1>5 DEF ExternalFailure, LeftBehind, EntersMenu, PressEnter, MayFail, Raise
<1>6. CASE Prompt
  BY <1>6 DEF Prompt
<1>7. CASE ReleaseConsole
  BY <1>7 DEF ReleaseConsole
<1>8. CASE Interrupt
  BY <1>8 DEF Interrupt, LeftBehind, EntersMenu, PressEnter, Raise
<1>9. CASE ServiceDies
  BY <1>9 DEF ServiceDies
<1>10. CASE UNCHANGED vars
  BY <1>10 DEF vars
<1>11. QED
  BY <1>1, <1>2, <1>3, <1>4, <1>5, <1>6, <1>7, <1>8, <1>9, <1>10 DEF Next, Program

\* The decision to restrict dhcpd precedes its start and fits the address.
LEMMA DhcpStep ==
  ASSUME Inv, [Next]_vars
  PROVE  DhcpInv'
<1> USE DEF Inv, RunInv, TypeOK, RunContext, macVars, svcVars, dpuVars,
            DhcpInv, MacInv
<1>0. cfg' = cfg /\ Chosen(menu_macs)' = Chosen(menu_macs)
  BY ConstantsStay
<1>1. CASE Setup
  BY <1>0, <1>1 DEF Setup, PrepareHost, DhcpRestrictedGiven, DhcpRestrictedAuto,
     DhcpRestrictedDetected,
         Lease, StartDhcpd, StartTftp, SetupHttpFiles, StartHttpd, CheckServicesRunning,
         ServiceMissing, Raise
<1>2. CASE Detection
  BY <1>0, <1>2 DEF Detection, MacKnown, FieldGet, MacUnknown, MacsKnown, SerialGetRaises,
     EnterBootMenu, EntersMenu,
         DetectMacs, PickMac, NoSuchIndex, MacsReturn, SerialCreate, Raise
<1>3. CASE Boot
  BY <1>0, <1>3 DEF Boot, StartTry, OpenSerial, EnterUnlessInBootMenu,
     SelectEntry, PressEnter,
     HostIsBooted,
         SerialCreate, Raise
<1>4. CASE Exit
  BY <1>0, <1>4 DEF Exit, Unwind, Retry, RaiseOut, PostPxeboot, Cleanup
<1>5. CASE ExternalFailure
  BY <1>0, <1>5 DEF ExternalFailure, LeftBehind, EntersMenu, PressEnter, MayFail, Raise
<1>6. CASE Prompt
  BY <1>0, <1>6 DEF Prompt
<1>7. CASE ReleaseConsole
  BY <1>0, <1>7 DEF ReleaseConsole
<1>8. CASE Interrupt
  BY <1>0, <1>8 DEF Interrupt, LeftBehind, EntersMenu, PressEnter, Raise
<1>9. CASE ServiceDies
  BY <1>0, <1>9 DEF ServiceDies
<1>10. CASE UNCHANGED vars
  BY <1>0, <1>10 DEF vars
<1>11. QED
  BY <1>0, <1>1, <1>2, <1>3, <1>4, <1>5, <1>6, <1>7, <1>8, <1>9, <1>10 DEF Next, Program

\* Addresses come from the menu, by way of --dpu-dev, and from nowhere else.
LEMMA MacStep ==
  ASSUME Inv, [Next]_vars
  PROVE  MacInv'
<1> USE DEF Inv, RunInv, TypeOK, RunContext, macVars, svcVars, dpuVars,
            MacInv
<1>0. cfg' = cfg /\ menu_macs' = menu_macs /\ Chosen(menu_macs)' = Chosen(menu_macs)
  BY ConstantsStay
<1>a. cfg.dpu_dev \in Macs => Chosen(menu_macs) = cfg.dpu_dev
  BY DEF Chosen, Config
<1>1. CASE Setup
  BY <1>0, <1>a, <1>1 DEF Setup, PrepareHost, DhcpRestrictedGiven, DhcpRestrictedAuto,
     DhcpRestrictedDetected,
         Lease, StartDhcpd, StartTftp, SetupHttpFiles, StartHttpd, CheckServicesRunning,
         ServiceMissing, Raise
<1>2. CASE Detection
  BY <1>0, <1>a, <1>2 DEF Detection, MacKnown, FieldGet, MacUnknown, MacsKnown, SerialGetRaises,
     EnterBootMenu, EntersMenu,
         DetectMacs, PickMac, NoSuchIndex, MacsReturn, SerialCreate, Raise
<1>3. CASE Boot
  BY <1>0, <1>a, <1>3 DEF Boot, StartTry, OpenSerial, EnterUnlessInBootMenu,
     SelectEntry, PressEnter,
     HostIsBooted,
         SerialCreate, Raise
<1>4. CASE Exit
  BY <1>0, <1>a, <1>4 DEF Exit, Unwind, Retry, RaiseOut, PostPxeboot, Cleanup
<1>5. CASE ExternalFailure
  BY <1>0, <1>a, <1>5 DEF ExternalFailure, LeftBehind, EntersMenu, PressEnter, MayFail, Raise
<1>6. CASE Prompt
  BY <1>0, <1>a, <1>6 DEF Prompt
<1>7. CASE ReleaseConsole
  BY <1>0, <1>a, <1>7 DEF ReleaseConsole
<1>8. CASE Interrupt
  BY <1>0, <1>a, <1>8 DEF Interrupt, LeftBehind, EntersMenu, PressEnter, Raise
<1>9. CASE ServiceDies
  BY <1>0, <1>a, <1>9 DEF ServiceDies
<1>10. CASE UNCHANGED vars
  BY <1>0, <1>a, <1>10 DEF vars
<1>11. QED
  BY <1>0, <1>a, <1>1, <1>2, <1>3, <1>4, <1>5, <1>6, <1>7, <1>8, <1>9, <1>10 DEF Next,
     Program

-----------------------------------------------------------------------------
\* The inductive invariant: the types of the variables and RunInv.
THEOREM InvHolds == Spec => []Inv
<1>1. Inv /\ [Next]_vars => Inv'
  BY TypeStep, ConsoleStep, TryStep, PromptStep, FaultStep, DhcpStep, MacStep DEF Inv,
     RunInv
<1>2. QED
  BY InitInv, <1>1, PTL DEF Spec

\* Console, boot menu, cached addresses, dhcpd and the tries stay consistent.
THEOREM RunInvariant == Spec => []RunInv
<1>1. Inv => RunInv
  BY DEF Inv
<1>2. QED
  BY InvHolds, <1>1, PTL

\* Every variable keeps its type; the tries never exceed their bound.
THEOREM TypeCorrect == Spec => []TypeOK
<1>1. Inv => TypeOK
  BY DEF Inv
<1>2. QED
  BY InvHolds, <1>1, PTL

\* No exception and no interrupt leaves the console open: it is held exactly
\* inside of the with blocks.
THEOREM ConsoleScoped == Spec => []SerialScope
<1>1. Inv => SerialScope
  BY DEF Inv, RunInv, ConsoleInv
<1>2. QED
  BY InvHolds, <1>1, PTL

\* The boot entry is only searched in a boot menu that this try can see.
THEOREM SelectsInMenu == Spec => []SelectInMenu
<1>1. Inv => SelectInMenu
  BY DEF Inv, TypeOK, RunContext, RunInv, ConsoleInv, SerialScope, InSerialContext,
     SelectInMenu
<1>2. QED
  BY InvHolds, <1>1, PTL

\* The user is never asked while the DPU hangs in its boot menu.
THEOREM PromptsOutsideMenu == Spec => []PromptNotInMenu
<1>1. Inv => PromptNotInMenu
  BY DEF Inv, RunInv, PromptInv, InSetup, BeforePrompt, PromptNotInMenu
<1>2. QED
  BY InvHolds, <1>1, PTL

\* A DPU that was booted is not turned away by the dhcpd of its own run.
THEOREM ServesDpu == Spec => []DhcpServesDpu
<1>1. Inv => DhcpServesDpu
  BY DEF Inv, RunInv, MacInv, DhcpInv, DhcpServesDpu
<1>2. QED
  BY InvHolds, <1>1, PTL

\* What a successful run has booted is the interface --dpu-dev stands for,
\* through detection, caching, prompt and retries.
THEOREM BootsConfigured == Spec => []BootsConfiguredDevice
<1>1. Inv => BootsConfiguredDevice
  BY DEF Inv, RunInv, MacInv, BootsConfiguredDevice
<1>2. QED
  BY InvHolds, <1>1, PTL

\* A try starts clean: it fails only if something outside of the program does.
THEOREM TriesIndependent == Spec => []TriesFailOnlyOnFault
<1>1. Inv => TriesFailOnlyOnFault
  BY DEF Inv, RunInv, FaultInv, TriesFailOnlyOnFault
<1>2. QED
  BY InvHolds, <1>1, PTL
=============================================================================
