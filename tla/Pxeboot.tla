------------------------------- MODULE Pxeboot -------------------------------
(***************************************************************************)
(* One run of pxeboot.py: main() sets up the services, finds out which MAC *)
(* address to boot, perhaps waits for the user, and then resets the DPU    *)
(* and boots it over the network, up to three times.  The DPU is a boot    *)
(* menu, an operating system or a network boot; what goes wrong outside of *)
(* the program (timeouts, a device that does not open, a service that      *)
(* dies) may go wrong at any of the calls that depend on it.               *)
(***************************************************************************)
EXTENDS Integers, Sequences

CONSTANTS Macs, NoMac,
          RandomMacs,   \* addresses is_marvell_random_mac() knows as not stable
          PxeMenus,     \* the lists of PXE entries a boot menu may have
          Indices,      \* the numbers given as --dpu-dev
          MaxTry        \* 3 in main()

ASSUME MacsAssumption == NoMac \notin Macs /\ Macs \cap {"primary", "secondary", "index"} = {}
ASSUME RandomAssumption == RandomMacs \subseteq Macs
ASSUME MenusAssumption == PxeMenus \subseteq Seq(Macs) \ {<<>>}
ASSUME ParametersAssumption == /\ Indices \subseteq Nat
                               /\ MaxTry \in Nat \ {0}

VARIABLES
  cfg,               \* Config
  ctx,               \* RunContext: what is known so far
  pc,
  back,              \* where dpu_mac_ensure() or dpu_macs_ensure() returns to
  dpu_mac,           \* the MAC address dpu_mac_ensure() returned last
  in_boot_menu,      \* and whether it left the DPU in its boot menu
  try_count,
  exc,               \* the exception on its way up: "none", "error", "interrupt"
  outcome,
  services,          \* service threads that are running
  hardware_ethernet, \* the client dhcpd is restricted to, NoMac for any
  \* the DPU
  menu_macs, dpu, booted,
  \* history: the tries in which something outside of the program failed
  \* (0: before the first one)
  faults

dpuVars == <<menu_macs, dpu, booted>>
macVars == <<back, dpu_mac, in_boot_menu>>
svcVars == <<services, hardware_ethernet>>
vars == <<cfg, ctx, pc, macVars, try_count, exc, outcome, svcVars, dpuVars, faults>>

Services == {"dhcpd", "tftp", "httpd"}

\* --dpu-dev is "primary", "secondary", a MAC address or an index.
Config == [dpu_dev : {"primary", "secondary", "index"} \cup Macs, index : Indices,
           cfg_dhcp_restricted : {"auto", "yes", "no"},
           prompt : BOOLEAN, host_setup_only : BOOLEAN]

\* dpu_macs = <<>> and dpu_mac = NoMac are common.MISSING.
RunContext == [dpu_macs : Seq(Macs), dpu_mac : Macs \cup {NoMac},
               dhcp_restricted : {"missing", "yes", "no"},
               serial : {"none", "open", "released"}, before_prompt : BOOLEAN]

Points == {"prepare", "dhcp", "auto", "lease", "dhcpd", "tftp", "http", "httpd", "check",
           "prompt", "try", "open", "mac", "macs", "detect", "pick", "boot", "enter",
           "select", "wait", "post", "unwind", "except", "abort", "cleanup", "exit"}

TypeOK ==
  /\ cfg \in Config
  /\ ctx \in RunContext
  /\ pc \in Points
  /\ back \in {"auto", "dhcpd", "httpd", "boot"}
  /\ dpu_mac \in Macs \cup {NoMac}
  /\ in_boot_menu \in BOOLEAN
  /\ try_count \in 0..MaxTry
  /\ exc \in {"none", "error", "interrupt"}
  /\ outcome \in {"none", "success", "failed", "aborted"}
  /\ services \subseteq Services
  /\ hardware_ethernet \in Macs \cup {NoMac}
  /\ menu_macs \in PxeMenus
  /\ dpu \in {"os", "menu", "pxe"}
  /\ booted \in Macs \cup {NoMac}
  /\ faults \subseteq 0..MaxTry

Init ==
  /\ cfg \in {c \in Config : c.dpu_dev # "index" => c.index = CHOOSE i \in Indices : TRUE}
  /\ ctx = [dpu_macs |-> <<>>, dpu_mac |-> NoMac, dhcp_restricted |-> "missing",
            serial |-> "none", before_prompt |-> FALSE]
  /\ pc = "prepare" /\ back = "auto"
  /\ dpu_mac = NoMac /\ in_boot_menu = FALSE
  /\ try_count = 0 /\ exc = "none" /\ outcome = "none"
  /\ services = {} /\ hardware_ethernet = NoMac
  /\ menu_macs \in PxeMenus /\ dpu = "os" /\ booted = NoMac
  /\ faults = {}

-----------------------------------------------------------------------------
\* Inside of "with ctx.serial_open()": an exception closes the serial port.
InSerialContext ==
  \/ pc \in {"boot", "enter", "select", "wait"}
  \/ pc \in {"macs", "detect"} /\ back # "httpd"
  \/ pc \in {"mac", "pick"} /\ back = "boot"

\* An exception leaves the with block first ("unwind"), then reaches the except
\* clause of main()'s loop ("except"), or nobody ("abort").
Raise(e) ==
  /\ exc' = e
  /\ pc' = IF InSerialContext THEN "unwind" ELSE IF pc = "open" THEN "except" ELSE "abort"

\* serial_create() refuses to open the port a second time.
SerialCreate(next) ==
  IF ctx.serial = "none"
  THEN ctx' = [ctx EXCEPT !.serial = "open"] /\ pc' = next /\ UNCHANGED exc
  ELSE Raise("error") /\ UNCHANGED ctx

-----------------------------------------------------------------------------
(* main(): setting up                                                      *)

PrepareHost ==
  /\ pc = "prepare"
  /\ pc' = IF cfg.host_setup_only THEN "post" ELSE "dhcp"
  /\ UNCHANGED <<cfg, ctx, macVars, try_count, exc, outcome, svcVars, dpuVars, faults>>

\* setup_dhcp() and detect_dhcp_restricted(): with "auto" the answer depends
\* on the address of the DPU.
DhcpRestrictedGiven ==
  /\ pc = "dhcp" /\ cfg.cfg_dhcp_restricted # "auto"
  /\ ctx' = [ctx EXCEPT !.dhcp_restricted = cfg.cfg_dhcp_restricted]
  /\ pc' = "lease"
  /\ UNCHANGED <<cfg, macVars, try_count, exc, outcome, svcVars, dpuVars, faults>>

DhcpRestrictedAuto ==
  /\ pc = "dhcp" /\ cfg.cfg_dhcp_restricted = "auto"
  /\ pc' = "mac" /\ back' = "auto"
  /\ UNCHANGED <<cfg, ctx, dpu_mac, in_boot_menu, try_count, exc, outcome, svcVars,
                 dpuVars, faults>>

\* Mutant: restricted even to an address that is not stable.
DhcpAlwaysRestricted ==
  /\ pc = "auto"
  /\ ctx' = [ctx EXCEPT !.dhcp_restricted = "yes"]
  /\ pc' = "lease"
  /\ UNCHANGED <<cfg, macVars, try_count, exc, outcome, svcVars, dpuVars, faults>>

DhcpRestrictedDetected ==
  /\ pc = "auto"
  /\ ctx' = [ctx EXCEPT !.dhcp_restricted = IF dpu_mac \in RandomMacs THEN "no" ELSE "yes"]
  /\ pc' = "lease"
  /\ UNCHANGED <<cfg, macVars, try_count, exc, outcome, svcVars, dpuVars, faults>>

Lease ==
  /\ pc = "lease"
  /\ IF ctx.dhcp_restricted = "yes"
     THEN pc' = "mac" /\ back' = "dhcpd"
     ELSE pc' = "dhcpd" /\ UNCHANGED back
  /\ UNCHANGED <<cfg, ctx, dpu_mac, in_boot_menu, try_count, exc, outcome, svcVars,
                 dpuVars, faults>>

StartDhcpd ==
  /\ pc = "dhcpd"
  /\ hardware_ethernet' = IF ctx.dhcp_restricted = "yes" THEN dpu_mac ELSE NoMac
  /\ services' = services \cup {"dhcpd"}
  /\ pc' = "tftp"
  /\ UNCHANGED <<cfg, ctx, macVars, try_count, exc, outcome, dpuVars, faults>>

StartTftp ==
  /\ pc = "tftp"
  /\ services' = services \cup {"tftp"}
  /\ pc' = "http"
  /\ UNCHANGED <<cfg, ctx, macVars, try_count, exc, outcome, hardware_ethernet, dpuVars,
                 faults>>

\* The kickstart and ignition files name the DPU's interfaces: get_ifname().
SetupHttpFiles ==
  /\ pc = "http"
  /\ pc' = "macs" /\ back' = "httpd"
  /\ UNCHANGED <<cfg, ctx, dpu_mac, in_boot_menu, try_count, exc, outcome, svcVars,
                 dpuVars, faults>>

StartHttpd ==
  /\ pc = "httpd"
  /\ services' = services \cup {"httpd"}
  /\ pc' = "check"
  /\ UNCHANGED <<cfg, ctx, macVars, try_count, exc, outcome, hardware_ethernet, dpuVars,
                 faults>>

CheckServicesRunning ==
  /\ pc = "check" /\ services = Services
  /\ \/ cfg.prompt /\ pc' = "prompt" /\ UNCHANGED ctx
     \/ ~cfg.prompt /\ pc' = "try" /\ ctx' = [ctx EXCEPT !.before_prompt = TRUE]
  /\ UNCHANGED <<cfg, macVars, try_count, exc, outcome, svcVars, dpuVars, faults>>

\* "Service ... unexpectedly not running"
ServiceMissing ==
  /\ pc = "check" /\ services # Services
  /\ Raise("error")
  /\ faults' = faults \cup {try_count}
  /\ UNCHANGED <<cfg, ctx, macVars, try_count, outcome, svcVars, dpuVars>>

\* The user presses ENTER (^C is Interrupt).
Prompt ==
  /\ pc = "prompt"
  /\ ctx' = [ctx EXCEPT !.before_prompt = TRUE]
  /\ pc' = "try"
  /\ UNCHANGED <<cfg, macVars, try_count, exc, outcome, svcVars, dpuVars, faults>>

-----------------------------------------------------------------------------
(* dpu_mac_ensure() and dpu_macs_ensure()                                  *)

BeforePrompt == cfg.prompt /\ ~ctx.before_prompt

\* Whether ktoolbox's _field_get() keeps what on_missing() returned is left open.
FieldGet == ctx' \in {ctx, [ctx EXCEPT !.dpu_mac = dpu_mac']}

\* The address is known already, or --dpu-dev is the address.
MacKnown ==
  /\ pc = "mac"
  /\ ctx.dpu_mac # NoMac \/ cfg.dpu_dev \in Macs
  /\ dpu_mac' = IF ctx.dpu_mac # NoMac THEN ctx.dpu_mac ELSE cfg.dpu_dev
  /\ FieldGet
  /\ in_boot_menu' = FALSE
  /\ pc' = back
  /\ UNCHANGED <<cfg, back, try_count, exc, outcome, svcVars, dpuVars, faults>>

\* Detection needs the serial port: the caller's when the DPU is about to be
\* booted (reuse_serial_context), one of its own otherwise.
MacUnknown ==
  /\ pc = "mac"
  /\ ctx.dpu_mac = NoMac /\ cfg.dpu_dev \notin Macs
  /\ IF back = "boot"
     THEN pc' = "macs" /\ UNCHANGED <<ctx, exc>>
     ELSE SerialCreate("macs")
  /\ UNCHANGED <<cfg, macVars, try_count, outcome, svcVars, dpuVars, faults>>

\* The end of dpu_macs_ensure().  A detection with a serial port of its own
\* closes it and forgets that it is in the boot menu.
MacsReturn(c, entered) ==
  /\ ctx' = [c EXCEPT !.serial = IF back \in {"auto", "dhcpd"} THEN "none" ELSE @]
  /\ in_boot_menu' = (entered /\ back = "boot")
  /\ pc' = IF back = "httpd" THEN "httpd" ELSE "pick"

\* Mutant: addresses that are known are taken for just detected.
MacsKnownInMenu ==
  /\ pc = "macs" /\ ctx.dpu_macs # <<>>
  /\ MacsReturn(ctx, TRUE)
  /\ UNCHANGED <<cfg, back, dpu_mac, try_count, exc, outcome, svcVars, dpuVars, faults>>

MacsKnown ==
  /\ pc = "macs" /\ ctx.dpu_macs # <<>>
  /\ MacsReturn(ctx, FALSE)
  /\ UNCHANGED <<cfg, back, dpu_mac, try_count, exc, outcome, svcVars, dpuVars, faults>>

\* "Cannot access serial without creating it first"
SerialGetRaises ==
  /\ pc = "macs" /\ ctx.dpu_macs = <<>> /\ ctx.serial = "none"
  /\ Raise("error")
  /\ UNCHANGED <<cfg, ctx, macVars, try_count, outcome, svcVars, dpuVars, faults>>

\* uefi_reset_and_enter_boot_menu(), to detect the addresses or to boot one.
EntersMenu ==
  /\ pc = "enter" \/ (pc = "macs" /\ ctx.dpu_macs = <<>>)
  /\ ctx.serial # "none"
EnterBootMenu ==
  /\ EntersMenu
  /\ pc' = IF pc = "macs" THEN "detect" ELSE "select"
  /\ dpu' = "menu" /\ booted' = NoMac
  /\ UNCHANGED <<cfg, ctx, macVars, try_count, exc, outcome, svcVars, menu_macs, faults>>

\* Mutant: the detection stops at the first address.
DetectFirstMac ==
  /\ pc = "detect" /\ dpu = "menu"
  /\ MacsReturn([ctx EXCEPT !.dpu_macs = <<menu_macs[1]>>], TRUE)
  /\ UNCHANGED <<cfg, back, dpu_mac, try_count, exc, outcome, svcVars, dpuVars, faults>>

\* uefi_boot_menu_process() without select_boot
DetectMacs ==
  /\ pc = "detect" /\ dpu = "menu"
  /\ MacsReturn([ctx EXCEPT !.dpu_macs = menu_macs], TRUE)
  /\ UNCHANGED <<cfg, back, dpu_mac, try_count, exc, outcome, svcVars, dpuVars, faults>>

\* dpu_macs numbers the entries from 0: the last one is the primary interface.
Chosen(macs) ==
  CASE cfg.dpu_dev = "primary" -> macs[Len(macs)]
    [] cfg.dpu_dev = "secondary" -> macs[1]
    [] cfg.dpu_dev = "index" -> IF cfg.index < Len(macs) THEN macs[cfg.index + 1] ELSE NoMac
    [] OTHER -> cfg.dpu_dev

\* Mutant: no reset before the prompt.
PickMacWithoutReset ==
  /\ pc = "pick" /\ Chosen(ctx.dpu_macs) # NoMac
  /\ dpu_mac' = Chosen(ctx.dpu_macs)
  /\ FieldGet
  /\ pc' = back
  /\ UNCHANGED <<cfg, back, in_boot_menu, try_count, exc, outcome, svcVars, dpuVars, faults>>

\* Before the prompt the DPU is reset, so that it does not hang in its menu.
PickMac ==
  /\ pc = "pick" /\ Chosen(ctx.dpu_macs) # NoMac
  /\ dpu_mac' = Chosen(ctx.dpu_macs)
  /\ FieldGet
  /\ in_boot_menu' = (in_boot_menu /\ ~BeforePrompt)
  /\ dpu' = IF BeforePrompt THEN "os" ELSE dpu
  /\ pc' = back
  /\ UNCHANGED <<cfg, back, try_count, exc, outcome, svcVars, menu_macs, booted, faults>>

\* "Cannot find boot entry": the user asked for an interface that is not there.
NoSuchIndex ==
  /\ pc = "pick" /\ Chosen(ctx.dpu_macs) = NoMac
  /\ Raise("error")
  /\ faults' = faults \cup {try_count}
  /\ UNCHANGED <<cfg, ctx, macVars, try_count, outcome, svcVars, dpuVars>>

-----------------------------------------------------------------------------
(* main(): the tries, and dpu_pxeboot()                                    *)

StartTry ==
  /\ pc = "try"
  /\ try_count' = try_count + 1
  /\ pc' = "open"
  /\ UNCHANGED <<cfg, ctx, macVars, exc, outcome, svcVars, dpuVars, faults>>

OpenSerial ==
  /\ pc = "open"
  /\ back' = "boot"
  /\ SerialCreate("mac")
  /\ UNCHANGED <<cfg, dpu_mac, in_boot_menu, try_count, outcome, svcVars, dpuVars, faults>>

\* uefi_enter_boot_menu_and_boot() saves a reset if the DPU is in the menu.
EnterUnlessInBootMenu ==
  /\ pc = "boot"
  /\ pc' = IF in_boot_menu THEN "select" ELSE "enter"
  /\ UNCHANGED <<cfg, ctx, macVars, try_count, exc, outcome, svcVars, dpuVars, faults>>

\* uefi_boot_menu_process() with select_boot
PressEnter ==
  /\ pc = "select" /\ dpu = "menu"
  /\ \E i \in DOMAIN menu_macs : menu_macs[i] = dpu_mac
  /\ booted' = dpu_mac /\ dpu' = "pxe"
SelectEntry ==
  /\ PressEnter
  /\ pc' = "wait"
  /\ UNCHANGED <<cfg, ctx, macVars, try_count, exc, outcome, svcVars, menu_macs, faults>>

\* wait_for_boot() lets go of the console after SIGUSR1 or --console-wait.
ReleaseConsole ==
  /\ pc = "wait" /\ ctx.serial = "open"
  /\ ctx' = [ctx EXCEPT !.serial = "released"]
  /\ UNCHANGED <<cfg, pc, macVars, try_count, exc, outcome, svcVars, dpuVars, faults>>

\* Mutant: the serial port stays open.
HostIsBootedNoClose ==
  /\ pc = "wait"
  /\ pc' = "post"
  /\ UNCHANGED <<cfg, ctx, macVars, try_count, exc, outcome, svcVars, dpuVars, faults>>

HostIsBooted ==
  /\ pc = "wait"
  /\ ctx' = [ctx EXCEPT !.serial = "none"]
  /\ pc' = "post"
  /\ UNCHANGED <<cfg, macVars, try_count, exc, outcome, svcVars, dpuVars, faults>>

-----------------------------------------------------------------------------
(* Exceptions and the end of the run                                       *)

\* The calls that fail when something outside of the program does.
MayFail ==
  \/ pc \in {"prepare", "dhcpd", "tftp", "http", "httpd", "open", "detect", "enter", "select",
             "wait", "post"}
  \/ pc = "mac" /\ ctx.dpu_mac = NoMac /\ cfg.dpu_dev \notin Macs /\ back # "boot"
  \/ pc = "macs" /\ ctx.dpu_macs = <<>> /\ ctx.serial # "none"
  \/ pc = "pick" /\ BeforePrompt

\* A call that breaks off has or has not reset the DPU, opened its menu or pressed
\* ENTER there.
LeftBehind ==
  \/ UNCHANGED <<dpu, booted>>
  \/ EntersMenu /\ dpu' \in {"os", "menu"} /\ booted' = NoMac
  \/ pc = "pick" /\ BeforePrompt /\ dpu' = "os" /\ UNCHANGED booted
  \/ PressEnter

ExternalFailure ==
  /\ MayFail
  /\ Raise("error")
  /\ LeftBehind
  /\ faults' = faults \cup {try_count}
  /\ UNCHANGED <<cfg, ctx, macVars, try_count, outcome, svcVars, menu_macs>>

\* The user presses ^C.
Interrupt ==
  /\ pc \notin {"unwind", "except", "abort", "cleanup", "exit"}
  /\ Raise("interrupt")
  /\ LeftBehind
  /\ UNCHANGED <<cfg, ctx, macVars, try_count, outcome, svcVars, menu_macs, faults>>

\* Mutant: an exception leaves the serial port open.
UnwindNoClose ==
  /\ pc = "unwind"
  /\ pc' = IF try_count > 0 THEN "except" ELSE "abort"
  /\ UNCHANGED <<cfg, ctx, macVars, try_count, exc, outcome, svcVars, dpuVars, faults>>

\* serial_close() when the with block is left.
Unwind ==
  /\ pc = "unwind"
  /\ ctx' = [ctx EXCEPT !.serial = "none"]
  /\ pc' = IF try_count > 0 THEN "except" ELSE "abort"
  /\ UNCHANGED <<cfg, macVars, try_count, exc, outcome, svcVars, dpuVars, faults>>

\* Mutant: one try too many.
RetryOnceMore ==
  /\ pc = "except" /\ exc = "error" /\ try_count <= MaxTry
  /\ exc' = "none"
  /\ pc' = "try"
  /\ UNCHANGED <<cfg, ctx, macVars, try_count, outcome, svcVars, dpuVars, faults>>

\* Mutant: the tries are not counted.
RetryForever ==
  /\ pc = "except" /\ exc = "error"
  /\ exc' = "none" /\ try_count' = 0
  /\ pc' = "try"
  /\ UNCHANGED <<cfg, ctx, macVars, outcome, svcVars, dpuVars, faults>>

Retry ==
  /\ pc = "except" /\ exc = "error" /\ try_count < MaxTry
  /\ exc' = "none"
  /\ pc' = "try"
  /\ UNCHANGED <<cfg, ctx, macVars, try_count, outcome, svcVars, dpuVars, faults>>

RaiseOut ==
  /\ \/ pc = "abort"
     \/ pc = "except" /\ (exc = "interrupt" \/ try_count >= MaxTry)
  /\ outcome' = IF exc = "interrupt" THEN "aborted" ELSE "failed"
  /\ pc' = "cleanup"
  /\ UNCHANGED <<cfg, ctx, macVars, try_count, exc, svcVars, dpuVars, faults>>

PostPxeboot ==
  /\ pc = "post"
  /\ outcome' = "success"
  /\ pc' = "cleanup"
  /\ UNCHANGED <<cfg, ctx, macVars, try_count, exc, svcVars, dpuVars, faults>>

Cleanup ==
  /\ pc = "cleanup"
  /\ services' = {}
  /\ pc' = "exit"
  /\ UNCHANGED <<cfg, ctx, macVars, try_count, exc, outcome, hardware_ethernet, dpuVars,
                 faults>>

\* A service thread ends by itself.
ServiceDies ==
  /\ \E s \in services : services' = services \ {s}
  /\ UNCHANGED <<cfg, ctx, pc, macVars, try_count, exc, outcome, hardware_ethernet,
                 dpuVars, faults>>

Setup == \/ PrepareHost \/ DhcpRestrictedGiven \/ DhcpRestrictedAuto \/ DhcpRestrictedDetected
         \/ Lease \/ StartDhcpd \/ StartTftp \/ SetupHttpFiles \/ StartHttpd
         \/ CheckServicesRunning \/ ServiceMissing
Detection == \/ MacKnown \/ MacUnknown \/ MacsKnown \/ SerialGetRaises
             \/ EnterBootMenu \/ DetectMacs \/ PickMac \/ NoSuchIndex
Boot == \/ StartTry \/ OpenSerial \/ EnterUnlessInBootMenu \/ SelectEntry \/ HostIsBooted
Exit == Unwind \/ Retry \/ RaiseOut \/ PostPxeboot \/ Cleanup
Program == Setup \/ Detection \/ Boot \/ Exit \/ ExternalFailure
Next == Program \/ Prompt \/ ReleaseConsole \/ Interrupt \/ ServiceDies

\* Every call of the program ends, one way or the other, with a timeout at the
\* latest.  The user need not answer the prompt.
Spec == Init /\ [][Next]_vars /\ WF_vars(Program)

-----------------------------------------------------------------------------
\* The console is held inside of the with blocks and nowhere else: no exception
\* leaves it open, and no try finds it taken.
SerialScope == ctx.serial # "none" <=> InSerialContext \/ pc = "unwind"

\* The boot entry is searched with the console at hand and the DPU in its boot
\* menu, whatever the setup, the prompt and the tries before left behind.
SelectInMenu == pc = "select" => dpu = "menu" /\ ctx.serial = "open"

\* The DPU does not hang in its boot menu while the user is asked.
PromptNotInMenu == pc = "prompt" => dpu # "menu"

\* dhcpd answers the DPU that was booted: it is restricted to no other client,
\* and, left to "auto", not to an address that the DPU does not keep.
DhcpServesDpu ==
  booted # NoMac /\ hardware_ethernet # NoMac =>
    /\ hardware_ethernet = booted
    /\ cfg.cfg_dhcp_restricted = "auto" => booted \notin RandomMacs

\* A run that gets through has booted the interface --dpu-dev stands for.
BootsConfiguredDevice ==
  pc = "post" /\ ~cfg.host_setup_only => booted = Chosen(menu_macs)

\* A try does not fail because of what the ones before it left behind: for each
\* failure there is something outside of the program that failed.
TriesFailOnlyOnFault ==
  pc = "except" /\ exc = "error" => try_count \in faults

\* The same of the whole run, its setup included: whatever --dpu-dev and
\* --dhcp-restricted are documented to accept, the setup gets through with them.
FailsOnlyOnFault == outcome = "failed" => faults # {}

\* The program ends, with its services stopped, unless it waits for the user.
Ends == <>(pc = "exit" /\ services = {}) \/ <>[](pc = "prompt")

-----------------------------------------------------------------------------
(***************************************************************************)
(* Why these hold: RunInv is preserved by every step and implies them.     *)
(***************************************************************************)
\* Where the console and the DPU's boot menu are.
ConsoleInv ==
  /\ SerialScope
  /\ ctx.serial = "released" => pc \in {"wait", "unwind"}
  /\ pc \in {"detect", "select"} => dpu = "menu"
  /\ pc \in {"mac", "detect"} => back # "httpd"
  /\ pc \in {"pick", "boot"} /\ in_boot_menu => dpu = "menu"

\* Every address the run has come to know is the one --dpu-dev stands for.
MacInv ==
  LET mac == Chosen(menu_macs)
  IN  /\ ctx.dpu_macs \in {<<>>, menu_macs}
      /\ pc = "pick" => ctx.dpu_macs = menu_macs
      /\ {ctx.dpu_mac, dpu_mac, booted, hardware_ethernet} \subseteq {NoMac, mac}
      /\ pc \in {"auto", "boot", "enter", "select"} => dpu_mac = mac
      /\ pc = "dhcpd" /\ ctx.dhcp_restricted = "yes" => dpu_mac = mac
      /\ pc \in {"wait", "post"} /\ ~cfg.host_setup_only => booted = mac

\* dhcpd is configured once, after the decision to restrict it.
DhcpInv ==
  /\ hardware_ethernet # NoMac =>
       /\ ctx.dhcp_restricted = "yes"
       /\ pc \notin {"prepare", "dhcp", "auto"}
       /\ pc \in {"mac", "macs", "detect", "pick"} => back # "auto"
  /\ ctx.dhcp_restricted = "yes" /\ cfg.cfg_dhcp_restricted = "auto" =>
       Chosen(menu_macs) \notin RandomMacs

\* The setup comes before the first try.
Detecting == pc \in {"mac", "macs", "detect", "pick"}
InSetup == \/ pc \in {"prepare", "dhcp", "auto", "lease", "dhcpd", "tftp", "http", "httpd",
                      "check", "prompt"}
           \/ Detecting /\ back # "boot"
InTry == \/ pc \in {"open", "boot", "enter", "select", "wait", "except"}
         \/ Detecting /\ back = "boot"

TryInv ==
  /\ InSetup => try_count = 0
  /\ InTry => try_count > 0
  /\ pc = "try" => try_count < MaxTry

\* Up to the prompt, whoever enters the boot menu leaves it again or ends the run.
PromptInv ==
  /\ InSetup => ~ctx.before_prompt
  /\ pc = "prompt" => cfg.prompt
  /\ pc = "try" => ~BeforePrompt
  /\ BeforePrompt => try_count = 0
  /\ BeforePrompt /\ dpu = "menu" =>
       pc \in {"detect", "pick", "unwind", "abort", "cleanup", "exit"}

FaultInv == pc \in {"unwind", "except"} /\ exc = "error" => try_count \in faults

RunInv == ConsoleInv /\ MacInv /\ DhcpInv /\ TryInv /\ PromptInv /\ FaultInv
=============================================================================
