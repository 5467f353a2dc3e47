# Verification of the Marvell Octeon 10 tools

This directory holds TLA+ modules that model `pxeboot.py`, `reset.py`, `fwupdate.py`
and `common_dpu.py`, TLC configurations that check them on small instances, and TLAPS
proofs of the properties that matter most. The modules are translated from the code; where a
comment or a help text says something else, a run shows the difference
(see *Disagreements*).

## The system

The tools run in a privileged container on a host with a Marvell DPU. They talk
to the DPU over two serial lines (`ttyUSB0` is the DPU's console, `ttyUSB1`
resets it) and serve it over the network.

| Component | State it keeps | Operations | Interacts with |
|---|---|---|---|
| UEFI boot menu walk (`uefi_boot_menu_process`) | parsing state, addresses found, keys counted, `found_mac` | detect all PXE addresses; select one and press ENTER | the UEFI over the console: keys out, highlighted lines in |
| Reset and boot menu entry (`uefi_reset_and_enter_boot_menu`, `reset.py`) | none but the serial buffers | reset, wait for each prompt, press its key | both serial lines |
| Run context (`RunContext`, `detect_dpu_mac`) | `dpu_mac`, `dpu_macs`, `dhcp_restricted`, `serial`, `before_prompt`, each missing until it is set | get a value, detecting it when it is missing; open and close the serial port | everybody calls it; detection calls the reset and the menu walk |
| Run orchestration (`main`, `dpu_pxeboot`) | the tries, the cleanup list | set up, prompt, up to three tries, clean up | all others |
| Services (`common_dpu.run_process`, `run_dhcpd`, `setup_tftp`, `setup_http`) | three processes and `dhcpd.conf` | start, check once, terminate at exit | the DPU while it boots |
| Wait for boot (`wait_for_boot`, `check_host_is_booted`) | deadline, whether the console is still held, addresses to try | poll ping and ssh, read the console meanwhile, let go of it after SIGUSR1 or `--console-wait` | DPU, SIGUSR1 |
| ISO cache (`create_and_mount_iso`, `create_iso_file`) | the cached file and its `.tmp`, the mount | download, mount, recognise, retry once | host file system, other runs |
| Host setup (`prepare_host`, `post_pxeboot`, cleanup list) | NetworkManager profile or temporary address, NAT table, `/etc/hosts` | set up; in ephemeral mode undo at exit | host |
| SSH keys (`prepare_ssh_keys`) | a private key under `/tmp/marvell-tools`, the host's key | create, reuse, delete at exit | installer files, wait for boot |
| ISO kinds (`IsoKindRhel`, `IsoKindRhcos`) | none | copy boot files, fill templates | `get_ifname()` of the run context |
| Firmware update (`fwupdate.py`) | none but the serial buffer | walk the u-boot dialogue, flash | services, console |
| Manifests, scripts | none | templates and straight-line shell | — |

### What is hard about it

* **Delays.** The program has no way to ask the UEFI where its cursor is. It
  presses a key and reads the lines that get highlighted; answers may be late,
  batched or, with a key lost on the line, absent.
* **Cached state across retries.** A try may fail at any step. The next one runs
  with what `RunContext` has cached, while the DPU may be anywhere.
* **Exclusive resources.** The serial port can be open once; detection opens it
  before the tries, on demand, or reuses the port of the caller.
* **Calls that detect on demand.** Who asks for an address first decides when the
  DPU is reset and whether it is left in its boot menu; the order depends on the
  options.
* **Failures.** Timeouts of every dialogue step, services that end, ^C, a killed
  earlier run.

### What makes each component correct

* Menu walk: it lists every PXE entry once and in menu order, never presses ENTER
  on another entry than the requested one, refuses only what is not there, leaves
  the cursor where a second call can start, and ends.
* Run context and orchestration: the console is held exactly where it is used, the
  boot menu is searched only when the DPU is in it, the user is never asked while
  the DPU hangs in its menu, `dhcpd` serves the DPU that boots, a try does not fail
  because of an earlier one, and every run ends with its services stopped.
* Wait for boot: what it reports is the installed system, the static address is
  preferred, the console is let go when asked for, the wait ends.
* ISO cache: the file that is kept is never the first part of a download, what is
  mounted is that file, a broken one costs one download.
* Host setup: an ephemeral run leaves nothing, a persistent one leaves everything,
  a key is not reused by accident, old services do not answer the DPU.
* Console dialogues: a tool that succeeds has done what it was asked, on the
  device it was asked for; every dialogue ends, or waits for the user.

`PROJECT.json` lists the hazards line by line with the properties that cover them.

## The modules

### MenuPromise and UefiBootMenu

`MenuPromise` states what `uefi_boot_menu_process()` promises: asked for nothing
in particular it answers with the PXE addresses in menu order, asked for one it
boots that entry, and it fails only if the menu has no such answer. What the addresses in
menu order are is a predicate on the answer (`InPxeOrder`): it has exactly the PXE entries,
and of two of them the one nearer to the start marker, counted in DOWN keys (`Dist`), first.

`UefiBootMenu` is the function itself, with the menu at the other end.

* The UEFI is `menu` (a ring of `N` entries), `cursor` and `booted`. An entry is a
  MAC address (a "UEFI PXEv4" line), `Misc` (the "UEFI Misc Device" line that the
  code uses as start marker) or `Other`. EDK2 numbers equal descriptions
  ("UEFI Misc Device 2"), so the exact pattern of the code matches at most one.
* The serial line is two queues, `keys` and `lines`. `MoveCursor` and `StartEntry`
  answer a key, `LoseKey` drops one.
* `pc` is `loop` (the outer `while`), `read` (the inner one), `guard` (the
  0.5 s expect before ENTER) and three ends. `PressDown`, `GiveUp`,
  `ReadStartMarker`, `ReadEndMarker`, `ReadPxeEntry`, `SkipEntry`, `ReadTimeout`,
  `GuardSeesLine`, `PressEnter`, `ReturnMacs`, `RaiseNotFound` are the branches of
  the function. `CallSelect` is the caller's second call with one of the
  addresses, in the menu as the first call left it.
* `expect()` returns the next highlighted lines or times out. The code has three
  waits: 0.80 s for the first line after a key, 0.0 s for more lines, 0.5 s before
  ENTER. Time is abstracted to the one thing that matters: `AnswersBefore` is the
  set of waits that are long enough for every key under way to be answered. With
  `{}` a timeout is possible at any time, with all three the UEFI is prompt. That
  "more" is in the set is a strong assumption: when a line that was there already ends the
  0.80 s at once, the re-read of 0.0 s has to find the answer of the key just pressed.
* One `expect()` may match several lines (the pattern is greedy over the buffer)
  and `finditer` walks them; in the model lines are taken one by one, which is the
  same except that the `break` at the end marker drops the rest of its batch. That
  is the choice in `ReadEndMarker`.

### Pxeboot

One run of `main()`. `cfg` is `Config` (the fields that control the run), `ctx` is
`RunContext`, `pc` the point the program has reached, `back` the caller that
`dpu_mac_ensure()` or `dpu_macs_ensure()` returns to, `exc` an exception on its way
up. The DPU is in its operating system (`os`), its boot menu (`menu`) or a network
boot (`pxe`); `booted` is the address that was selected since the last reset.

* `uefi_reset_and_enter_boot_menu()`, one call of `uefi_boot_menu_process()` and
  `wait_for_boot()` are one step each, which may fail (`ExternalFailure`), by the
  contracts that `BootConsole` (`EntersBootMenu`), `UefiBootMenu` and `WaitForBoot`
  (`BootedIsInstalled`) examine. Of a call that failed or was interrupted one does
  not know how far it got (`LeftBehind`): the DPU may have been reset or not, may be in its
  menu already, or ENTER may have been pressed there.
* `Raise` follows the `with ctx.serial_open()` blocks: an exception inside one goes
  to `Unwind`, which closes the port, and then to the `except` of the retry loop or
  out of `main()`.
* `faults` is history: the tries (0 is the setup) in which something outside of the
  program failed, or the user asked for an interface that is not there. It lets
  `TriesFailOnlyOnFault` say that a failure has a cause in the same try.
* `RunContext._field_get()` belongs to ktoolbox, which is not part of the repository.
  Whether it keeps what `on_missing()` returned is a choice of each call (`FieldGet`):
  what is checked and proved depends on neither.
* MAC addresses are normalised by `netdev.validate_ethaddr()` before they are
  compared, so they are model values. The menu of a DPU is the same after each reset.
* A second ^C during the cleanup is not modelled.

### IsoCache and HostSetup

`IsoCache` is `create_and_mount_iso()`: `UmountEfiboot` is its first statement,
`UrlUnknown` to `UsePath` are `create_iso_file()` with `curl` to `iso2_tmp` and `mv` as
steps of their own, `Mount` to `NestedFails` are `mount_iso()`, `detect_from_iso()` and
`mount_nested_iso()`, and `RetryIso` is the end of the loop, which downloads
a broken cached file again.
A file is what the program can tell about it: an ISO of a kind, one whose nested image is
of no use, one with bad files, the first part of one, or an error page (`curl` has
no `--fail`). `check_files()` reads some of the files of an ISO, so the first part of one
may pass for either kind.

`HostSetup` extends it with the rest of `main()` that changes the host, and with
what may come between two runs. Each of `addr`, `nat`, `profile`, `hosts`, `tmp_key` and
`serves[s]` holds the number of the run that set it up, 0 for none, so that a property can
tell what belongs to whom. `global_cleanup` is the list of the code, in any
order (ktoolbox decides). `Interrupt` is ^C at any point, `Kill` is SIGKILL, which
`podman run --replace` of a second run also sends, and `NextRun` starts in the same
container, in a new one (mounts, key and processes are gone) or after a reboot (address
and NAT are gone, the profile restores the address).

* `StartService`: `killall` is not waited for, so an old process may still have the
  port when the new one binds; the new one then ends. No `killall` precedes the http
  server, so the port of an old one stays taken. A run in a container where such a
  server survived fails its check: safe, but it stays so until the container is replaced.
* `CheckServicesRunning` takes the 3 s of the code as enough to bind or to end.
* `nft -f` is atomic. Of `ip addr add` nobody checks the result: `EphemeralAddress`
  leaves it open. The undo deletes address and NAT whoever made them, also those of
  a profile or of an earlier run; `PersistReady` is stated so that the next
  persistent run must restore them.
* The next run has the same ISO or another one, which is of the same origin, on disk
  and whole (`OtherIso`): what matters is that a mount of the first one may still be
  there. `rhel` and `coreos`, the two persistent host modes, differ in nothing modelled
  here and are one.

### WaitForBoot

`wait_for_boot()` with `check_host_is_booted()`, over the tries of `main()`. `pc = "wait"`
is the top of its loop (`ReleaseConsole`: SIGUSR1 or `--console-wait`), `ping` and `ssh` are
the loop of `check_host_is_booted()` (`ips` its remaining addresses), `ping_static` and
`ssh_static` its second look at the static address, `check` and `sleep` the end of a turn.
The DPU installs, reboots, gets and loses addresses between any two steps; other machines
answer on addresses of the range. A machine lets the program in if it has the key:
the system this run installs or, if the run uses a key it found (`key_reused`, which
`HostSetup` shows to happen only after a kill or a failure between the keys), the old one.

### BootConsole

The dialogues on the serial lines. `SeePrompt` to `ResetFails` are `reset()` with its
`RetryCount` tries; `PrepareImage` to `PrepareFails` are `main()` of `fwupdate.py` before
it. The dialogues proper are data: a sequence of "expect one of these texts, then press these
keys" per tool (`FlashScript`, `MenuScript`, `SelectScript`), which `Talk` walks, with the
loop and the comparison of `select_boot_device()` in it.

The DPU at the other end is external and taken from what the code expects of it: a
screen that a key or the end of a countdown changes, the device it runs from, U-Boot's
memory, `$filesize` and probed flash, and what was written to the flash of each device: by
"sf update" (`flash`) and by "saveenv" (`saved`). It may be too late for any key, lose it, fail
a command, or hang. What it prints while the port is closed is lost.

* `expect()` takes the first match and drops what is before it. `expect(".*")` of
  `uefi_reset_and_enter_boot_menu()` drops any prefix of the buffer, as it depends
  on what has arrived.
* A command of U-Boot and the ENTER after it are one key, and so are the five ESC.
* The prompt of the boot stub says how many seconds are left: 10, or 4 on the card of
  `docs/howto_fix_mac_addresses.txt`. `pxeboot.py` accepts any number, `reset.py` and
  `fwupdate.py` wait for "within 10" and time out on the other (`window`).
* An SCP that an interrupted run left in its Management Menu is brought back to the Main
  Menu by the two RETURNs that `_reset()` sends first (`Returned`): `src/pxe_boot_rhel.md:604`
  says "blank line returns to Main Menu". `for i in range(10)` never turns twice, as `expect()`
  either returns one of the two texts or raises.
* The devices of `good` come up; the boot stub falls back to the other one and announces it
  (`BootsFrom`). `select_boot_device()` reads the announcement and asks again, without a
  bound: if the device asked for does not come up, its loop goes on for ever. That is the
  premise of `DialogueEnds`. `uefi_reset_and_enter_boot_menu()` and `firmware_update()` do not
  read the announcement, so they go on with the device that came up: `EntersBootMenu` and
  `OthersUntouched` say with which.
* `saveenv` writes U-Boot's environment to the SPI flash of the device U-Boot was started
  from; `src/docs/howto_fix_mac_addresses.txt:428` shows it being loaded from there.
  `firmware_update()` always starts the primary one, so an update of the secondary device,
  which is the default, changes the flash of the primary one as well. `OthersUntouched`
  states both: the image goes to the requested device only, the environment to the device
  U-Boot runs from.
* With `--prompt` the user is asked before the reset (`Prompt`) and need not answer.
* U-Boot's `dhcp` loads the file named in the lease. If `/var/lib/tftpboot` still holds the
  `grubaa64.efi` of a `pxeboot.py` run (`leftover`), its "Bytes transferred" is taken for
  that of the image. `FlashesPrepared` is stated without such a file; with
  one it does not hold in the model.

### MC and proof modules

`MCUefiBootMenu` and `MCPxeboot` give values to constants that a `.cfg` cannot
write; the other configurations use the module itself. `PxebootProofs`, `HostSetupProofs`
and `WaitForBootProofs` hold the theorems about their modules. Those about the menu walk are
in three modules that extend each other: `UefiBootMenuProofs` (types, the cursor),
`UefiDetectProofs` (what a detection lists), `UefiPromiseProofs` (the refinement). Those about
the dialogues are in two: `BootConsoleProofs` (types, the flash, `select_boot_device()`) and
`BootDialogueProofs` (the dialogues that end with the firmware in a certain state). Operators whose comment starts with "Mutant" are variants of the definition below them with a
plausible bug; nothing uses them, except that replacing the definition by its
variant must make TLC find a property violated.

## The runs

| Run | Instance | Shows |
|---|---|---|
| `menu_prompt` (`MenuPrompt.cfg`) | N = 5, 2 addresses, budget 10, prompt line | types; `LeavesAboveMarker`; `KeepsPromise`, the refinement of `MenuPromise`, liveness included |
| `menu_lossy` (`MenuLossy.cfg`) | N = 4, 2 addresses, budget 9, prompt, keys get lost | `BootsRequestedEntry`; its inductive strengthening `CursorInv`; `CallsEnd` |
| `menu_slow` (`MenuSlow.cfg`) | N = 3, 2 addresses, budget 7, any latency, keys get lost | `DetectExact` |
| `menu_stale` (`MenuStale.cfg`) | N = 3, second answers may trickle in | violated: `LastLineCounts` |
| `run_safe` (`PxebootSafe.cfg`) | 2 addresses (one random), menus of one and two, 3 tries | types, all safety properties of a run, and `Ends` |
| `run_serial` (`PxebootSerial.cfg`) | as `run_safe` | violated: `FailsOnlyOnFault` |
| `setup` (`HostSetup.cfg`) | 2 runs, every content of the disk, every failure | types; `CacheWhole`, `MountedIsFile`, `DownloadsOnce`, `EphemeralLeavesNothing`, `PersistReady`, `KeyOfThisRun`, `ServesOwn`; their inductive strengthening `HostInv`; `RunEnds` |
| `iso_nested` (`IsoNested.cfg`) | 1 run | violated: `BrokenCacheIsNotFatal` |
| `host_setup_only` (`HostSetupOnly.cfg`) | 1 run | violated: `SetupOnlyRecreates` |
| `wait` (`WaitForBoot.cfg`) | static address and 2 of the range, 2 tries | types; `BootedIsInstalled`, `PollFindsStatic`, `PollInv`, `SignalReleases`, `WaitEnds` |
| `console` (`BootConsole.cfg`) | 5 tries (as in the code), every tool, device and firmware | types; `SelectsDevice`, `EntersBootMenu`, `OthersUntouched`, `FlashesPrepared`; `DialogueInv`; `DialogueEnds` |
| `flash_page` (`FlashPage.cfg`) | 1 try | violated: `FlashesProvided` |

`CHECK_DEADLOCK FALSE` is in every configuration because calls and runs end.

**Why the bounds are enough.** `MAX_SEARCH_COUNT` is 200 in the code; the model's
budget is scaled with the menu. Two rounds (10 keys for 5 entries) are exactly what
the longest search needs: one to find the marker, one to come back to it. With
one key less `KeepsPromise` fails, so the 200 keys of the code serve menus of up to
100 entries. `N = 3` is the smallest menu with a marker and two interfaces, and the
smallest in which "two UP" differs from "one DOWN" by an entry; below it the
second call starts on the marker itself, hence `NAssumption`. Five entries add
others between, above and below. The code distinguishes "equal to `select_boot`"
from "not", hence two addresses. With three tries there is a first, a middle and a last
one. Two runs are the smallest number in which one finds what another left; what one
leaves is a file, a mount, a key, an address, a NAT table or a port, and no run counts
the earlier ones. Two addresses of the DHCP range are one for the DPU and one for another
machine. The safety properties of all these are proved for any number anyway.

**Fairness.** `UefiBootMenu` assumes weak fairness of the program, because each
`expect()` has a timeout and each `send()` returns, and of the UEFI that serves its
console. Nobody must call again and no key must be lost. `Pxeboot` assumes weak
fairness of the program: all its calls end, with a timeout at the latest
(`wait_for_boot()` after 1800 s or more). The user need not answer the prompt, so
`Ends` allows a run to wait there for ever; ^C and dying services are never assumed.
`HostSetup` and `BootConsole` assume the same of the program, and nothing of failures, kills, the
next run, or the DPU. The user's answer to `--prompt` is an action of its own in both (`Prompt`),
outside of `Program`, so nothing is assumed of it either, and `RunEnds` and `DialogueEnds` let
a run wait there for ever. So does `WaitForBoot`: `SignalReleases` holds even if no timeout is
ever reached, and `WaitEnds` has as its premise that time passes (`WF_vars(Clock)`). The
network is not fair to anybody.

## Disagreements between code and comments

* `menu_stale`, `src/pxeboot.py:1077`: the comment at 1026-1030 says the last of several
  lines counts, "that is where the cursor is". `found_mac` is set by every PXE line of
  a batch and not cleared by a later line that is none, so a batch "PXE entry, other
  entry" leaves `found_mac` on the entry above the cursor, and if that is the requested
  one the code goes on to press ENTER on the other one. It takes two lines that arrive
  together. The first such pair may come of an answer that is more than 0.80 s late; but as soon
  as any line is there already when a key is pressed (one that came late, or the answers of
  the two UP), it ends the wait of 0.80 s at once, and only the re-read of 0.0 s
  is left to catch the answer of that key, so ordinary latency is enough from then on.
  `BootsRequestedEntry` is proved for a line that answers before either wait ends.
* `run_serial`, `src/pxeboot.py:295`: the http files name the DPU's interfaces, so
  `setup_http()` asks for all addresses. If nobody has asked before, which is the
  case when `--dpu-dev` is a MAC address or `--dhcp-restricted` is `no`, this detects
  them without a serial port and the run ends with "Cannot access serial without
  creating it first". Both options are documented as usable. A consequence is that
  every run that reaches its tries has the addresses cached, so the branch that skips
  the reset in `uefi_enter_boot_menu_and_boot()` is not reached at this commit.
  `UefiBootMenu` checks the second call that this branch would make anyway, as it
  is what the code of the menu walk provides for.
* `iso_nested`, `src/pxeboot.py:1465`: the comment at 1473-1479 accepts that a file found
  on disk "might be broken. We will retry in that case". If the broken part is the
  nested image of an RHCOS ISO, `mount_nested_iso()` raises out of the loop before that
  comment is reached: this run ends, and so does every later one with this file.
* `host_setup_only`, `src/pxeboot.py:1575`: the help at 679 says to use `--host-setup-only`
  to recreate the configuration that a reboot loses. With host mode `ephemeral`, address
  and NAT are set up, and the cleanup list of the same run takes them back.
* `flash_page`, `src/fwupdate.py:84`: `src/README.md:86` speaks of "the provided firmware".
  `curl` of `prepare_image()` has no `--fail`, so the page of an HTTP error is copied to
  the TFTP root, transferred and flashed, and `fwupdate.py` succeeds.

## The proofs

Proofs hold for every value of the constants that satisfies the named assumptions
of the modules (`NAssumption`, `EntriesAssumption`, ... ), which say no more than that
menus have at least three entries, that placeholders are no addresses, and that
bounds are natural numbers.

`UefiBootMenuProofs`:
* `TypeCorrect`: `Spec => []TypeOK`, for every line.
* `CursorInvariant` and `BootsOnlyRequestedEntry`: if both waits for a line are long
  enough (`{"first", "more"} \subseteq AnswersBefore`), ENTER starts nothing but the
  requested entry, for every menu and with any keys lost. This assumes more than a UEFI that
  answers within 0.80 s: behind a line that was there already the answer must be caught by the
  re-read of 0.0 s (see *Disagreements*). All theorems below that name a line that
  "answers in time" mean both waits. The property says nothing
  about steps before the ENTER, so it is not inductive. `CursorInv` adds where the
  program and the cursor can be apart: a call starts with at most two answers under
  way (a line that is there already, or two UP), so while the parser still looks for
  its start marker up to three may be pending, and the first of three is not the
  marker; from the marker on at most one is, and `found_mac` is set only when it was
  read, when it is the entry under the cursor.
* `DetectionLeavesAboveMarker`: if moreover no key is lost, a detection ends where a second
  call finds every entry. `UpsInv` follows the two UP: the cursor is as far below its goal
  as there are UP still on their way.

`UefiDetectProofs`: `DetectInvariant` and `DetectionExact`, with no assumption on latency or
lost keys. A detection presses nothing but DOWN, and a key that is lost moves nothing, so
what is highlighted is a walk down the menu without a gap. `DetectInv` says that the
lines not read yet are the end of such a walk (`Path`), and that what the parser has
collected is determined by the entry it read last (`Parsed`): nothing before the start
marker, then exactly the PXE entries up to that one in the order of their distance from the
marker (`ListsUpTo`), and once the marker is read again all of them.

`UefiPromiseProofs`: `TurnInvariant` and `ImplementsPromise`, the safety half of the
refinement `KeepsPromise`: `Spec => Promise!Init /\ [][Promise!Next]_(Promise!vars)`. The
assumptions are that the line answers in time and loses nothing, and that the budget is at
least two rounds of the menu (`MaxSearch >= 2 * N`): with a smaller one, or with keys lost
that count as pressed, an entry may be refused that is there. A step that lists is right by
`DetectInv`, one that boots by `CursorInv`. What is new is the refusal, which is right only if
nothing was missed. `TurnInv` counts: every key brings the cursor one entry further, so the
number of keys is at most the distance from the marker, plus a round once the marker
was read (`Counted`), and none of the entries read since is the one asked for
(`Missed`). When the budget is spent the walk has been past every entry behind the marker.

`PxebootProofs`: `TypeCorrect`, `RunInvariant` and from it `ConsoleScoped`,
`SelectsInMenu`, `PromptsOutsideMenu`, `ServesDpu`, `BootsConfigured` and
`TriesIndependent`, for any addresses, menus, number of tries, and whether or
not the context keeps what it detected. `RunInv` has a part per concern: `ConsoleInv` (who holds the console, and that
`in_boot_menu` is believed only while it is true), `MacInv` (every address known
is the one `--dpu-dev` stands for), `DhcpInv`, `TryInv` (the setup is try 0),
`PromptInv` (before the prompt, who enters the boot menu leaves it or ends the run)
and `FaultInv`. Each part has a lemma, split by the actions.

`HostSetupProofs`: `HostInvariant` for any number of runs, and from it `HostTypes`,
`IsoIsWhole`, `IsoDownloadedOnce`, `IsoMountedIsFile`, `EphemeralUndone`, `PersistIsReady`, `KeyIsOwn` and `ServicesAreOwn`. None of these is
inductive, as each speaks of the end of a run or of one point in it. `HostInv` says
what holds on the way: `IsoInv` (what is mounted is the file; a file that is moved
into place is whole), `NetInv` (what is to be undone is on the list before it is
done, what is to stay never is), `ReadyInv`, `KeyInv` (a key that nobody will remove
is noticed) and `ServiceInv` (a service that runs has its port).

`WaitForBootProofs`: `TypeCorrect`, `PollInvariant`, `ReportsInstalled` and `FindsStatic`, for every DHCP
range. `PollInv`: as long as the DPU has been ready on its static address since
the poll began, that address is among those left to ask; a poll that returns was let in.

`BootConsoleProofs`: `TypeCorrect`, `DialogueInvariant`, `FlashesOnlyRequested` and
`SelectsOnlyWanted`, for any number of tries and whichever devices come up.
`FlashesOnlyRequested` says which flashes a run may change: "sf update" only that of the
requested device, "saveenv" only that of the device U-Boot was started from, the primary one
(or the secondary one if the primary falls back). `FlashInv`: no key that is under way names
another device than the requested one, and U-Boot has probed no other. `SaveInv`: the
only choice that `firmware_update()` ever sends is "1", it sends it only after the options of
the stub were on the screen, and its commands only after that; so a U-Boot that reads them
was started by that choice (`SaveStage`), until the "reset" that is sent last. `SelectInv`: an
announcement that is not read yet is the only one and is about the device that runs,
because the DPU boots again only when the choice of a device arrives, which is the
last key sent, and `select_boot_device()` sends it only after it read an announcement.

`BootDialogueProofs`: `EntersOnlyBootMenu` and `FlashesOnlyPrepared`, for any number of
tries. What the tools promise is about the last state, and what makes it true is spread over
the dialogue: the text a turn waits for is the answer to the keys of the turn before, so a
program that has read it knows the screen and that none of its keys is under way.
`EntersOnlyBootMenu` is about the Boot Manager of the secondary device, or of the primary one
if the secondary falls back to it. `EnterInv` and `PreparedInv` say that turn by turn: the keys that may be on their way, the
screen, and the texts in the buffer (`EnterStage`, `FlashStage`).

* Texts of the boot itself may be old or doubled, so nothing is said of them. What is said
  is of the texts that answer keys: none is in the buffer (`Without`) until the answer
  is printed, which is then the last of the buffer (`EndsWith`), as the firmware waits on that
  screen. Hence `expect()` leaves nothing behind it.
* An exception is U-Boot's countdown ("autoboot"), which comes without a key.
  `firmware_update()` waits for it after it chose device 1, and "1)" is printed only in
  the menu, where no such text follows: what is read after it is of the new boot.
* From the U-Boot prompt on the command that matters is acknowledged before the next one is
  sent, so a failed transfer, probe or write ends the dialogue. This is why `~leftover` is
  needed: with it U-Boot prints "Bytes transferred" for another file.

Only model-checked: the liveness properties (`CallsEnd`, `Ends`, `RunEnds`, `SignalReleases`,
`WaitEnds`, `DialogueEnds`) and the liveness half of `KeepsPromise`, as they need fairness and
`ENABLED`, which the prover does not support. Every invariant that a passing run checks is
proved.

## Not modelled

* `setup_http_files()` and `setup_tftp_files()` of the ISO kinds copy files and fill
  templates; they are steps that may fail and that need the DPU's addresses. The
  templates themselves, `install_k8s.sh` and the other scripts are straight-line text.
* Two runs at once. The documented way to start one (`podman run --replace --name`) kills
  the one before, which `HostSetup` has; two under other names would download to the
  same `.tmp` file. So would a `curl && mv` that survives its run, when only the program is
  killed and the next one is started in the same container: `HostSetup` takes the
  children of a killed run to die with it.
* A second ^C while the cleanup runs.
* `--ssh-key`, logging, and the parsing of arguments, which change no state that a
  property is about.
* The last line of `fwupdate.py` joins the threads of its services; that they end
  is a matter of ktoolbox, which appears only as the code uses it.
