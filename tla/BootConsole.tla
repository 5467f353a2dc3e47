----------------------------- MODULE BootConsole -----------------------------
(***************************************************************************)
(* The dialogues the tools hold with the boot firmware of the DPU over its *)
(* serial lines: reset() and select_boot_device() of reset.py,             *)
(* firmware_update() of fwupdate.py and uefi_reset_and_enter_boot_menu()   *)
(* of pxeboot.py.  All of them reset the DPU through ttyUSB1 and then      *)
(* repeat "wait for a text, press keys" on ttyUSB0.                        *)
(*                                                                         *)
(* The firmware is external: a screen that changes when a key arrives or a *)
(* countdown ends, and prints the texts the dialogues wait for.  Keys and  *)
(* texts are FIFO; the firmware may be too late for a key, or lose it.     *)
(***************************************************************************)
EXTENDS Naturals, Sequences

CONSTANT RetryCount   \* retry_count of reset()

ASSUME RetryAssumption == RetryCount \in Nat /\ RetryCount >= 1

Devices == {1, 2}     \* primary, secondary
Tools == {"select", "fwupdate", "enter"}

VARIABLES
  \* the DPU
  jumper,    \* the device it boots from after a reset
  fw,        \* the firmware on each device
  good,      \* the devices that come up; the stub falls back to the other one
  window,    \* the text of its boot menu prompt; docs show 4 and 10 seconds
  scp,       \* what ttyUSB1 shows
  screen,    \* what ttyUSB0 shows
  dev,       \* the device it booted from
  ram, size, \* whose bytes U-Boot holds in memory, whose $filesize
  probed,    \* the device of the last "sf probe"; 0 for none
  flash,     \* what "sf update" left in the flash of each device
  saved,     \* the devices whose flash "saveenv" wrote its environment to
  \* the serial line ttyUSB0
  open, text, keys,
  \* the program
  tool, want, pc, step, try_idx,
  image,     \* what is in the file to flash
  leftover   \* /var/lib/tftpboot holds the grubaa64.efi of a pxeboot run

given == <<jumper, fw, good, window, tool, want, leftover>>
stored == <<flash, saved>>
uboot == <<ram, size, probed, stored>>
dpu == <<scp, screen, dev, uboot>>
line == <<open, text, keys>>
call == <<pc, step, try_idx, image>>
vars == <<given, dpu, line, call>>

Files == {"none", "old", "image", "page", "grub", "mix"}
Prompts == {"within 10", "within 4"}
Texts == Prompts \cup
  {"SPI0", "SPI1", "1)", "2)", "autoboot", "crb106-pcie>", "OK", "bound",
   "transferred", "detected", "written", "escape", "language", "selection", "path"}
Keys ==
  {"b", "1", "2", "enter", "esc", "down", "setenv ethact", "setenv serverip", "saveenv",
   "dhcp", "tftpboot", "sf probe 0:0", "sf probe 1:0", "sf update", "reset"}
Screens == {"running", "early", "window", "options", "loading", "countdown", "uboot",
            "esc", "front0", "front1", "front2", "bootmgr"}
Resetting == {"reset", "kernel", "main", "mgmt"}
Preparing == {"prepare", "services", "prompt"}

TypeOK ==
  /\ jumper \in Devices /\ dev \in Devices
  /\ fw \in [Devices -> {"uboot", "uefi"}]
  /\ good \in (SUBSET Devices) \ {{}}
  /\ window \in Prompts
  /\ scp \in {"uart", "main", "mgmt"}
  /\ screen \in Screens
  /\ ram \in Files /\ size \in Files
  /\ probed \in Devices \cup {0}
  /\ flash \in [Devices -> Files]
  /\ saved \subseteq Devices
  /\ open \in BOOLEAN
  /\ text \in Seq(Texts) /\ keys \in Seq(Keys)
  /\ tool \in Tools
  /\ want \in Devices \cup {0}
  /\ pc \in Preparing \cup Resetting \cup {"open", "talk", "done", "failed"}
  /\ step \in 1..10
  /\ try_idx \in 0..(RetryCount - 1)
  /\ image \in {"none", "image", "page"}
  /\ leftover \in BOOLEAN

\* The DPU is wherever the run before left it, or boots just now.  pxeboot.py opens
\* the port before the reset, so texts of an earlier boot may wait in its buffer.
Init ==
  /\ jumper \in Devices /\ dev \in Devices
  /\ fw \in [Devices -> {"uboot", "uefi"}]
  /\ good \in (SUBSET Devices) \ {{}}
  /\ window \in Prompts
  /\ scp \in {"uart", "main", "mgmt"}
  /\ screen \in {"running", "early", "loading", "options", "uboot", "bootmgr"}
  /\ screen \in {"early", "loading", "options"} => dev \in good
  /\ ram = "none" /\ size = "none" /\ probed = 0
  /\ flash = [d \in Devices |-> "old"] /\ saved = {}
  /\ keys = <<>>
  /\ \/ tool = "select" /\ want \in Devices \cup {0}
     \/ tool = "fwupdate" /\ want \in Devices
     \/ tool = "enter" /\ want = 2
  /\ open = (tool = "enter")
  /\ text = <<>>
  /\ pc = IF tool = "fwupdate" THEN "prepare" ELSE "reset"
  /\ step = 1 /\ try_idx = 0
  /\ image = "none"
  /\ leftover \in IF tool = "fwupdate" THEN BOOLEAN ELSE {FALSE}

-----------------------------------------------------------------------------
\* The firmware of the DPU (external).

\* What is printed while no program has the port open is lost.
Prints(ts) == text' = IF open THEN text \o ts ELSE text
Shows(s, ts) == screen' = s /\ Prints(ts)

\* The boot stub announces "SPI0_CS0,SPI1_CS0, using SPI1_CS0": of the devices it
\* tries, the one that comes up.
BootsFrom(d) == IF d \in good THEN d ELSE 3 - d
Boots(d) ==
  /\ dev' = BootsFrom(d) /\ screen' = "early"
  /\ ram' = "none" /\ size' = "none" /\ probed' = 0

Rest == UNCHANGED <<given, scp, dev, uboot, open, keys, call>>

Announce ==
  /\ screen = "early"
  /\ Shows("window", <<IF dev = 1 THEN "SPI0" ELSE "SPI1", window>>)
  /\ Rest
WindowCloses == screen = "window" /\ screen' = "loading" /\ UNCHANGED text /\ Rest
StartFirmware ==
  /\ screen = "loading"
  /\ IF fw[dev] = "uboot" THEN Shows("countdown", <<"detected", "OK", "autoboot">>)
                          ELSE Shows("esc", <<"escape">>)
  /\ Rest
CountdownEnds ==
  screen \in {"countdown", "esc"} /\ screen' = "running" /\ UNCHANGED text /\ Rest

\* The file U-Boot's "sf update" writes: $filesize bytes of its memory.
Loaded == IF ram = size THEN ram ELSE "mix"

\* The commands of U-Boot.  Any of them may fail; a transfer or a write that does
\* leaves a part of its bytes behind.
\* "saveenv" writes to the flash of the device U-Boot was started from, whatever
\* device was probed; what it erased before it failed is gone as well.
SaveEnv ==
  /\ saved' = saved \cup {dev}
  /\ Prints(<<"OK">>) \/ UNCHANGED text
  /\ UNCHANGED <<screen, dev, ram, size, probed, flash>>

\* "dhcp" also loads the file the lease names, which run_dhcpd() was told to be
\* /grubaa64.efi.
Dhcp ==
  /\ \/ Prints(<<"bound">>) /\ UNCHANGED <<ram, size>>
     \/ leftover /\ ram' = "grub" /\ size' = "grub" /\ Prints(<<"bound", "transferred">>)
  /\ UNCHANGED <<screen, dev, probed, stored>>

Tftpboot ==
  /\ \/ ram' = image /\ size' = image /\ Prints(<<"transferred">>)
     \/ ram' = "mix" /\ UNCHANGED <<size, text>>
  /\ UNCHANGED <<screen, dev, probed, stored>>

Probe(d) ==
  /\ \/ probed' = d /\ Prints(<<"detected">>)
     \/ probed' = 0 /\ UNCHANGED text
  /\ UNCHANGED <<screen, dev, ram, size, stored>>

\* Without a device, or without a file loaded before, it is refused.
Updatable == probed # 0 /\ size # "none"
Update ==
  /\ Updatable
  /\ \/ flash' = [flash EXCEPT ![probed] = Loaded] /\ Prints(<<"written">>)
     \/ flash' = [flash EXCEPT ![probed] = "mix"] /\ UNCHANGED text
  /\ UNCHANGED <<screen, dev, ram, size, probed, saved>>

Command(k) ==
  \/ k = "saveenv" /\ SaveEnv
  \/ k = "dhcp" /\ Dhcp
  \/ k = "tftpboot" /\ Tftpboot
  \/ k = "sf probe 0:0" /\ Probe(1)
  \/ k = "sf probe 1:0" /\ Probe(2)
  \/ k = "sf update" /\ Update
  \/ k = "reset" /\ Boots(jumper) /\ UNCHANGED <<stored, text>>

\* The menus of the boot stub and of the UEFI.
Choose(k) ==
  /\ screen = "options"
  /\ \/ k = "1" /\ Boots(1)
     \/ k = "2" /\ Boots(2)
  /\ UNCHANGED <<stored, text>>
Move(k) ==
  /\ \/ screen = "window" /\ k = "b" /\ Shows("options", <<"1)", "2)">>)
     \/ screen = "countdown" /\ Shows("uboot", <<"crb106-pcie>">>)
     \/ screen = "esc" /\ k = "esc" /\ Shows("front0", <<"language">>)
     \/ screen = "front0" /\ k = "down" /\ Shows("front1", <<>>)
     \/ screen = "front1" /\ k = "down" /\ Shows("front2", <<"selection">>)
     \/ screen = "front2" /\ k = "enter" /\ Shows("bootmgr", <<"path">>)
  /\ UNCHANGED <<dev, uboot>>

Key(k) == \/ screen = "uboot" /\ Command(k)
          \/ Choose(k) \/ Move(k)

ReadKey ==
  /\ keys # <<>> /\ keys' = Tail(keys)
  /\ Key(Head(keys))
  /\ UNCHANGED <<given, scp, open, call>>

\* It is lost, means nothing on this screen, or its command fails.
LoseKey ==
  /\ keys # <<>> /\ keys' = Tail(keys)
  /\ UNCHANGED <<given, dpu, open, text, call>>

DPU == Announce \/ WindowCloses \/ StartFirmware \/ CountdownEnds \/ ReadKey \/ LoseKey

-----------------------------------------------------------------------------
\* reset()

\* The two RETURNs that are sent first bring an SCP that a run left in its
\* Management Menu back to the Main Menu: "blank line returns to Main Menu".
Returned == IF scp = "mgmt" THEN "main" ELSE scp

\* expect("uart:|SCP Main Menu")
SeePrompt ==
  /\ pc = "reset"
  /\ pc' = IF scp = "uart" THEN "kernel" ELSE "main"
  /\ scp' = Returned
  /\ UNCHANGED <<given, screen, dev, uboot, line, step, try_idx, image>>
EnterManagement ==
  /\ pc = "main" /\ pc' = "mgmt"
  /\ scp' = "mgmt"
  /\ UNCHANGED <<given, screen, dev, uboot, line, step, try_idx, image>>

\* Nothing tells the program whether the DPU took the last command.
MayReboot ==
  \/ Boots(jumper) /\ scp' \in {"uart", "main"} /\ UNCHANGED stored
  \/ UNCHANGED dpu
SendReboot ==
  /\ pc \in {"kernel", "mgmt"} /\ pc' = "open"
  /\ MayReboot
  /\ UNCHANGED <<given, line, step, try_idx, image>>

\* Whether an SCP that did not answer took the keys is not known either.
MayHaveReset ==
  \/ pc \in {"kernel", "mgmt"} /\ MayReboot
  \/ /\ pc \in {"reset", "main"}
     /\ scp' \in {scp, IF pc = "reset" THEN Returned ELSE "mgmt"}
     /\ UNCHANGED <<screen, dev, uboot>>

\* Mutant: the tries are not counted.
ResetFailsUncounted ==
  /\ pc \in Resetting
  /\ MayHaveReset
  /\ \/ pc' = "reset"
     \/ try_idx + 1 = RetryCount /\ pc' = "failed"
  /\ UNCHANGED <<given, line, step, try_idx, image>>

\* Mutant: the last try is retried as well.
ResetFailsOnceMore ==
  /\ pc \in Resetting
  /\ MayHaveReset
  /\ IF try_idx = RetryCount THEN pc' = "failed" /\ UNCHANGED try_idx
                             ELSE pc' = "reset" /\ try_idx' = try_idx + 1
  /\ UNCHANGED <<given, line, step, image>>

\* A timeout or an error of the port.  The "for i in range(10)" of _reset() never
\* turns twice: expect() either returns a text that ends it or raises.
ResetFails ==
  /\ pc \in Resetting
  /\ MayHaveReset
  /\ IF try_idx + 1 = RetryCount THEN pc' = "failed" /\ UNCHANGED try_idx
                                 ELSE pc' = "reset" /\ try_idx' = try_idx + 1
  /\ UNCHANGED <<given, line, step, image>>

-----------------------------------------------------------------------------
\* The dialogues, a sequence of "expect one of these texts, then press these
\* keys".  A command of U-Boot is one key here: its line and the ENTER after it.

Turn(ts, ks) == [expect |-> ts, send |-> ks]

\* Mutant: the device of U-Boot's "sf probe" is always the secondary.
FlashScriptSecondary ==
  << Turn({"within 10"}, <<"b">>), Turn({"1)"}, <<"1">>), Turn({"autoboot"}, <<"enter">>),
     Turn({"crb106-pcie>"}, <<"setenv ethact", "saveenv">>), Turn({"OK"}, <<"dhcp">>),
     Turn({"bound"}, <<"setenv serverip", "tftpboot">>),
     Turn({"transferred"}, <<"sf probe 1:0">>), Turn({"detected"}, <<"sf update">>),
     Turn({"written"}, <<"reset">>) >>

\* Mutant: U-Boot is started from the device that is to be updated.
FlashScriptOwnDevice ==
  << Turn({"within 10"}, <<"b">>),
     Turn({"1)"}, <<IF want = 1 THEN "1" ELSE "2">>), Turn({"autoboot"}, <<"enter">>),
     Turn({"crb106-pcie>"}, <<"setenv ethact", "saveenv">>), Turn({"OK"}, <<"dhcp">>),
     Turn({"bound"}, <<"setenv serverip", "tftpboot">>),
     Turn({"transferred"}, <<IF want = 1 THEN "sf probe 0:0" ELSE "sf probe 1:0">>),
     Turn({"detected"}, <<"sf update">>), Turn({"written"}, <<"reset">>) >>

\* Mutant: the transfer and the write are not waited for.
FlashScriptHasty ==
  << Turn({"within 10"}, <<"b">>), Turn({"1)"}, <<"1">>), Turn({"autoboot"}, <<"enter">>),
     Turn({"crb106-pcie>"}, <<"setenv ethact", "saveenv">>), Turn({"OK"}, <<"dhcp">>),
     Turn({"bound"}, <<"setenv serverip", "tftpboot">>),
     Turn({"transferred"}, <<IF want = 1 THEN "sf probe 0:0" ELSE "sf probe 1:0">>),
     Turn({"detected"}, <<"sf update", "reset">>) >>

\* firmware_update()
FlashScript ==
  << Turn({"within 10"}, <<"b">>),
     Turn({"1)"}, <<"1">>),
     Turn({"autoboot"}, <<"enter">>),
     Turn({"crb106-pcie>"}, <<"setenv ethact", "saveenv">>),
     Turn({"OK"}, <<"dhcp">>),
     Turn({"bound"}, <<"setenv serverip", "tftpboot">>),
     Turn({"transferred"}, <<IF want = 1 THEN "sf probe 0:0" ELSE "sf probe 1:0">>),
     Turn({"detected"}, <<"sf update">>),
     Turn({"written"}, <<"reset">>) >>

\* Mutant: "Device Path" is not waited for.
MenuScriptHasty ==
  << Turn(Prompts, <<"b">>), Turn({"2)"}, <<"2">>), Turn({"escape"}, <<"esc">>),
     Turn({"language"}, <<"down", "down">>), Turn({"selection"}, <<"enter">>) >>

\* uefi_reset_and_enter_boot_menu().  Five ESC open the menu as one does.
MenuScript ==
  << Turn(Prompts, <<"b">>),
     Turn({"2)"}, <<"2">>),
     Turn({"escape"}, <<"esc">>),
     Turn({"language"}, <<"down", "down">>),
     Turn({"selection"}, <<"enter">>),
     Turn({"path"}, <<>>) >>

\* The rest of select_boot_device()'s loop after it found another device.
SelectScript ==
  << Turn({"SPI0", "SPI1"}, <<>>),
     Turn({"within 10"}, <<"b">>),
     Turn({"2)"}, <<IF want = 1 THEN "1" ELSE "2">>) >>

Script == CASE tool = "select" -> SelectScript
            [] tool = "fwupdate" -> FlashScript
            [] tool = "enter" -> MenuScript

\* expect() takes the first match and drops all text up to it.
FirstMatch(i, ts) == text[i] \in ts /\ \A j \in 1..(i - 1) : text[j] \notin ts
DropTo(i) == text' = SubSeq(text, i + 1, Len(text))

\* A tool opens the port after the reset; pxeboot.py, whose port is open, drops
\* with expect(".*") as much of the old text as has arrived.
OpenPort ==
  /\ pc = "open"
  /\ IF tool = "select" /\ want = 0
     THEN pc' = "done" /\ UNCHANGED <<open, text>>
     ELSE /\ pc' = "talk" /\ open' = TRUE
          /\ IF tool = "enter"
             THEN \E i \in 0..Len(text) : DropTo(i)
             ELSE text' = <<>>
  /\ UNCHANGED <<given, dpu, keys, step, try_idx, image>>

\* Mutant: the text of the device SPI1_CS0 is taken for the primary's.
BootsWantedSwapped(found) == want = IF found = "SPI1" THEN 1 ELSE 2

\* "current == boot_device"
BootsWanted(found) == want = IF found = "SPI0" THEN 1 ELSE 2

Talk ==
  /\ pc = "talk" /\ step <= Len(Script)
  /\ \E i \in DOMAIN text :
       /\ FirstMatch(i, Script[step].expect) /\ DropTo(i)
       /\ IF tool = "select" /\ step = 1 /\ BootsWanted(text[i])
          THEN pc' = "done" /\ UNCHANGED step
          ELSE pc' = pc /\ step' = IF tool = "select" THEN (step % 3) + 1 ELSE step + 1
  /\ keys' = keys \o Script[step].send
  /\ UNCHANGED <<given, dpu, open, try_idx, image>>
Finish ==
  /\ pc = "talk" /\ step > Len(Script) /\ pc' = "done"
  /\ UNCHANGED <<given, dpu, line, step, try_idx, image>>
TimesOut ==
  /\ pc = "talk" /\ step <= Len(Script)
  /\ \A i \in DOMAIN text : text[i] \notin Script[step].expect
  /\ pc' = "failed"
  /\ UNCHANGED <<given, dpu, line, step, try_idx, image>>

-----------------------------------------------------------------------------
\* prepare_image() and the services of fwupdate.py

\* curl has no "--fail": the page of an HTTP error is a download like any other.
PrepareImage ==
  /\ pc = "prepare" /\ pc' = "services"
  /\ image' \in {"image", "page"}
  /\ UNCHANGED <<given, dpu, line, step, try_idx>>

\* With --prompt the user is asked first.
StartServices ==
  /\ pc = "services" /\ pc' \in {"prompt", "reset"}
  /\ UNCHANGED <<given, dpu, line, step, try_idx, image>>
PrepareFails ==
  /\ pc \in {"prepare", "services"} /\ pc' = "failed"
  /\ UNCHANGED <<given, dpu, line, step, try_idx, image>>

\* The user presses ENTER, or ^C.
Prompt ==
  /\ pc = "prompt" /\ pc' \in {"reset", "failed"}
  /\ UNCHANGED <<given, dpu, line, step, try_idx, image>>

Program == \/ PrepareImage \/ StartServices \/ PrepareFails
           \/ SeePrompt \/ EnterManagement \/ SendReboot \/ ResetFails
           \/ OpenPort \/ Talk \/ Finish \/ TimesOut

Next == Program \/ Prompt \/ DPU

\* Every wait of the program has a timeout, but for the one for the user, who need
\* not answer; the DPU may hang anywhere.
Spec == Init /\ [][Next]_vars /\ WF_vars(Program)

-----------------------------------------------------------------------------
\* reset.py -B that succeeds leaves the DPU booting from the requested device,
\* whatever device it comes up with and however many times it has to be asked:
\* select_boot_device() believes only the firmware's own announcement.
SelectsDevice == tool = "select" /\ pc = "done" /\ want # 0 => dev = want

\* uefi_reset_and_enter_boot_menu() that returns has opened the Boot Manager of the
\* secondary device, also when keys get lost, windows are missed and texts of an
\* earlier boot are still in the buffer: where uefi_boot_menu_process() starts.
\* When that device does not come up it is the one of the primary: the program
\* does not read what the boot stub announces.
EntersBootMenu ==
  tool = "enter" /\ pc = "done" => screen = "bootmgr" /\ dev = BootsFrom(2)

\* Only fwupdate.py writes a flash.  "sf update" writes that of the requested
\* device, whatever the commands before did: it goes to the device probed last, and
\* every "sf probe" that can still reach U-Boot names the requested one.  "saveenv"
\* writes that of the device U-Boot was started from, which is the primary one, also
\* when the secondary is to be updated, unless the primary does not come up.
OthersUntouched ==
  \A d \in Devices :
    /\ flash[d] # "old" => tool = "fwupdate" /\ d = want
    /\ d \in saved => tool = "fwupdate" /\ d = BootsFrom(1)

\* fwupdate.py writes the file it prepared; when it succeeds all of it was written,
\* and when a write breaks off it does not succeed.  With a grubaa64.efi in the TFTP
\* root U-Boot's own transfer after "dhcp" is taken for that of the image, and what
\* is written is not promised.
FlashesPrepared == tool = "fwupdate" /\ ~leftover =>
  /\ flash[want] \in {"old", "mix", image}
  /\ pc = "done" => flash[want] = image

\* Every dialogue ends, whatever the DPU loses or leaves out, or waits for the user:
\* each expect() has a timeout, the tries of reset() are counted, and a turn of
\* select_boot_device()'s loop needs a new announcement.  The requested device has
\* to come up: while the stub falls back to the other one, the loop goes on.
Ended == {"done", "failed"}
DialogueEnds ==
  pc \notin Ended /\ (tool = "select" => want \in good \cup {0}) ~> pc \in Ended \cup {"prompt"}

\* README.md: "Utilize the serial interface at /dev/ttyUSB0 to update the card with
\* the provided firmware".  The page of an HTTP error is flashed as well.
FlashesProvided == tool = "fwupdate" /\ ~leftover /\ pc = "done" => flash[want] = "image"

-----------------------------------------------------------------------------
(* Why these hold *)

Probes == {"sf probe 0:0", "sf probe 1:0"}
Choices == {"1", "2"}
Announces == {i \in DOMAIN text : text[i] \in {"SPI0", "SPI1"}}

\* No key that is on its way names another device, and U-Boot knows of no other.
Named == IF want = 1 THEN "sf probe 0:0" ELSE "sf probe 1:0"
Harmless ==
  {k \in Keys : k \in Probes \cup {"saveenv"} => tool = "fwupdate" /\ k \in {Named, "saveenv"}}

FlashInv ==
  /\ keys \in Seq(Harmless)
  /\ probed # 0 => tool = "fwupdate" /\ probed = want
  /\ want = 0 => tool = "select"
  /\ \A d \in Devices : flash[d] # "old" => tool = "fwupdate" /\ d = want

\* firmware_update() types its commands after the options of the stub were on the
\* screen, and the only choice it sends is the primary device: a U-Boot that reads
\* them was started by that choice, until the "reset" that is sent last.
SaveStage ==
  /\ pc \in Preparing \cup Resetting \cup {"open"} => step = 1
  /\ step = 1 => keys = <<>>
  /\ step = 2 => keys \in Seq({"b"})
  /\ keys \in Seq(Keys \ {"2"})
  /\ \A i \in DOMAIN keys : keys[i] = "reset" => i = Len(keys) /\ step = 10
  /\ \A i \in DOMAIN text : text[i] = "1)" => step # 1 /\ (step = 2 => screen = "options")
  /\ \/ step \in 1..2 \/ screen = "options" \/ dev = BootsFrom(1)
     \/ step = 10 /\ keys = <<>>

SaveInv ==
  /\ \A d \in saved : tool = "fwupdate" /\ d = BootsFrom(1)
  /\ tool = "fwupdate" => SaveStage

\* The DPU announces a device once for each boot, and boots again only when the
\* last key that was sent, the choice of a device, arrives: an announcement that is
\* not read yet is about the device it boots from, and no choice is on its way.
Undecided == \A i \in DOMAIN keys : keys[i] \notin Choices
Settled == Announces # {} \/ step # 1 \/ pc = "done"

BeforeTalk == pc \in Resetting \cup {"open"} => step = 1
Quiet == pc \in Resetting \cup {"open"} \/ want = 0 => keys = <<>> /\ text = <<>> /\ ~open
ChoiceIsLast == /\ keys \in Seq({"b"} \cup Choices)
                /\ \A i \in DOMAIN keys : keys[i] \in Choices => i = Len(keys)
OneAnnouncement ==
  /\ \A i, j \in Announces : i = j
  /\ \A i \in Announces : text[i] = IF dev = 1 THEN "SPI0" ELSE "SPI1"
  /\ step # 1 \/ pc = "done" => Announces = {}
  /\ Undecided \/ screen # "early"
  /\ Settled => Undecided /\ screen # "early"

SelectInv == tool = "select" =>
  /\ pc \notin Preparing /\ step \in 1..3
  /\ BeforeTalk
  /\ Quiet
  /\ ChoiceIsLast
  /\ pc \in {"talk", "done"} /\ want # 0 => OneAnnouncement
  /\ SelectsDevice

DialogueInv == FlashInv /\ SaveInv /\ SelectInv

=============================================================================
