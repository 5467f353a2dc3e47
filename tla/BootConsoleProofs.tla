-------------------------- MODULE BootConsoleProofs --------------------------
(***************************************************************************)
(* Proofs about BootConsole: its types, which flash is written by which    *)
(* command, and that select_boot_device() ends with the wanted device,     *)
(* whatever keys are late or lost.                                         *)
(***************************************************************************)
EXTENDS BootConsole, TLAPS

-----------------------------------------------------------------------------
(* Sequences *)

\* What is appended to a sequence are the elements of the other one.
LEMMA Appended ==
  ASSUME NEW S, NEW s \in Seq(S), NEW t \in Seq(S)
  PROVE  /\ s \o t \in Seq(S)
         /\ \A i \in DOMAIN (s \o t) :
              \/ i \in DOMAIN s /\ (s \o t)[i] = s[i]
              \/ /\ i - Len(s) \in DOMAIN t /\ (s \o t)[i] = t[i - Len(s)]
                 /\ i > Len(s)
OBVIOUS

\* Tail drops the first element.
LEMMA Rested ==
  ASSUME NEW S, NEW s \in Seq(S), s # <<>>
  PROVE  /\ Tail(s) \in Seq(S) /\ Head(s) \in S
         /\ Len(Tail(s)) = Len(s) - 1 /\ 1 \in DOMAIN s /\ Head(s) = s[1]
         /\ \A i \in DOMAIN Tail(s) : i + 1 \in DOMAIN s /\ Tail(s)[i] = s[i + 1]
OBVIOUS

\* What is left after the first i elements.
LEMMA Dropped ==
  ASSUME NEW S, NEW s \in Seq(S), NEW i \in 0..Len(s)
  PROVE  /\ SubSeq(s, i + 1, Len(s)) \in Seq(S)
         /\ \A j \in DOMAIN SubSeq(s, i + 1, Len(s)) :
              /\ j \in Nat /\ j # 0
              /\ j + i \in DOMAIN s /\ SubSeq(s, i + 1, Len(s))[j] = s[j + i]
OBVIOUS

\* One and two elements make a sequence.
LEMMA Short ==
  ASSUME NEW S, NEW a \in S, NEW b \in S
  PROVE  <<>> \in Seq(S) /\ <<a>> \in Seq(S) /\ <<a, b>> \in Seq(S)
OBVIOUS

-----------------------------------------------------------------------------
(* The types *)

\* Every dialogue sends keys, and has at most nine turns.
LEMMA ScriptTyped ==
  ASSUME tool \in Tools, want \in Devices \cup {0}
  PROVE  /\ Len(Script) \in 1..9
         /\ tool = "select" => Len(Script) = 3
         /\ \A i \in 1..Len(Script) : Script[i].send \in Seq(Keys)
<1>k. /\ <<>> \in Seq(Keys) /\ <<"b">> \in Seq(Keys) /\ <<"1">> \in Seq(Keys)
      /\ <<"2">> \in Seq(Keys) /\ <<"enter">> \in Seq(Keys) /\ <<"esc">> \in Seq(Keys)
      /\ <<"down", "down">> \in Seq(Keys) /\ <<"dhcp">> \in Seq(Keys)
      /\ <<"setenv ethact", "saveenv">> \in Seq(Keys)
      /\ <<"setenv serverip", "tftpboot">> \in Seq(Keys)
      /\ <<"sf probe 0:0">> \in Seq(Keys) /\ <<"sf probe 1:0">> \in Seq(Keys)
      /\ <<"sf update">> \in Seq(Keys) /\ <<"reset">> \in Seq(Keys)
  BY DEF Keys
<1>1. CASE tool = "select"
  <2>1. Script = SelectScript  BY <1>1 DEF Script
  <2>2. Len(SelectScript) = 3  BY DEF SelectScript
  <2>3. \A i \in 1..3 : SelectScript[i].send \in Seq(Keys)
    <3>1. SelectScript[1].send \in Seq(Keys)  BY <1>k DEF SelectScript, Turn
    <3>2. SelectScript[2].send \in Seq(Keys)  BY <1>k DEF SelectScript, Turn
    <3>3. SelectScript[3].send \in Seq(Keys)  BY <1>k DEF SelectScript, Turn
    <3> QED  BY <3>1, <3>2, <3>3
  <2> QED  BY <2>1, <2>2, <2>3, <1>1
<1>2. CASE tool = "fwupdate"
  <2>1. Script = FlashScript  BY <1>2 DEF Script
  <2>2. Len(FlashScript) = 9  BY DEF FlashScript
  <2>3. \A i \in 1..9 : FlashScript[i].send \in Seq(Keys)
    <3>1. FlashScript[1].send \in Seq(Keys)  BY <1>k DEF FlashScript, Turn
    <3>2. FlashScript[2].send \in Seq(Keys)  BY <1>k DEF FlashScript, Turn
    <3>3. FlashScript[3].send \in Seq(Keys)  BY <1>k DEF FlashScript, Turn
    <3>4. FlashScript[4].send \in Seq(Keys)  BY <1>k DEF FlashScript, Turn
    <3>5. FlashScript[5].send \in Seq(Keys)  BY <1>k DEF FlashScript, Turn
    <3>6. FlashScript[6].send \in Seq(Keys)  BY <1>k DEF FlashScript, Turn
    <3>7. FlashScript[7].send \in Seq(Keys)  BY <1>k DEF FlashScript, Turn
    <3>8. FlashScript[8].send \in Seq(Keys)  BY <1>k DEF FlashScript, Turn
    <3>9. FlashScript[9].send \in Seq(Keys)  BY <1>k DEF FlashScript, Turn
    <3> QED  BY <3>1, <3>2, <3>3, <3>4, <3>5, <3>6, <3>7, <3>8, <3>9
  <2> QED  BY <2>1, <2>2, <2>3, <1>2
<1>3. CASE tool = "enter"
  <2>1. Script = MenuScript  BY <1>3 DEF Script
  <2>2. Len(MenuScript) = 6  BY DEF MenuScript
  <2>3. \A i \in 1..6 : MenuScript[i].send \in Seq(Keys)
    <3>1. MenuScript[1].send \in Seq(Keys)  BY <1>k DEF MenuScript, Turn
    <3>2. MenuScript[2].send \in Seq(Keys)  BY <1>k DEF MenuScript, Turn
    <3>3. MenuScript[3].send \in Seq(Keys)  BY <1>k DEF MenuScript, Turn
    <3>4. MenuScript[4].send \in Seq(Keys)  BY <1>k DEF MenuScript, Turn
    <3>5. MenuScript[5].send \in Seq(Keys)  BY <1>k DEF MenuScript, Turn
    <3>6. MenuScript[6].send \in Seq(Keys)  BY <1>k DEF MenuScript, Turn
    <3> QED  BY <3>1, <3>2, <3>3, <3>4, <3>5, <3>6
  <2> QED  BY <2>1, <2>2, <2>3, <1>3
<1> QED  BY <1>1, <1>2, <1>3 DEF Tools

\* What is printed is text.
LEMMA PrintsTyped ==
  ASSUME text \in Seq(Texts), NEW ts \in Seq(Texts), Prints(ts)
  PROVE  text' \in Seq(Texts)
BY Appended DEF Prints

\* One of the devices comes up.
LEMMA BootsTyped ==
  ASSUME good \in (SUBSET Devices) \ {{}}, NEW d \in Devices
  PROVE  BootsFrom(d) \in good
<1>0. good \in SUBSET Devices /\ good # {}  OBVIOUS
<1>1. good \subseteq {1, 2} /\ good # {}  BY ONLY <1>0 DEF Devices
<1>2. d = 1 \/ d = 2  BY DEF Devices
<1>3. 1 \in good \/ 2 \in good
  <2>1. PICK g : g \in good  BY <1>1
  <2> QED  BY <2>1, <1>1
<1>4. CASE d \in good  BY <1>4 DEF BootsFrom
<1>5. CASE d \notin good
  <2>1. BootsFrom(d) = 3 - d  BY <1>5 DEF BootsFrom
  <2>2. CASE d = 1  BY <2>1, <2>2, <1>3, <1>5
  <2>3. CASE d = 2  BY <2>1, <2>3, <1>3, <1>5
  <2> QED  BY <1>2, <2>2, <2>3
<1> QED  BY <1>4, <1>5

\* What the firmware does with a key keeps the types of the DPU.
LEMMA KeyTyped ==
  ASSUME TypeOK, NEW k \in Keys, Key(k)
  PROVE  /\ dev' \in Devices /\ screen' \in Screens /\ text' \in Seq(Texts)
         /\ ram' \in Files /\ size' \in Files
         /\ probed' \in Devices \cup {0} /\ flash' \in [Devices -> Files]
         /\ saved' \subseteq Devices
<1> USE DEF Devices, stored
<1>b. BootsFrom(1) \in Devices /\ BootsFrom(2) \in Devices /\ BootsFrom(jumper) \in Devices
  BY BootsTyped DEF TypeOK
<1>t. /\ <<"OK">> \in Seq(Texts) /\ <<"bound">> \in Seq(Texts) /\ <<"detected">> \in Seq(Texts)
      /\ <<"bound", "transferred">> \in Seq(Texts) /\ <<"transferred">> \in Seq(Texts)
      /\ <<"written">> \in Seq(Texts) /\ <<"1)", "2)">> \in Seq(Texts)
      /\ <<"crb106-pcie>">> \in Seq(Texts) /\ <<"language">> \in Seq(Texts)
      /\ <<>> \in Seq(Texts) /\ <<"selection">> \in Seq(Texts) /\ <<"path">> \in Seq(Texts)
  BY DEF Texts
<1>1. CASE Command(k)
  <2>1. CASE SaveEnv  BY <2>1, <1>t, PrintsTyped DEF TypeOK, SaveEnv, uboot
  <2>2. CASE Dhcp  BY <2>2, <1>t, PrintsTyped DEF TypeOK, Dhcp, Files
  <2>3. CASE Tftpboot  BY <2>3, <1>t, PrintsTyped DEF TypeOK, Tftpboot, Files
  <2>4. ASSUME NEW d \in Devices, Probe(d)
        PROVE  /\ dev' \in Devices /\ screen' \in Screens /\ text' \in Seq(Texts)
               /\ ram' \in Files /\ size' \in Files
               /\ probed' \in Devices \cup {0} /\ flash' \in [Devices -> Files]
               /\ saved' \subseteq Devices
    BY <2>4, <1>t, PrintsTyped DEF TypeOK, Probe
  <2>5. CASE Update
    <3>1. flash' \in [Devices -> Files]
      <4>1. Loaded \in Files /\ "mix" \in Files  BY DEF TypeOK, Loaded, Files
      <4>2. flash \in [Devices -> Files]  BY DEF TypeOK
      <4> QED  BY ONLY <2>5, <4>1, <4>2 DEF Update
    <3>2. text' \in Seq(Texts)  BY <2>5, <1>t, PrintsTyped DEF TypeOK, Update
    <3> QED  BY <2>5, <3>1, <3>2 DEF TypeOK, Update
  <2>6. CASE Boots(jumper) /\ UNCHANGED <<stored, text>>
    BY <1>b, <2>6 DEF TypeOK, Boots, Files, Screens
  <2> QED  BY <1>1, <2>1, <2>2, <2>3, <2>4, <2>5, <2>6 DEF Command
<1>2. CASE Choose(k)  BY <1>2, <1>b DEF TypeOK, Choose, Boots, Files, Screens
<1>3. CASE Move(k)  BY <1>3, <1>t, PrintsTyped DEF TypeOK, Move, Shows, Screens, uboot
<1> QED  BY <1>1, <1>2, <1>3 DEF Key

\* Initially, and after every step.
LEMMA TypeInit == Init => TypeOK
<1> SUFFICES ASSUME Init
             PROVE  TypeOK
  OBVIOUS
<1>1. open \in BOOLEAN /\ leftover \in BOOLEAN  BY DEF Init
<1>2. text \in Seq(Texts) /\ keys \in Seq(Keys)  BY DEF Init
<1>3. want \in Devices \cup {0} /\ tool \in Tools  BY DEF Init, Tools, Devices
<1>4. pc \in {"prepare", "reset"} /\ step \in 1..10 /\ try_idx \in 0..(RetryCount - 1)
  BY RetryAssumption DEF Init
<1>5. flash \in [Devices -> Files] /\ ram \in Files /\ size \in Files  BY DEF Init, Files
<1>6. pc \in Preparing \cup Resetting \cup {"open", "talk", "done", "failed"}
  BY <1>4 DEF Preparing, Resetting
<1>7. screen \in Screens /\ saved \subseteq Devices /\ good \in (SUBSET Devices) \ {{}}
  BY DEF Init, Screens
<1>8. /\ jumper \in Devices /\ dev \in Devices /\ fw \in [Devices -> {"uboot", "uefi"}]
      /\ window \in Prompts /\ scp \in {"uart", "main", "mgmt"}
      /\ probed \in Devices \cup {0} /\ image \in {"none", "image", "page"}
  BY DEF Init
<1> QED  BY ONLY <1>1, <1>2, <1>3, <1>4, <1>5, <1>6, <1>7, <1>8 DEF TypeOK

LEMMA TypeStep == TypeOK /\ [Next]_vars => TypeOK'
<1> SUFFICES ASSUME TypeOK, [Next]_vars
             PROVE  TypeOK'
  OBVIOUS
<1> USE DEF given, dpu, uboot, stored, line, call, Rest
<1>t. /\ <<"SPI0", "within 10">> \in Seq(Texts) /\ <<"SPI0", "within 4">> \in Seq(Texts)
      /\ <<"SPI1", "within 10">> \in Seq(Texts) /\ <<"SPI1", "within 4">> \in Seq(Texts)
      /\ <<"detected", "OK", "autoboot">> \in Seq(Texts) /\ <<"escape">> \in Seq(Texts)
  BY DEF Texts, Prompts
<1>s. /\ Len(Script) \in 1..9 /\ (tool = "select" => Len(Script) = 3)
      /\ \A i \in 1..Len(Script) : Script[i].send \in Seq(Keys)
  BY ScriptTyped DEF TypeOK
<1>1. CASE Announce
  <2>1. <<IF dev = 1 THEN "SPI0" ELSE "SPI1", window>> \in Seq(Texts)
    BY <1>t DEF TypeOK, Prompts
  <2> QED  BY <1>1, <2>1, PrintsTyped DEF Announce, Shows, TypeOK, Screens
<1>2. CASE WindowCloses  BY <1>2 DEF WindowCloses, TypeOK, Screens
<1>3. CASE StartFirmware  BY <1>3, <1>t, PrintsTyped DEF StartFirmware, Shows, TypeOK, Screens
<1>4. CASE CountdownEnds  BY <1>4 DEF CountdownEnds, TypeOK, Screens
<1>5. CASE ReadKey
  <2>1. Tail(keys) \in Seq(Keys) /\ Head(keys) \in Keys
    BY <1>5, Rested DEF ReadKey, TypeOK
  <2> QED  BY <1>5, <2>1, KeyTyped DEF ReadKey, TypeOK
<1>6. CASE LoseKey
  <2>1. Tail(keys) \in Seq(Keys)
    BY <1>6, Rested DEF LoseKey, TypeOK
  <2> QED  BY <1>6, <2>1 DEF LoseKey, TypeOK
<1>7. CASE PrepareImage  BY <1>7 DEF PrepareImage, TypeOK, Preparing
<1>8. CASE StartServices  BY <1>8 DEF StartServices, TypeOK, Preparing, Resetting
<1>9. CASE PrepareFails \/ Prompt
  BY <1>9 DEF PrepareFails, Prompt, TypeOK, Resetting
<1>10. CASE SeePrompt  BY <1>10 DEF SeePrompt, Returned, TypeOK, Resetting
<1>11. CASE EnterManagement  BY <1>11 DEF EnterManagement, TypeOK, Resetting
<1>b. BootsFrom(jumper) \in Devices  BY BootsTyped DEF TypeOK
<1>12. CASE SendReboot
  BY <1>12, <1>b DEF SendReboot, MayReboot, Boots, TypeOK, Screens, Files
<1>13. CASE ResetFails
  BY <1>13, <1>b, RetryAssumption
  DEF ResetFails, MayHaveReset, Returned, MayReboot, Boots, TypeOK, Screens, Files, Resetting
<1>14. CASE OpenPort
  <2>1. \A i \in 0..Len(text) : SubSeq(text, i + 1, Len(text)) \in Seq(Texts)
    BY Dropped DEF TypeOK
  <2>2. text' \in Seq(Texts)
    <3>1. CASE text' = text  BY <3>1 DEF TypeOK
    <3>2. CASE text' = <<>>  BY <3>2
    <3> QED  BY <1>14, <2>1, <3>1, <3>2 DEF OpenPort, DropTo
  <2>3. open' \in BOOLEAN  BY <1>14 DEF OpenPort, TypeOK
  <2> QED  BY <1>14, <2>2, <2>3 DEF OpenPort, TypeOK
<1>15. CASE Talk
  <2>1. text' \in Seq(Texts)
    BY <1>15, Dropped DEF Talk, DropTo, TypeOK
  <2>2. keys' \in Seq(Keys)
    BY <1>15, <1>s, Appended DEF Talk, TypeOK
  <2>3. step' \in 1..10 /\ pc' \in {"talk", "done"}
    <3>1. (step % 3) + 1 \in 1..10  BY DEF TypeOK
    <3>2. step \in 1..9
      <4>1. step <= Len(Script)  BY <1>15 DEF Talk
      <4>2. step \in 1..10  BY DEF TypeOK
      <4>3. Len(Script) \in 1..9  BY <1>s
      <4>4. \A n \in 1..9 : step <= n => step \in 1..9  BY <4>2
      <4> QED  BY <4>1, <4>3, <4>4
    <3> QED  BY <1>15, <3>1, <3>2 DEF Talk
  <2> QED  BY <1>15, <2>1, <2>2, <2>3 DEF Talk, TypeOK
<1>16. CASE Finish  BY <1>16 DEF Finish, TypeOK
<1>17. CASE TimesOut  BY <1>17 DEF TimesOut, TypeOK
<1>18. CASE UNCHANGED vars  BY <1>18 DEF vars, TypeOK
<1> QED
  BY <1>1, <1>2, <1>3, <1>4, <1>5, <1>6, <1>7, <1>8, <1>9, <1>10, <1>11, <1>12, <1>13,
     <1>14, <1>15, <1>16, <1>17, <1>18 DEF Next, Program, DPU

\* Every variable of the dialogues keeps its type; the tries of reset() stay
\* within their bound, and so does the place in the dialogue.
THEOREM TypeCorrect == Spec => []TypeOK
BY TypeInit, TypeStep, PTL DEF Spec

-----------------------------------------------------------------------------
(* The flash *)

\* What the tools send names no other device than the requested one.
LEMMA ScriptHarmless ==
  ASSUME tool \in Tools
  PROVE  \A i \in 1..Len(Script) : Script[i].send \in Seq(Harmless)
<1>h. /\ {"b", "1", "2", "enter", "esc", "down", "dhcp", "setenv ethact",
          "setenv serverip", "tftpboot", "sf update", "reset"} \subseteq Harmless
      /\ tool = "fwupdate" => Named \in Harmless /\ "saveenv" \in Harmless
  BY DEF Harmless, Keys, Probes, Named
<1>k. /\ <<>> \in Seq(Harmless) /\ <<"b">> \in Seq(Harmless) /\ <<"1">> \in Seq(Harmless)
      /\ <<"2">> \in Seq(Harmless) /\ <<"enter">> \in Seq(Harmless)
      /\ <<"esc">> \in Seq(Harmless) /\ <<"down", "down">> \in Seq(Harmless)
      /\ <<"dhcp">> \in Seq(Harmless) /\ <<"reset">> \in Seq(Harmless)
      /\ <<"setenv serverip", "tftpboot">> \in Seq(Harmless)
      /\ <<"sf update">> \in Seq(Harmless)
  BY <1>h, Short
<1>1. CASE tool = "select"
  <2>a. Script = SelectScript /\ Len(SelectScript) = 3  BY <1>1 DEF Script, SelectScript
  <2>1. SelectScript[1].send \in Seq(Harmless)  BY <1>k DEF SelectScript, Turn
  <2>2. SelectScript[2].send \in Seq(Harmless)  BY <1>k DEF SelectScript, Turn
  <2>3. SelectScript[3].send \in Seq(Harmless)  BY <1>k DEF SelectScript, Turn
  <2>b. \A i \in 1..3 : SelectScript[i].send \in Seq(Harmless)
    BY <2>1, <2>2, <2>3
  <2> QED  BY <2>a, <2>b
<1>2. CASE tool = "fwupdate"
  <2>a. Script = FlashScript /\ Len(FlashScript) = 9  BY <1>2 DEF Script, FlashScript
  <2>1. FlashScript[1].send \in Seq(Harmless)  BY <1>k DEF FlashScript, Turn
  <2>2. FlashScript[2].send \in Seq(Harmless)  BY <1>k DEF FlashScript, Turn
  <2>3. FlashScript[3].send \in Seq(Harmless)  BY <1>k DEF FlashScript, Turn
  <2>4. FlashScript[4].send \in Seq(Harmless)
    <3>1. <<"setenv ethact", "saveenv">> \in Seq(Harmless)  BY <1>h, <1>2, Short
    <3> QED  BY <3>1 DEF FlashScript, Turn
  <2>5. FlashScript[5].send \in Seq(Harmless)  BY <1>k DEF FlashScript, Turn
  <2>6. FlashScript[6].send \in Seq(Harmless)  BY <1>k DEF FlashScript, Turn
  <2>7. FlashScript[7].send \in Seq(Harmless)
    <3>1. <<Named>> \in Seq(Harmless)  BY <1>h, <1>2, Short
    <3>2. FlashScript[7].send = <<Named>>  BY DEF FlashScript, Turn, Named
    <3> QED  BY <3>1, <3>2
  <2>8. FlashScript[8].send \in Seq(Harmless)  BY <1>k DEF FlashScript, Turn
  <2>9. FlashScript[9].send \in Seq(Harmless)  BY <1>k DEF FlashScript, Turn
  <2>b. \A i \in 1..9 : FlashScript[i].send \in Seq(Harmless)
    BY <2>1, <2>2, <2>3, <2>4, <2>5, <2>6, <2>7, <2>8, <2>9
  <2> QED  BY <2>a, <2>b
<1>3. CASE tool = "enter"
  <2>a. Script = MenuScript /\ Len(MenuScript) = 6  BY <1>3 DEF Script, MenuScript
  <2>1. MenuScript[1].send \in Seq(Harmless)  BY <1>k DEF MenuScript, Turn
  <2>2. MenuScript[2].send \in Seq(Harmless)  BY <1>k DEF MenuScript, Turn
  <2>3. MenuScript[3].send \in Seq(Harmless)  BY <1>k DEF MenuScript, Turn
  <2>4. MenuScript[4].send \in Seq(Harmless)  BY <1>k DEF MenuScript, Turn
  <2>5. MenuScript[5].send \in Seq(Harmless)  BY <1>k DEF MenuScript, Turn
  <2>6. MenuScript[6].send \in Seq(Harmless)  BY <1>k DEF MenuScript, Turn
  <2>b. \A i \in 1..6 : MenuScript[i].send \in Seq(Harmless)
    BY <2>1, <2>2, <2>3, <2>4, <2>5, <2>6
  <2> QED  BY <2>a, <2>b
<1> QED  BY <1>1, <1>2, <1>3 DEF Tools

LEMMA FlashInit == Init => FlashInv
BY DEF Init, FlashInv, Devices

LEMMA FlashStep == TypeOK /\ FlashInv /\ [Next]_vars => FlashInv'
<1> SUFFICES ASSUME TypeOK, FlashInv, [Next]_vars
             PROVE  FlashInv'
  OBVIOUS
<1> USE DEF given, dpu, uboot, stored, line, call, Rest
<1>1. CASE ReadKey
  <2>1. UNCHANGED <<tool, want>> /\ keys' = Tail(keys)  BY <1>1 DEF ReadKey
  <2>2. keys' \in Seq(Harmless) /\ Head(keys) \in Harmless
    BY <1>1, <2>1, Rested DEF ReadKey, FlashInv
  <2>3. /\ probed' # 0 => tool = "fwupdate" /\ probed' = want
        /\ \A d \in Devices : flash'[d] # "old" => tool = "fwupdate" /\ d = want
    <3>1. UNCHANGED <<tool, want>>  BY <2>1
    <3>2. PICK k \in Harmless : Key(k)  BY <1>1, <2>2 DEF ReadKey
    <3>3. CASE Choose(k)
      BY <3>1, <3>3 DEF Choose, Boots, FlashInv
    <3>4. CASE Move(k)
      BY <3>1, <3>4 DEF Move, FlashInv
    <3>5. CASE Command(k)
      <4>1. CASE SaveEnv  BY <3>1, <4>1 DEF SaveEnv, FlashInv
      <4>2. CASE Dhcp  BY <3>1, <4>2 DEF Dhcp, FlashInv
      <4>3. CASE Tftpboot  BY <3>1, <4>3 DEF Tftpboot, FlashInv
      <4>4. CASE k = "sf probe 0:0" /\ Probe(1)
        BY <3>1, <3>2, <4>4 DEF Probe, Probes, Harmless, Named, FlashInv
      <4>5. CASE k = "sf probe 1:0" /\ Probe(2)
        BY <3>1, <3>2, <4>5 DEF Probe, Probes, Harmless, Named, FlashInv, TypeOK, Devices
      <4>6. CASE Update
        BY <3>1, <4>6 DEF Update, Updatable, FlashInv, TypeOK, Devices
      <4>7. CASE Boots(jumper) /\ UNCHANGED <<stored, text>>
        BY <3>1, <4>7 DEF Boots, FlashInv
      <4> QED  BY <3>5, <4>1, <4>2, <4>3, <4>4, <4>5, <4>6, <4>7 DEF Command
    <3> QED  BY <3>2, <3>3, <3>4, <3>5 DEF Key
  <2> QED  BY <2>1, <2>2, <2>3 DEF FlashInv, Harmless, Named
<1>2. CASE LoseKey
  <2>1. Tail(keys) \in Seq(Harmless)  BY <1>2, Rested DEF LoseKey, FlashInv
  <2> QED  BY <1>2, <2>1 DEF LoseKey, FlashInv, Harmless, Named
<1>3. CASE Talk
  <2>1. step \in 1..Len(Script)
    BY <1>3, ScriptTyped DEF Talk, TypeOK
  <2>2. keys' = keys \o Script[step].send /\ UNCHANGED <<tool, want, probed, flash>>
    BY <1>3 DEF Talk
  <2>3. keys' \in Seq(Harmless)
    BY <2>1, <2>2, ScriptHarmless, Appended DEF FlashInv, TypeOK
  <2> QED  BY <2>2, <2>3 DEF FlashInv, Harmless, Named
<1>4. CASE UNCHANGED <<tool, want, flash, keys>> /\ probed' \in {probed, 0}
  BY <1>4 DEF FlashInv, Harmless, Named
<1>5. ReadKey \/ LoseKey \/ Talk \/ (UNCHANGED <<tool, want, flash, keys>> /\ probed' \in {probed, 0})
  BY DEF Next, Program, DPU, vars, Announce, WindowCloses, StartFirmware, CountdownEnds,
         PrepareImage, StartServices, Prompt, PrepareFails, SeePrompt, EnterManagement,
         SendReboot, ResetFails, MayHaveReset, MayReboot, Boots, OpenPort, Finish, TimesOut
<1> QED  BY <1>1, <1>2, <1>3, <1>4, <1>5

-----------------------------------------------------------------------------
(* The environment *)

\* What firmware_update() sends: never the choice of the secondary device, and
\* "reset" only in its last turn.
LEMMA FlashSends ==
  /\ FlashScript[1].send = <<"b">>
  /\ \A i \in 1..9 : FlashScript[i].send \in Seq(Keys \ {"2"})
  /\ \A i \in 1..8 : FlashScript[i].send \in Seq(Keys \ {"2", "reset"})
  /\ FlashScript[9].send = <<"reset">>
<1> DEFINE S == Keys \ {"2", "reset"}
           U == Keys \ {"2"}
<1>k. /\ {"b", "1", "enter", "setenv ethact", "saveenv", "dhcp", "setenv serverip",
           "tftpboot", "sf probe 0:0", "sf probe 1:0", "sf update"} \subseteq S
      /\ "reset" \in U
  BY DEF Keys
<1>s. \A x, y \in S : <<x>> \in Seq(S) /\ <<x, y>> \in Seq(S)  BY Short
<1>1. FlashScript[1].send = <<"b">> /\ FlashScript[1].send \in Seq(S)
  BY <1>k, <1>s DEF FlashScript, Turn
<1>2. FlashScript[2].send \in Seq(S)  BY <1>k, <1>s DEF FlashScript, Turn
<1>3. FlashScript[3].send \in Seq(S)  BY <1>k, <1>s DEF FlashScript, Turn
<1>4. FlashScript[4].send \in Seq(S)  BY <1>k, <1>s DEF FlashScript, Turn
<1>5. FlashScript[5].send \in Seq(S)  BY <1>k, <1>s DEF FlashScript, Turn
<1>6. FlashScript[6].send \in Seq(S)  BY <1>k, <1>s DEF FlashScript, Turn
<1>7. FlashScript[7].send \in Seq(S)  BY <1>k, <1>s DEF FlashScript, Turn
<1>8. FlashScript[8].send \in Seq(S)  BY <1>k, <1>s DEF FlashScript, Turn
<1>9. FlashScript[9].send = <<"reset">>  BY DEF FlashScript, Turn
<1>10. \A i \in 1..8 : FlashScript[i].send \in Seq(S)
  <2>1. \A i \in 1..8 : i \in {1, 2, 3, 4, 5, 6, 7, 8}  OBVIOUS
  <2> HIDE DEF S
  <2> QED  BY ONLY <2>1, <1>1, <1>2, <1>3, <1>4, <1>5, <1>6, <1>7, <1>8
<1>11. \A i \in 1..9 : FlashScript[i].send \in Seq(U)
  <2>1. \A s \in Seq(S) : s \in Seq(U)  OBVIOUS
  <2>2. <<"reset">> \in Seq(U)  BY <1>k, Short
  <2>3. \A i \in 1..9 : i \in 1..8 \/ i = 9  OBVIOUS
  <2> HIDE DEF S, U
  <2> QED  BY ONLY <1>9, <1>10, <2>1, <2>2, <2>3
<1> QED  BY <1>1, <1>9, <1>10, <1>11

LEMMA SaveInit == Init => SaveInv
<1> SUFFICES ASSUME Init
             PROVE  SaveInv
  OBVIOUS
<1>1. saved = {} /\ keys = <<>> /\ text = <<>> /\ step = 1  BY DEF Init
<1>2. <<>> \in Seq(Keys \ {"2"})  OBVIOUS
<1> QED  BY <1>1, <1>2 DEF SaveInv, SaveStage

\* While the DPU boots by itself it prints no options.
LEMMA NoOptions ==
  ASSUME TypeOK, Announce \/ WindowCloses \/ StartFirmware \/ CountdownEnds
  PROVE  \A i \in DOMAIN text' : text'[i] = "1)" => \E j \in DOMAIN text : text[j] = "1)"
<1>t. text \in Seq(Texts)  BY DEF TypeOK
<1>1. ASSUME NEW ts \in Seq(Texts), Prints(ts), \A i \in DOMAIN ts : ts[i] # "1)"
      PROVE  \A i \in DOMAIN text' : text'[i] = "1)" => \E j \in DOMAIN text : text[j] = "1)"
  BY <1>t, <1>1, Appended DEF Prints
<1>2. CASE WindowCloses \/ CountdownEnds  BY <1>2 DEF WindowCloses, CountdownEnds
<1>3. CASE Announce
  <2>1. PICK a \in {"SPI0", "SPI1"} : Prints(<<a, window>>)
    BY <1>3 DEF Announce, Shows
  <2>2. window \in Prompts  BY DEF TypeOK
  <2>3. PICK ts \in Seq(Texts) : ts = <<a, window>>
    <3>1. a \in Texts /\ window \in Texts  BY <2>2 DEF Texts
    <3> QED  BY <3>1, Short
  <2>4. a # "1)" /\ window # "1)"  BY <2>1, <2>2 DEF Prompts
  <2>5. \A i \in DOMAIN ts : ts[i] \in {a, window}  BY ONLY <2>3
  <2>6. \A i \in DOMAIN ts : ts[i] # "1)"  BY <2>4, <2>5
  <2> QED  BY <1>1, <2>1, <2>3, <2>6
<1>4. CASE StartFirmware
  <2> DEFINE u == <<"detected", "OK", "autoboot">>
             e == <<"escape">>
  <2>1. u \in Seq(Texts) /\ e \in Seq(Texts)  BY DEF Texts
  <2>2. (\A i \in DOMAIN u : u[i] # "1)") /\ (\A i \in DOMAIN e : e[i] # "1)")  OBVIOUS
  <2>3. Prints(u) \/ Prints(e)  BY <1>4 DEF StartFirmware, Shows
  <2> HIDE DEF u, e
  <2>4. CASE Prints(u)  BY <1>1, <2>1, <2>2, <2>4
  <2>5. CASE Prints(e)  BY <1>1, <2>1, <2>2, <2>5
  <2> QED  BY <2>3, <2>4, <2>5
<1> QED  BY <1>2, <1>3, <1>4

\* What firmware_update() has sent says what U-Boot can be doing.
LEMMA SaveReads ==
  ASSUME TypeOK, SaveStage, ReadKey
  PROVE  /\ SaveStage'
         /\ saved' \subseteq saved \cup {BootsFrom(1)}
<1> DEFINE S == Keys \ {"2"}
           k == Head(keys)
<1>1. /\ keys # <<>> /\ keys' = Tail(keys) /\ Key(k)
      /\ UNCHANGED <<pc, step, good>>
  BY DEF ReadKey, call, given
<1>2. keys \in Seq(S) /\ step # 1 /\ step \in 1..10  BY <1>1 DEF SaveStage, TypeOK
<1>3. /\ Tail(keys) \in Seq(S) /\ k \in S
      /\ Len(Tail(keys)) = Len(keys) - 1 /\ 1 \in DOMAIN keys /\ k = keys[1]
      /\ \A i \in DOMAIN Tail(keys) : i + 1 \in DOMAIN keys /\ Tail(keys)[i] = keys[i + 1]
  BY <1>1, <1>2, Rested
<1>4. /\ \A i \in DOMAIN keys' : keys'[i] = "reset" => i = Len(keys') /\ step = 10
      /\ k = "reset" => keys' = <<>> /\ step = 10
  <2>1. \A i \in DOMAIN keys : keys[i] = "reset" => i = Len(keys) /\ step = 10
    BY DEF SaveStage
  <2>2. ASSUME NEW i \in DOMAIN keys', keys'[i] = "reset"
        PROVE  i = Len(keys') /\ step = 10
    <3>1. i + 1 = Len(keys) /\ step = 10  BY <1>1, <1>3, <2>1, <2>2
    <3> QED  BY <1>1, <1>2, <1>3, <2>2, <3>1
  <2>3. k = "reset" => Len(Tail(keys)) = 0 /\ step = 10  BY <1>2, <1>3, <2>1
  <2> QED  BY <1>1, <1>3, <2>2, <2>3
<1>5. step = 2 => k = "b" /\ keys' \in Seq({"b"})
  <2>1. step = 2 => keys \in Seq({"b"})  BY DEF SaveStage
  <2> QED  BY <1>1, <2>1, Rested
<1>b. BootsFrom(1)' = BootsFrom(1)  BY <1>1 DEF BootsFrom
<1>6. \/ step = 2 \/ screen = "options" \/ dev = BootsFrom(1)
  BY <1>1, <1>2 DEF SaveStage
<1>t. text \in Seq(Texts)  BY DEF TypeOK
<1>7. \A i \in DOMAIN text : text[i] = "1)" => (step = 2 => screen = "options")
  BY DEF SaveStage
<1>8. ASSUME \/ step = 2 \/ screen' = "options" \/ dev' = BootsFrom(1)
             \/ step = 10 /\ keys' = <<>>,
             \A i \in DOMAIN text' : text'[i] = "1)" => (step = 2 => screen' = "options")
      PROVE  SaveStage'
  <2>1. step' # 1 /\ keys' \in Seq(S)  BY <1>1, <1>2, <1>3
  <2>2. pc' \notin Preparing \cup Resetting \cup {"open"}  BY <1>1, <1>2 DEF SaveStage
  <2> QED  BY <1>1, <1>4, <1>5, <1>8, <1>b, <2>1, <2>2 DEF SaveStage
<1>9. CASE Choose(k)
  <2>1. k # "2"  BY <1>3
  <2>2. dev' = BootsFrom(1) /\ text' = text /\ saved' = saved /\ k = "1"
    BY <1>9, <2>1 DEF Choose, Boots, stored
  <2>3. step # 2  BY <1>5, <2>2
  <2> QED  BY <1>7, <1>8, <2>2, <2>3
<1>10. CASE Move(k)
  <2>1. screen # "options" /\ dev' = dev /\ saved' = saved
    BY <1>10 DEF Move, uboot, stored
  <2>2. step = 2 => \A i \in DOMAIN text' : text'[i] = "1)" => screen' = "options"
    <3> SUFFICES ASSUME step = 2
                 PROVE  \A i \in DOMAIN text' : text'[i] = "1)" => screen' = "options"
      OBVIOUS
    <3>1. k = "b" /\ \A i \in DOMAIN text : text[i] # "1)"  BY <1>5, <1>7, <2>1
    <3>2. CASE screen' = "options"  BY <3>2
    <3>3. CASE Shows("uboot", <<"crb106-pcie>">>)
      <4>1. PICK ts \in Seq(Texts) : ts = <<"crb106-pcie>">>
        <5>1. <<"crb106-pcie>">> \in Seq(Texts)  BY DEF Texts
        <5> QED  BY <5>1
      <4>2. \A i \in DOMAIN ts : ts[i] # "1)"  BY <4>1
      <4>3. Prints(ts)  BY <3>3, <4>1 DEF Shows
      <4> QED  BY <1>t, <3>1, <4>2, <4>3, Appended DEF Prints
    <3> QED  BY <1>10, <3>1, <3>2, <3>3 DEF Move, Shows
  <2> QED  BY <1>6, <1>8, <2>1, <2>2
<1>11. CASE screen = "uboot" /\ Command(k)
  <2>1. step # 2  BY <1>5, <1>11 DEF Command
  <2>2. dev = BootsFrom(1)  BY <1>6, <1>11, <2>1
  <2>3. CASE k = "reset"
    <3>1. saved' = saved  BY <1>11, <2>3 DEF Command, stored
    <3> QED  BY <1>4, <1>8, <2>1, <2>3, <3>1
  <2>4. CASE k # "reset"
    <3>1. dev' = dev /\ saved' \subseteq saved \cup {dev}
      BY <1>11, <2>4 DEF Command, SaveEnv, Dhcp, Tftpboot, Probe, Update, stored
    <3> QED  BY <1>8, <2>1, <2>2, <3>1
  <2> QED  BY <2>3, <2>4
<1> QED  BY <1>1, <1>9, <1>10, <1>11 DEF Key

\* The dialogue goes on from the options only with the options on the screen.
LEMMA SaveTalks ==
  ASSUME TypeOK, SaveStage, tool = "fwupdate", Talk
  PROVE  SaveStage' /\ saved' = saved
<1> DEFINE S == Keys \ {"2"}
<1>1. PICK n \in DOMAIN text : FirstMatch(n, FlashScript[step].expect) /\ DropTo(n)
  BY DEF Talk, Script
<1>2. /\ UNCHANGED <<screen, dev, saved, good>> /\ pc' = "talk"
      /\ step \in 1..9 /\ step' = step + 1
      /\ keys' = keys \o FlashScript[step].send
  <2>1. step <= Len(FlashScript) /\ step \in 1..10  BY DEF Talk, Script, TypeOK
  <2>2. Len(FlashScript) = 9  BY DEF FlashScript
  <2> QED  BY <2>1, <2>2 DEF Talk, Script, dpu, uboot, stored, given
<1>b. BootsFrom(1)' = BootsFrom(1)  BY <1>2 DEF BootsFrom
<1>3. keys \in Seq(S) /\ keys' \in Seq(S)
  BY <1>2, FlashSends, Appended DEF SaveStage
<1>4. \A i \in DOMAIN text' : i + n \in DOMAIN text /\ text'[i] = text[i + n]
  <2>1. text \in Seq(Texts) /\ n \in 0..Len(text)  BY DEF TypeOK
  <2> QED  BY <1>1, <2>1, Dropped DEF DropTo
<1>5. \A i \in DOMAIN keys' : keys'[i] = "reset" => i = Len(keys') /\ step' = 10
  <2>1. \A i \in DOMAIN keys : keys[i] # "reset"  BY <1>2 DEF SaveStage
  <2>2. CASE step = 9
    <3>1. keys' = keys \o <<"reset">>  BY <1>2, <2>2, FlashSends
    <3> QED  BY <1>2, <1>3, <2>1, <2>2, <3>1
  <2>3. CASE step # 9
    <3>1. FlashScript[step].send \in Seq(Keys \ {"2", "reset"})
      <4>1. step \in 1..8  BY <1>2, <2>3
      <4> QED  BY <4>1, FlashSends
    <3>2. \A i \in DOMAIN FlashScript[step].send : FlashScript[step].send[i] # "reset"
      BY <3>1
    <3> QED  BY <1>2, <1>3, <2>1, <3>1, <3>2, FlashSends, Appended
  <2> QED  BY <2>2, <2>3
<1>6. step = 1 => keys' \in Seq({"b"}) /\ \A i \in DOMAIN text' : text'[i] # "1)"
  <2> SUFFICES ASSUME step = 1
               PROVE  keys' \in Seq({"b"}) /\ \A i \in DOMAIN text' : text'[i] # "1)"
    OBVIOUS
  <2>1. keys = <<>> /\ \A i \in DOMAIN text : text[i] # "1)"  BY DEF SaveStage
  <2>2. keys' = <<"b">>  BY <1>2, <2>1, FlashSends
  <2> QED  BY <1>4, <2>1, <2>2
<1>7. step = 2 => screen = "options"
  <2>1. step = 2 => text[n] = "1)"
    BY <1>1 DEF FirstMatch, FlashScript, Turn
  <2> QED  BY <2>1 DEF SaveStage
<1>8. step \in 3..9 => screen = "options" \/ dev = BootsFrom(1)  BY DEF SaveStage
<1>9. step' # 1 /\ (step' = 2 => step = 1)  BY <1>2
<1>10. step' \in 1..2 \/ screen' = "options" \/ dev' = BootsFrom(1)'
  BY <1>2, <1>7, <1>8, <1>b
<1>11. pc' \notin Preparing \cup Resetting \cup {"open"}
  BY <1>2 DEF Preparing, Resetting
<1> QED  BY <1>2, <1>3, <1>5, <1>6, <1>9, <1>10, <1>11 DEF SaveStage

LEMMA SaveStep == TypeOK /\ FlashInv /\ SaveInv /\ [Next]_vars => SaveInv'
<1> SUFFICES ASSUME TypeOK, FlashInv, SaveInv, [Next]_vars
             PROVE  SaveInv'
  OBVIOUS
<1> USE DEF given, dpu, uboot, stored, line, call, Rest
<1>u. UNCHANGED <<tool, good>>
  BY DEF Next, Program, DPU, vars, Announce, WindowCloses, StartFirmware, CountdownEnds,
         ReadKey, LoseKey, PrepareImage, StartServices, Prompt, PrepareFails, SeePrompt,
         EnterManagement, SendReboot, ResetFails, OpenPort, Talk, Finish, TimesOut
<1>b. BootsFrom(1)' = BootsFrom(1)  BY <1>u DEF BootsFrom
<1>s. ASSUME ~ReadKey
      PROVE  saved' = saved
  BY <1>s DEF Next, Program, DPU, vars, Announce, WindowCloses, StartFirmware, CountdownEnds,
         LoseKey, PrepareImage, StartServices, Prompt, PrepareFails, SeePrompt,
         EnterManagement, SendReboot, ResetFails, MayHaveReset, MayReboot, OpenPort, Talk,
         Finish, TimesOut
<1>0. CASE tool # "fwupdate"
  <2>1. CASE ReadKey
    <3>1. Head(keys) \in Harmless  BY <2>1, Rested DEF ReadKey, FlashInv
    <3>2. Head(keys) # "saveenv"  BY <1>0, <3>1 DEF Harmless
    <3>3. saved' = saved
      BY <2>1, <3>2 DEF ReadKey, Key, Choose, Move, Command, Dhcp, Tftpboot, Probe, Update
    <3> QED  BY <1>0, <1>u, <1>b, <3>3 DEF SaveInv
  <2>2. CASE ~ReadKey  BY <1>0, <1>u, <1>b, <1>s, <2>2 DEF SaveInv
  <2> QED  BY <2>1, <2>2
<1> SUFFICES ASSUME tool = "fwupdate"
             PROVE  SaveInv'
  BY <1>0
<1>i. SaveStage /\ \A d \in saved : d = BootsFrom(1)  BY DEF SaveInv
<1>p. ASSUME SaveStage', saved' \subseteq saved \cup {BootsFrom(1)}
      PROVE  SaveInv'
  BY <1>u, <1>b, <1>i, <1>p DEF SaveInv
<1>1. CASE Announce \/ WindowCloses \/ StartFirmware \/ CountdownEnds
  <2>1. UNCHANGED <<pc, step, keys, dev>> /\ screen # "options"
    BY <1>1 DEF Announce, WindowCloses, StartFirmware, CountdownEnds
  <2>2. \A i \in DOMAIN text' : text'[i] = "1)" => step \notin {1, 2}
    BY <1>1, <1>i, <2>1, NoOptions DEF SaveStage
  <2>3. SaveStage'  BY <1>i, <1>b, <2>1, <2>2 DEF SaveStage
  <2> QED  BY <1>1, <1>p, <2>3 DEF Announce, WindowCloses, StartFirmware, CountdownEnds
<1>2. CASE ReadKey  BY <1>2, <1>i, <1>p, SaveReads
<1>3. CASE LoseKey
  <2>1. UNCHANGED <<pc, step, dev, screen, text, saved>> /\ keys # <<>> /\ keys' = Tail(keys)
    BY <1>3 DEF LoseKey
  <2>2. keys \in Seq(Keys \ {"2"})  BY <1>i DEF SaveStage
  <2>3. /\ keys' \in Seq(Keys \ {"2"}) /\ Len(keys') = Len(keys) - 1
        /\ \A i \in DOMAIN keys' : i + 1 \in DOMAIN keys /\ keys'[i] = keys[i + 1]
    BY <2>1, <2>2, Rested
  <2>4. step = 2 => keys' \in Seq({"b"})  BY <1>i, <2>1, Rested DEF SaveStage
  <2>5. \A i \in DOMAIN keys' : keys'[i] = "reset" => i = Len(keys') /\ step = 10
    <3>1. \A i \in DOMAIN keys' : keys'[i] = "reset" => i + 1 = Len(keys) /\ step = 10
      BY <1>i, <2>3 DEF SaveStage
    <3> QED  BY <2>2, <2>3, <3>1
  <2>6. step # 1  BY <1>i, <2>1 DEF SaveStage
  <2>7. SaveStage'  BY <1>i, <1>b, <2>1, <2>3, <2>4, <2>5, <2>6 DEF SaveStage
  <2> QED  BY <1>p, <2>1, <2>7
<1>4. CASE \/ PrepareImage \/ StartServices \/ Prompt \/ PrepareFails
           \/ SeePrompt \/ EnterManagement \/ SendReboot \/ ResetFails
  <2>1. /\ UNCHANGED <<step, keys, text>> /\ pc \in Preparing \cup Resetting
    BY <1>4 DEF PrepareImage, StartServices, Prompt, PrepareFails, SeePrompt,
       EnterManagement, SendReboot, ResetFails, Preparing, Resetting
  <2>2. step = 1  BY <1>i, <2>1 DEF SaveStage
  <2>3. SaveStage'  BY <1>i, <2>1, <2>2 DEF SaveStage
  <2>4. ~ReadKey => saved' = saved  BY <1>s
  <2>5. ~ReadKey  BY <1>i, <2>2 DEF SaveStage, ReadKey
  <2> QED  BY <1>p, <2>3, <2>4, <2>5
<1>5. CASE OpenPort
  <2>1. /\ UNCHANGED <<step, keys, saved>> /\ pc = "open" /\ text' = <<>>
    BY <1>5 DEF OpenPort
  <2>2. step = 1  BY <1>i, <2>1 DEF SaveStage
  <2>3. SaveStage'  BY <1>i, <2>1, <2>2 DEF SaveStage
  <2> QED  BY <1>p, <2>1, <2>3
<1>6. CASE Talk  BY <1>6, <1>i, <1>p, SaveTalks
<1>7. CASE Finish \/ TimesOut \/ UNCHANGED vars
  <2>1. /\ UNCHANGED <<step, keys, text, screen, dev, saved>>
        /\ pc' = pc \/ pc' \in {"done", "failed"}
    BY <1>7 DEF Finish, TimesOut, vars
  <2>2. {"done", "failed"} \cap (Preparing \cup Resetting \cup {"open"}) = {}
    BY DEF Preparing, Resetting
  <2>3. SaveStage'  BY <1>i, <1>b, <2>1, <2>2 DEF SaveStage
  <2> QED  BY <1>p, <2>1, <2>3
<1> QED
  BY <1>1, <1>2, <1>3, <1>4, <1>5, <1>6, <1>7 DEF Next, Program, DPU

-----------------------------------------------------------------------------
(* The device *)

\* A print without an announcement leaves the unread ones as they are.
LEMMA Unannounced ==
  ASSUME TypeOK, NEW ts \in Seq(Texts), Prints(ts),
         \A i \in DOMAIN ts : ts[i] \notin {"SPI0", "SPI1"}
  PROVE  Announces' = Announces /\ \A i \in Announces : text'[i] = text[i]
<1>1. CASE ~open  BY <1>1 DEF Prints, Announces
<1>2. CASE open
  <2>1. text' = text \o ts /\ text \in Seq(Texts)  BY <1>2 DEF Prints, TypeOK
  <2>2. \A i \in DOMAIN text : i \in DOMAIN text' /\ text'[i] = text[i]  BY <2>1
  <2>3. \A i \in DOMAIN text' : i \notin DOMAIN text => text'[i] \notin {"SPI0", "SPI1"}
    BY <2>1, Appended
  <2> QED  BY <2>2, <2>3 DEF Announces
<1> QED  BY <1>1, <1>2

\* A key that is read or lost is a choice only when it was the last one.
LEMMA KeysRest ==
  ASSUME ChoiceIsLast, keys # <<>>, keys' = Tail(keys)
  PROVE  /\ ChoiceIsLast'
         /\ Undecided => Undecided'
         /\ Head(keys) \in {"b"} \cup Choices
         /\ Head(keys) \in Choices => ~Undecided /\ keys' = <<>>
<1> DEFINE S == {"b"} \cup Choices
<1>1. keys \in Seq(S)  BY DEF ChoiceIsLast
<1>2. /\ Tail(keys) \in Seq(S) /\ Head(keys) \in S
      /\ Len(Tail(keys)) = Len(keys) - 1 /\ 1 \in DOMAIN keys /\ Head(keys) = keys[1]
      /\ \A i \in DOMAIN Tail(keys) : i + 1 \in DOMAIN keys /\ Tail(keys)[i] = keys[i + 1]
  BY <1>1, Rested
<1>3. ChoiceIsLast'
  <2>1. \A i \in DOMAIN keys' : keys'[i] \in Choices => i + 1 = Len(keys)
    BY <1>2 DEF ChoiceIsLast
  <2> QED  BY <1>2, <2>1 DEF ChoiceIsLast, Choices
<1>4. Undecided => Undecided'  BY <1>2 DEF Undecided, Choices
<1>5. ASSUME Head(keys) \in Choices
      PROVE  ~Undecided /\ keys' = <<>>
  <2>1. Len(keys) = 1  BY <1>2, <1>5 DEF ChoiceIsLast
  <2>2. Len(Tail(keys)) = 0  BY <1>2, <2>1
  <2> QED  BY <1>1, <1>2, <1>5, <2>2 DEF Undecided
<1> QED  BY <1>2, <1>3, <1>4, <1>5

LEMMA SelectInit == Init => SelectInv
<1> SUFFICES ASSUME Init, tool = "select"
             PROVE  SelectInv
  BY DEF SelectInv
<1>1. pc = "reset" /\ step = 1 /\ keys = <<>> /\ text = <<>> /\ ~open  BY DEF Init
<1>2. ChoiceIsLast  BY <1>1 DEF ChoiceIsLast
<1> QED  BY <1>1, <1>2 DEF SelectInv, SelectsDevice, BeforeTalk, Quiet, Preparing

\* The firmware reads a key: only the choice of a device boots it again.
LEMMA KeySelects ==
  ASSUME TypeOK, tool = "select", NEW k \in {"b"} \cup Choices, Key(k)
  PROVE  \/ /\ k \in Choices
            /\ screen' = "early" /\ text' = text
         \/ /\ dev' = dev /\ screen' # "early"
            /\ Announces' = Announces /\ \A i \in Announces : text'[i] = text[i]
<1> USE DEF Choices
<1>1. ~Command(k)  BY DEF Command
<1>2. CASE Choose(k)  BY <1>2 DEF Choose, Boots
<1>3. CASE Move(k)
  <2>1. PICK ts \in Seq(Texts) :
           Prints(ts) /\ \A i \in DOMAIN ts : ts[i] \notin {"SPI0", "SPI1"}
    <3> DEFINE u == <<"1)", "2)">>
               e == <<"crb106-pcie>">>
    <3>1. u \in Seq(Texts) /\ e \in Seq(Texts)  BY DEF Texts
    <3>2. /\ \A i \in DOMAIN u : u[i] \notin {"SPI0", "SPI1"}
          /\ \A i \in DOMAIN e : e[i] \notin {"SPI0", "SPI1"}
      OBVIOUS
    <3>3. Prints(u) \/ Prints(e)  BY <1>3 DEF Move, Shows
    <3> QED  BY <3>1, <3>2, <3>3
  <2> QED  BY <1>3, <2>1, Unannounced DEF Move, Shows
<1> QED  BY <1>1, <1>2, <1>3 DEF Key

LEMMA SelectStep == TypeOK /\ SelectInv /\ [Next]_vars => SelectInv'
<1> SUFFICES ASSUME TypeOK, SelectInv, [Next]_vars, tool = "select"
             PROVE  SelectInv'
  BY DEF SelectInv, Next, Program, DPU, vars, given, Rest, Announce, WindowCloses,
         StartFirmware, CountdownEnds, ReadKey, LoseKey, PrepareImage, StartServices,
         Prompt, PrepareFails, SeePrompt, EnterManagement, SendReboot, ResetFails, OpenPort,
         Talk, Finish, TimesOut
<1>i. /\ pc \notin Preparing /\ step \in 1..3
      /\ BeforeTalk /\ Quiet /\ ChoiceIsLast /\ SelectsDevice
      /\ pc \in {"talk", "done"} /\ want # 0 => OneAnnouncement
  BY DEF SelectInv
<1> USE DEF given, dpu, uboot, stored, line, call, Rest, Preparing
<1>1. CASE Announce
  <2>1. UNCHANGED <<tool, want, pc, step, keys, dev, open>> /\ screen' = "window"
    BY <1>1 DEF Announce, Shows
  <2> DEFINE a == IF dev = 1 THEN "SPI0" ELSE "SPI1"
  <2>2. text' = IF open THEN text \o <<a, window>> ELSE text
    BY <1>1 DEF Announce, Shows, Prints
  <2>3. Quiet'  BY <1>i, <2>1, <2>2 DEF Quiet
  <2>4. ASSUME pc \in {"talk", "done"}, want # 0
        PROVE  OneAnnouncement'
    <3>1. OneAnnouncement /\ screen = "early"  BY <1>i, <1>1, <2>4 DEF Announce
    <3>2. Announces = {} /\ step = 1 /\ pc = "talk" /\ Undecided
      BY <3>1, <2>4 DEF OneAnnouncement, Settled
    <3>3. Undecided'  BY <2>1, <3>2 DEF Undecided
    <3>4. CASE ~open
      BY <3>1, <3>2, <3>3, <3>4, <2>1, <2>2 DEF OneAnnouncement, Announces
    <3>5. CASE open
      <4>1. text \in Seq(Texts) /\ window \in Prompts  BY DEF TypeOK
      <4>2. text' = text \o <<a, window>>  BY <2>2, <3>5
      <4>3. \A i \in DOMAIN text' :
               \/ i \in DOMAIN text /\ text'[i] = text[i]
               \/ i = Len(text) + 1 /\ text'[i] = a
               \/ i = Len(text) + 2 /\ text'[i] = window
        BY <4>1, <4>2
      <4>4. window \notin {"SPI0", "SPI1"}  BY <4>1 DEF Prompts
      <4>5. \A i \in Announces' : i = Len(text) + 1 /\ text'[i] = a
        BY <4>3, <4>4, <3>2 DEF Announces
      <4> QED  BY <4>5, <2>1, <3>2, <3>3 DEF OneAnnouncement
    <3> QED  BY <3>4, <3>5
  <2> QED  BY <1>i, <2>1, <2>3, <2>4 DEF SelectInv, BeforeTalk, ChoiceIsLast, SelectsDevice
<1>2. CASE WindowCloses \/ StartFirmware \/ CountdownEnds
  <2>1. UNCHANGED <<tool, want, pc, step, keys, dev, open>> /\ screen' # "early"
    BY <1>2 DEF WindowCloses, StartFirmware, CountdownEnds, Shows
  <2>2. Announces' = Announces /\ \A i \in Announces : text'[i] = text[i]
    <3>1. CASE UNCHANGED text  BY <3>1 DEF Announces
    <3>2. CASE StartFirmware
      <4> DEFINE u == <<"detected", "OK", "autoboot">>
                 e == <<"escape">>
      <4>1. u \in Seq(Texts) /\ e \in Seq(Texts)  BY DEF Texts
      <4>2. /\ \A i \in DOMAIN u : u[i] \notin {"SPI0", "SPI1"}
            /\ \A i \in DOMAIN e : e[i] \notin {"SPI0", "SPI1"}
        OBVIOUS
      <4>3. Prints(u) \/ Prints(e)  BY <3>2 DEF StartFirmware, Shows
      <4> QED  BY <4>1, <4>2, <4>3, Unannounced
    <3> QED  BY <1>2, <3>1, <3>2 DEF WindowCloses, CountdownEnds
  <2>3. Quiet'
    BY <1>i, <2>1, <1>2 DEF Quiet, WindowCloses, StartFirmware, CountdownEnds, Shows, Prints
  <2>4. OneAnnouncement => OneAnnouncement'
    BY <2>1, <2>2 DEF OneAnnouncement, Settled, Undecided
  <2> QED  BY <1>i, <2>1, <2>3, <2>4 DEF SelectInv, BeforeTalk, ChoiceIsLast, SelectsDevice
<1>3. CASE ReadKey
  <2>1. UNCHANGED <<tool, want, pc, step, open>> /\ keys # <<>> /\ keys' = Tail(keys)
    BY <1>3 DEF ReadKey
  <2>2. /\ ChoiceIsLast' /\ (Undecided => Undecided')
        /\ Head(keys) \in {"b"} \cup Choices
        /\ Head(keys) \in Choices => ~Undecided /\ keys' = <<>>
    BY <1>i, <2>1, KeysRest
  <2>3. ~(pc \in Resetting \cup {"open"} \/ want = 0)  BY <1>i, <2>1 DEF Quiet
  <2>4. CASE Head(keys) \in Choices /\ screen' = "early" /\ text' = text
    <3>1. pc \in {"talk", "done"} => Announces = {} /\ step = 1 /\ pc # "done"
      BY <1>i, <2>2, <2>3, <2>4 DEF OneAnnouncement, Settled
    <3>2. Announces' = Announces  BY <2>4 DEF Announces
    <3>3. Undecided'  BY <2>2, <2>4 DEF Undecided
    <3>4. pc \in {"talk", "done"} => OneAnnouncement'
      BY <3>1, <3>2, <3>3, <2>1 DEF OneAnnouncement, Settled
    <3> QED  BY <1>i, <2>1, <2>2, <2>3, <3>1, <3>4
             DEF SelectInv, BeforeTalk, Quiet, SelectsDevice
  <2>5. CASE /\ dev' = dev /\ screen' # "early"
             /\ Announces' = Announces /\ \A i \in Announces : text'[i] = text[i]
    <3>1. OneAnnouncement => OneAnnouncement'
      BY <2>1, <2>2, <2>5 DEF OneAnnouncement, Settled
    <3> QED  BY <1>i, <2>1, <2>2, <2>3, <2>5, <3>1
             DEF SelectInv, BeforeTalk, Quiet, SelectsDevice
  <2> QED
    <3>1. PICK k \in {"b"} \cup Choices : k = Head(keys) /\ Key(k)
      BY <1>3, <2>2 DEF ReadKey
    <3> QED  BY <3>1, <2>4, <2>5, KeySelects
<1>4. CASE LoseKey
  <2>1. UNCHANGED <<tool, want, pc, step, dev, screen, open, text>>
        /\ keys # <<>> /\ keys' = Tail(keys)
    BY <1>4 DEF LoseKey
  <2>2. ChoiceIsLast' /\ (Undecided => Undecided')  BY <1>i, <2>1, KeysRest
  <2>3. ~(pc \in Resetting \cup {"open"} \/ want = 0)  BY <1>i, <2>1 DEF Quiet
  <2>4. OneAnnouncement => OneAnnouncement'
    BY <2>1, <2>2 DEF OneAnnouncement, Settled, Announces
  <2> QED  BY <1>i, <2>1, <2>2, <2>3, <2>4 DEF SelectInv, BeforeTalk, Quiet, SelectsDevice
<1>5. CASE SeePrompt \/ EnterManagement \/ SendReboot \/ ResetFails
  <2>1. /\ UNCHANGED <<tool, want, step, keys, text, open>> /\ pc \in Resetting
        /\ pc' \in Resetting \cup {"open", "failed"}
    BY <1>5 DEF SeePrompt, EnterManagement, SendReboot, ResetFails, Resetting
  <2> QED  BY <1>i, <2>1
           DEF SelectInv, BeforeTalk, Quiet, ChoiceIsLast, SelectsDevice, Resetting
<1>6. CASE OpenPort
  <2>1. /\ UNCHANGED <<tool, want, step, keys, dev, screen>> /\ pc = "open"
        /\ IF want = 0 THEN pc' = "done" /\ UNCHANGED <<open, text>>
                       ELSE pc' = "talk" /\ open' = TRUE /\ text' = <<>>
    BY <1>6 DEF OpenPort
  <2>2. step = 1 /\ keys = <<>>  BY <1>i, <2>1 DEF BeforeTalk, Quiet
  <2>3. want # 0 => OneAnnouncement'
    BY <2>1, <2>2 DEF OneAnnouncement, Settled, Undecided, Announces
  <2> QED  BY <1>i, <2>1, <2>2, <2>3
           DEF SelectInv, BeforeTalk, Quiet, ChoiceIsLast, SelectsDevice, Resetting
<1>7. CASE Talk
  <2>1. PICK n \in DOMAIN text :
           /\ FirstMatch(n, SelectScript[step].expect) /\ DropTo(n)
           /\ IF step = 1 /\ BootsWanted(text[n])
              THEN pc' = "done" /\ UNCHANGED step
              ELSE pc' = pc /\ step' = (step % 3) + 1
    BY <1>7 DEF Talk, Script
  <2>2. /\ UNCHANGED <<tool, want, dev, screen, open>> /\ pc = "talk"
        /\ keys' = keys \o SelectScript[step].send
    BY <1>7 DEF Talk, Script
  <2>3. want # 0 /\ OneAnnouncement
    <3>1. text # <<>>  BY <2>1
    <3> QED  BY <1>i, <2>2, <3>1 DEF Quiet
  <2>4. \A i \in Announces' : /\ i \in Nat /\ i # 0
                             /\ i + n \in Announces /\ text'[i] = text[i + n]
    <3>1. text \in Seq(Texts) /\ n \in 0..Len(text)  BY <2>1 DEF TypeOK
    <3>2. text' = SubSeq(text, n + 1, Len(text))  BY <2>1 DEF DropTo
    <3>3. \A i \in DOMAIN text' : /\ i \in Nat /\ i # 0 /\ i + n \in DOMAIN text
                                 /\ text'[i] = text[i + n]
      BY <3>1, <3>2, Dropped
    <3> QED  BY <3>3 DEF Announces
  <2>5. CASE step = 1
    <3>1. n \in Announces  BY <2>1, <2>5 DEF FirstMatch, SelectScript, Turn, Announces
    <3>2. Undecided /\ screen # "early"  BY <2>3, <3>1 DEF OneAnnouncement, Settled
    <3>3. Announces' = {}
      <4>1. \A i \in Announces' : i + n = n  BY <2>3, <2>4, <3>1 DEF OneAnnouncement
      <4>2. n \in Nat  BY DEF TypeOK
      <4> QED  BY <2>4, <4>1, <4>2
    <3>4. keys' = keys
      <4>1. SelectScript[step].send = <<>>  BY <2>5 DEF SelectScript, Turn
      <4>2. keys \in Seq(Keys)  BY DEF TypeOK
      <4> QED  BY <4>1, <4>2, <2>2
    <3>5. OneAnnouncement'
      BY <2>2, <3>2, <3>3, <3>4 DEF OneAnnouncement, Undecided
    <3>6. SelectsDevice'
      <4>1. text[n] = IF dev = 1 THEN "SPI0" ELSE "SPI1"
        BY <2>3, <3>1 DEF OneAnnouncement
      <4> QED  BY <4>1, <2>1, <2>2, <2>5 DEF SelectsDevice, BootsWanted, TypeOK, Devices
    <3>7. pc' \in {"talk", "done"} /\ step' \in 1..3  BY <2>1, <2>2, <2>5
    <3> QED  BY <1>i, <2>2, <2>3, <3>4, <3>5, <3>6, <3>7
             DEF SelectInv, BeforeTalk, Quiet, ChoiceIsLast, Resetting
  <2>6. CASE step # 1
    <3>1. Undecided /\ screen # "early" /\ Announces = {}
      BY <2>3, <2>6 DEF OneAnnouncement, Settled
    <3>2. Announces' = {}  BY <2>4, <3>1
    <3>3. pc' = "talk"  BY <2>1, <2>2, <2>6
    <3>4. ChoiceIsLast' /\ (step = 2 => Undecided')
      <4> DEFINE S == {"b"} \cup Choices
      <4>1. keys \in Seq(S)  BY <1>i DEF ChoiceIsLast
      <4>2. PICK k \in S : SelectScript[step].send = <<k>> /\ (step = 2 => k = "b")
        <5>1. CASE step = 2  BY <5>1 DEF SelectScript, Turn
        <5>2. CASE step = 3
          <6>1. SelectScript[step].send = <<IF want = 1 THEN "1" ELSE "2">>
            BY <5>2 DEF SelectScript, Turn
          <6>2. (IF want = 1 THEN "1" ELSE "2") \in S  BY DEF Choices
          <6> QED  BY <6>1, <6>2, <5>2
        <5> QED  BY <1>i, <2>6, <5>1, <5>2
      <4>3. keys' = Append(keys, k)  BY <2>2, <4>1, <4>2
      <4>4. /\ keys' \in Seq(S) /\ Len(keys') = Len(keys) + 1
            /\ \A i \in DOMAIN keys' :
                 \/ i = Len(keys') /\ keys'[i] = k
                 \/ i \in DOMAIN keys /\ keys'[i] = keys[i]
        BY <4>1, <4>3
      <4>5. \A i \in DOMAIN keys' : keys'[i] \in Choices => i = Len(keys') /\ k \in Choices
        BY <4>4, <3>1 DEF Undecided
      <4>6. "b" \notin Choices  BY DEF Choices
      <4> QED  BY <4>2, <4>4, <4>5, <4>6 DEF ChoiceIsLast, Undecided, Choices
    <3>5. step' = (step % 3) + 1  BY <2>1, <2>6
    <3>6. (step = 2 => step' = 3) /\ (step = 3 => step' = 1)  BY <3>5
    <3>7. OneAnnouncement'
      BY <1>i, <2>2, <2>6, <3>1, <3>2, <3>3, <3>4, <3>6 DEF OneAnnouncement, Settled
    <3> QED  BY <1>i, <2>2, <2>3, <2>6, <3>3, <3>4, <3>6, <3>7
             DEF SelectInv, BeforeTalk, Quiet, SelectsDevice, Resetting
  <2> QED  BY <2>5, <2>6
<1>8. ~Finish
  <2>1. Len(Script) = 3  BY ScriptTyped DEF TypeOK
  <2> QED  BY <1>i, <2>1 DEF Finish
<1>9. CASE TimesOut
  BY <1>i, <1>9 DEF TimesOut, SelectInv, BeforeTalk, Quiet, ChoiceIsLast, SelectsDevice, Resetting
<1>10. ~PrepareImage /\ ~StartServices /\ ~Prompt /\ ~PrepareFails
  BY <1>i DEF PrepareImage, StartServices, Prompt, PrepareFails, Preparing
<1>11. CASE UNCHANGED vars
  <2>1. OneAnnouncement => OneAnnouncement'
    BY <1>11 DEF vars, OneAnnouncement, Settled, Undecided, Announces
  <2> QED  BY <1>i, <1>11, <2>1 DEF vars, SelectInv, BeforeTalk, Quiet, ChoiceIsLast, SelectsDevice
<1> QED
  BY <1>1, <1>2, <1>3, <1>4, <1>5, <1>6, <1>7, <1>8, <1>9, <1>10, <1>11
  DEF Next, Program, DPU

-----------------------------------------------------------------------------
(* What the dialogues guarantee *)

\* At every moment no key on its way and no probe names another device, and an
\* announcement that is not read yet is the latest: the invariants of the tools.
THEOREM DialogueInvariant == Spec => []DialogueInv
<1>1. TypeOK /\ DialogueInv /\ [Next]_vars => (TypeOK /\ DialogueInv)'
  BY TypeStep, FlashStep, SaveStep, SelectStep DEF DialogueInv
<1>2. Init => DialogueInv  BY FlashInit, SaveInit, SelectInit DEF DialogueInv
<1> QED  BY TypeInit, <1>1, <1>2, PTL DEF Spec

\* No tool but fwupdate.py writes a flash, whatever keys are lost or late and
\* whatever fails before: "sf update" only that of the device it was asked for,
\* "saveenv" only that of the device U-Boot runs from when the primary is chosen.
THEOREM FlashesOnlyRequested == Spec => []OthersUntouched
<1>1. DialogueInv => OthersUntouched
  BY DEF DialogueInv, FlashInv, SaveInv, OthersUntouched
<1> QED  BY DialogueInvariant, <1>1, PTL

\* "reset.py -B" that succeeds leaves the DPU booting from the device it was asked
\* for: for every number of tries, whatever keys are lost or late, and whatever
\* device it comes up with.
THEOREM SelectsOnlyWanted == Spec => []SelectsDevice
<1>1. DialogueInv => SelectsDevice  BY DEF DialogueInv, SelectInv, SelectsDevice
<1> QED  BY DialogueInvariant, <1>1, PTL

=============================================================================
