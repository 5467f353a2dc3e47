------------------------- MODULE BootDialogueProofs -------------------------
(***************************************************************************)
(* What the two dialogues promise that end with the firmware in a certain  *)
(* state: uefi_reset_and_enter_boot_menu() in the Boot Manager of the      *)
(* secondary device, firmware_update() with its file in the flash.         *)
(*                                                                         *)
(* A text that answers a key is printed only when that key arrives, so a   *)
(* dialogue that has seen it knows which screen the firmware shows and     *)
(* that no key is on its way.  The texts a boot prints by itself tell      *)
(* nothing, and an old one may still be in the buffer.                     *)
(***************************************************************************)
EXTENDS BootConsoleProofs

\* None of the texts not read yet is in S ...
Without(S) == \A i \in DOMAIN text : text[i] \notin S
\* ... or only the last one, which is t.
EndsWith(t, S) ==
  /\ Len(text) # 0 /\ text[Len(text)] = t
  /\ \A i \in DOMAIN text : i # Len(text) => text[i] \notin S

\* What the UEFI and the boot stub print as an answer to a key.
Answers == {"2)", "language", "selection", "path"}

-----------------------------------------------------------------------------
(* Texts *)

\* Nothing of S is printed.
LEMMA PrintsNone ==
  ASSUME text \in Seq(Texts), NEW S, Without(S), NEW ts \in Seq(Texts), Prints(ts),
         \A i \in DOMAIN ts : ts[i] \notin S
  PROVE  Without(S)'
BY Appended DEF Prints, Without

\* Only the last text that is printed is of S.
LEMMA PrintsLast ==
  ASSUME text \in Seq(Texts), NEW S, Without(S), open, NEW ts \in Seq(Texts), Prints(ts),
         Len(ts) # 0, \A i \in DOMAIN ts : i # Len(ts) => ts[i] \notin S
  PROVE  EndsWith(ts[Len(ts)], S)'
<1>1. text' = text \o ts  BY DEF Prints
<1>2. Len(text') = Len(text) + Len(ts) /\ text'[Len(text')] = ts[Len(ts)]  BY <1>1
<1>3. ASSUME NEW i \in DOMAIN text', i # Len(text')
      PROVE  text'[i] \notin S
  <2>1. CASE i \in DOMAIN text /\ text'[i] = text[i]  BY <2>1 DEF Without
  <2>2. CASE i - Len(text) \in DOMAIN ts /\ text'[i] = ts[i - Len(text)]
    <3>1. i \in Nat /\ Len(text) \in Nat /\ Len(ts) \in Nat  BY <1>1, <1>3
    <3>2. i - Len(text) # Len(ts)  BY <1>2, <1>3, <3>1
    <3> QED  BY <2>2, <3>2
  <2> QED  BY <1>1, <2>1, <2>2, Appended
<1> QED  BY <1>2, <1>3 DEF EndsWith

\* One text is printed.
LEMMA PrintsOne ==
  ASSUME text \in Seq(Texts), NEW S, open, NEW t \in Texts, Prints(<<t>>)
  PROVE  /\ text = <<>> => text' = <<t>>
         /\ Without(S) => IF t \in S THEN EndsWith(t, S)' ELSE Without(S)'
<1> DEFINE ts == <<t>>
<1>1. ts \in Seq(Texts) /\ Len(ts) = 1 /\ DOMAIN ts = {1} /\ ts[1] = t  OBVIOUS
<1>2. text = <<>> => text' = <<t>>  BY DEF Prints
<1> HIDE DEF ts
<1>3. Prints(ts)  BY DEF ts
<1>4. ASSUME Without(S), t \in S
      PROVE  EndsWith(t, S)'
  <2>1. \A i \in DOMAIN ts : i # Len(ts) => ts[i] \notin S  BY <1>1
  <2>2. EndsWith(ts[Len(ts)], S)'  BY <1>1, <1>3, <1>4, <2>1, PrintsLast
  <2> QED  BY <1>1, <1>4, <2>2 DEF EndsWith
<1>5. ASSUME Without(S), t \notin S
      PROVE  Without(S)'
  <2>1. \A i \in DOMAIN ts : ts[i] \notin S  BY <1>1, <1>5
  <2> QED  BY <1>1, <1>3, <1>5, <2>1, PrintsNone
<1> QED  BY <1>2, <1>4, <1>5

\* What expect() leaves of texts without S is without S.
LEMMA DropsSome ==
  ASSUME text \in Seq(Texts), NEW S, Without(S), NEW n \in 0..Len(text), DropTo(n)
  PROVE  Without(S)'
BY Dropped DEF DropTo, Without

\* expect() that finds a text of S finds the last one, and leaves nothing.
LEMMA DropsAll ==
  ASSUME text \in Seq(Texts), NEW S, NEW t, EndsWith(t, S),
         NEW n \in DOMAIN text, text[n] \in S, DropTo(n)
  PROVE  text' = <<>>
<1>1. n = Len(text)  BY DEF EndsWith
<1>2. text' = SubSeq(text, Len(text) + 1, Len(text))  BY <1>1 DEF DropTo
<1> QED  BY <1>2

\* What the DPU does without a key, while it boots: what it prints answers no key.
LEMMA BootsOn ==
  ASSUME TypeOK, Announce \/ WindowCloses \/ StartFirmware \/ CountdownEnds
  PROVE  /\ UNCHANGED <<given, dev, uboot, open, keys, call>>
         /\ screen \in {"early", "window", "loading", "countdown", "esc"}
         /\ \E ts \in Seq(Texts) :
              /\ Prints(ts)
              /\ \A i \in DOMAIN ts : /\ ts[i] \notin Answers \cup {"1)"}
                                      /\ screen # "loading" => ts[i] # "autoboot"
<1> USE DEF Rest, Answers
<1>1. CASE Announce
  <2> DEFINE ts == <<IF dev = 1 THEN "SPI0" ELSE "SPI1", window>>
  <2>0. window \in Prompts  BY DEF TypeOK
  <2>1. ts \in Seq(Texts)
    <3>1. (IF dev = 1 THEN "SPI0" ELSE "SPI1") \in Texts /\ window \in Texts
      BY <2>0 DEF Texts
    <3> QED  BY <3>1, Short
  <2>2. \A i \in DOMAIN ts : ts[i] \notin Answers \cup {"1)", "autoboot"}
    <3>1. window \notin Answers \cup {"1)", "autoboot"}  BY <2>0 DEF Prompts
    <3> QED  BY <3>1
  <2> QED  BY <1>1, <2>1, <2>2 DEF Announce, Shows
<1>2. CASE WindowCloses \/ CountdownEnds
  <2>1. Prints(<<>>) /\ <<>> \in Seq(Texts)
    BY <1>2 DEF WindowCloses, CountdownEnds, Prints, TypeOK
  <2>2. \A i \in DOMAIN <<>> : FALSE  OBVIOUS
  <2> QED  BY <1>2, <2>1, <2>2 DEF WindowCloses, CountdownEnds
<1>3. CASE StartFirmware
  <2> DEFINE u == <<"detected", "OK", "autoboot">>
             e == <<"escape">>
  <2>1. u \in Seq(Texts) /\ e \in Seq(Texts)  BY DEF Texts
  <2>2. /\ \A i \in DOMAIN u : u[i] \notin Answers \cup {"1)"}
        /\ \A i \in DOMAIN e : e[i] \notin Answers \cup {"1)"}
    OBVIOUS
  <2>3. Prints(u) \/ Prints(e)  BY <1>3 DEF StartFirmware, Shows
  <2>4. screen = "loading"  BY <1>3 DEF StartFirmware
  <2> QED  BY <1>3, <2>1, <2>2, <2>3, <2>4 DEF StartFirmware, Shows
<1> QED  BY <1>1, <1>2, <1>3

-----------------------------------------------------------------------------
(* Entering the boot menu *)

\* It booted from the secondary device, unless that does not come up.
Secondary == dev = BootsFrom(2)

\* It still did when neither changes.
LEMMA StillSecondary ==
  ASSUME UNCHANGED <<given, dev>>
  PROVE  Secondary <=> Secondary'
BY DEF given, Secondary, BootsFrom

\* Where the firmware is when uefi_reset_and_enter_boot_menu() is at a step.
EnterStage ==
  \/ step = 1 /\ keys = <<>> /\ Without(Answers)
  \/ /\ step = 2
     /\ \/ keys \in {<<>>, <<"b">>} /\ Without(Answers)
        \/ keys = <<>> /\ screen = "options" /\ EndsWith("2)", Answers)
  \/ /\ step = 3
     /\ \/ keys \in {<<>>, <<"2">>} /\ screen = "options" /\ text = <<>>
        \/ keys = <<>> /\ Secondary /\ Without(Answers)
  \/ /\ step = 4 /\ Secondary
     /\ \/ keys \in {<<>>, <<"esc">>} /\ Without(Answers)
        \/ keys = <<>> /\ screen = "front0" /\ EndsWith("language", Answers)
  \/ /\ step = 5 /\ Secondary
     /\ \/ keys \in {<<>>, <<"down">>, <<"down", "down">>} /\ screen = "front0" /\ text = <<>>
        \/ keys \in {<<>>, <<"down">>} /\ screen = "front1" /\ text = <<>>
        \/ keys = <<>> /\ screen = "front2" /\ text = <<"selection">>
  \/ /\ step = 6 /\ Secondary
     /\ \/ keys \in {<<>>, <<"enter">>} /\ screen = "front2" /\ text = <<>>
        \/ keys = <<>> /\ screen = "bootmgr" /\ text = <<"path">>
  \/ step = 7 /\ Secondary /\ keys = <<>> /\ screen = "bootmgr" /\ text = <<>>

\* The strengthening of EntersBootMenu.
EnterInv == tool = "enter" =>
  /\ open /\ pc \notin Preparing /\ EnterStage
  /\ pc \in Resetting \cup {"open"} => step = 1
  /\ pc = "done" => step = 7

LEMMA EnterInit == Init => EnterInv
<1> SUFFICES ASSUME Init, tool = "enter"
             PROVE  EnterInv
  BY DEF EnterInv
<1>1. open /\ pc = "reset" /\ step = 1 /\ keys = <<>> /\ text = <<>>  BY DEF Init
<1>2. Without(Answers)  BY <1>1 DEF Without
<1> QED  BY <1>1, <1>2 DEF EnterInv, EnterStage, Preparing

\* The boot of the DPU goes on by itself.
LEMMA EnterBoots ==
  ASSUME TypeOK, open, EnterStage, Announce \/ WindowCloses \/ StartFirmware \/ CountdownEnds
  PROVE  EnterStage'
<1>1. /\ UNCHANGED <<given, dev, uboot, open, keys, call>>
      /\ screen \in {"early", "window", "loading", "countdown", "esc"}
  BY BootsOn
<1>2. Without(Answers) => Without(Answers)'
  <2>1. PICK ts \in Seq(Texts) :
           /\ Prints(ts)
           /\ \A i \in DOMAIN ts : /\ ts[i] \notin Answers \cup {"1)"}
                                   /\ screen # "loading" => ts[i] # "autoboot"
    BY BootsOn
  <2>2. Prints(ts) /\ \A i \in DOMAIN ts : ts[i] \notin Answers  BY <2>1
  <2>3. text \in Seq(Texts)  BY DEF TypeOK
  <2> QED  BY ONLY <2>2, <2>3, PrintsNone
<1>3. Secondary => Secondary'  BY <1>1, StillSecondary
<1> QED  BY <1>1, <1>2, <1>3 DEF EnterStage, call

\* A key is lost.
LEMMA EnterLoses ==
  ASSUME TypeOK, EnterStage, LoseKey
  PROVE  EnterStage'
<1>1. /\ UNCHANGED <<dev, screen, text, step>> /\ keys # <<>> /\ keys' = Tail(keys)
  BY DEF LoseKey, dpu, call
<1>2. Without(Answers)' = Without(Answers)  BY <1>1 DEF Without
<1>3. keys = <<"down", "down">> => keys' = <<"down">>  BY <1>1
<1>4. \A k \in {"b", "2", "esc", "down", "enter"} : keys = <<k>> => keys' = <<>>  BY <1>1
<1>5. Secondary => Secondary'  BY <1>1, StillSecondary DEF LoseKey
<1> QED  BY <1>1, <1>2, <1>3, <1>4, <1>5 DEF EnterStage

\* The firmware reads a key.
LEMMA EnterReads ==
  ASSUME TypeOK, open, EnterStage, ReadKey
  PROVE  EnterStage'
<1>1. step' = step /\ keys # <<>> /\ keys' = Tail(keys) /\ Key(Head(keys))
  BY DEF ReadKey, call
<1>2. /\ \A k \in {"b", "2", "esc", "down", "enter"} :
           keys = <<k>> => keys' = <<>> /\ Key(k)
      /\ keys = <<"down", "down">> => keys' = <<"down">> /\ Key("down")
  <2>1. \A k : keys = <<k>> => Head(keys) = k /\ Tail(keys) = <<>>  OBVIOUS
  <2>2. keys = <<"down", "down">> => Head(keys) = "down" /\ Tail(keys) = <<"down">>  OBVIOUS
  <2> QED  BY <1>1, <2>1, <2>2
<1>3. \A k \in {"b", "2", "esc", "down", "enter"} : ~Command(k)  BY DEF Command
<1>t. text \in Seq(Texts)  BY DEF TypeOK
<1>5. \A t \in Texts : Without(Answers) /\ Prints(<<t>>) =>
           IF t \in Answers THEN EndsWith(t, Answers)' ELSE Without(Answers)'
  BY <1>t, PrintsOne
<1>6. \A t \in Texts : text = <<>> /\ Prints(<<t>>) => text' = <<t>>
  BY <1>t, PrintsOne
<1>g. dev' = dev => (Secondary => Secondary')
  BY StillSecondary DEF ReadKey
<1>7. CASE step = 1  BY <1>1, <1>7 DEF EnterStage
<1>8. CASE step = 2
  <2>1. keys = <<"b">> /\ Without(Answers)  BY <1>1, <1>8 DEF EnterStage
  <2>2. keys' = <<>> /\ Key("b") /\ ~Choose("b")  BY <1>2, <2>1 DEF Choose
  <2>3. CASE screen = "window" /\ Shows("options", <<"1)", "2)">>)
    <3>0. PICK ts \in Seq(Texts) : ts = <<"1)", "2)">>
      <4>1. <<"1)", "2)">> \in Seq(Texts)  BY DEF Texts
      <4> QED  BY <4>1
    <3>1. /\ Len(ts) = 2 /\ ts[2] = "2)"
          /\ \A i \in DOMAIN ts : i # Len(ts) => ts[i] \notin Answers
      BY <3>0 DEF Answers
    <3>2. Prints(ts)  BY <2>3, <3>0 DEF Shows
    <3>3. Without(Answers)  BY <2>1
    <3>4. EndsWith(ts[Len(ts)], Answers)'
      <4>1. Len(ts) # 0  BY <3>1
      <4> QED  BY ONLY <1>t, ts \in Seq(Texts), <3>1, <3>2, <3>3, <4>1, open, PrintsLast
    <3>5. EndsWith("2)", Answers)'  BY <3>1, <3>4 DEF EndsWith
    <3> QED  BY <1>1, <1>8, <2>2, <2>3, <3>5 DEF EnterStage, Shows
  <2>4. CASE Shows("uboot", <<"crb106-pcie>">>)
    <3>1. Without(Answers)'  BY <1>5, <2>1, <2>4 DEF Shows, Texts, Answers
    <3> QED  BY <1>1, <1>8, <2>2, <3>1 DEF EnterStage
  <2> QED  BY <1>3, <2>1, <2>2, <2>3, <2>4 DEF Key, Move, EnterStage
<1>9. CASE step = 3
  <2>1. keys = <<"2">> /\ screen = "options" /\ text = <<>>
    BY <1>1, <1>9 DEF EnterStage
  <2>2. keys' = <<>> /\ Key("2")  BY <1>2, <2>1
  <2>3. dev' = BootsFrom(2) /\ text' = <<>>
    BY <1>3, <2>1, <2>2 DEF Key, Choose, Move, Boots
  <2>4. Secondary'  BY <2>3 DEF Secondary, BootsFrom, ReadKey, given
  <2> QED  BY <1>1, <1>9, <2>2, <2>3, <2>4 DEF EnterStage, Without
<1>10. CASE step = 4
  <2>1. keys = <<"esc">> /\ Without(Answers) /\ Secondary  BY <1>1, <1>10 DEF EnterStage
  <2>2. keys' = <<>> /\ Key("esc") /\ ~Choose("esc")  BY <1>2, <2>1 DEF Choose
  <2>3. CASE Shows("front0", <<"language">>) /\ dev' = dev
    <3>1. EndsWith("language", Answers)'  BY <1>5, <2>1, <2>3 DEF Shows, Texts, Answers
    <3> QED  BY <1>1, <1>g, <1>10, <2>1, <2>2, <2>3, <3>1 DEF EnterStage, Shows
  <2>4. CASE Shows("uboot", <<"crb106-pcie>">>) /\ dev' = dev
    <3>1. Without(Answers)'  BY <1>5, <2>1, <2>4 DEF Shows, Texts, Answers
    <3> QED  BY <1>1, <1>g, <1>10, <2>1, <2>2, <2>4, <3>1 DEF EnterStage
  <2> QED  BY <1>3, <2>1, <2>2, <2>3, <2>4 DEF Key, Move
<1>11. CASE step = 5
  <2>1. /\ keys \in {<<"down">>, <<"down", "down">>} /\ screen \in {"front0", "front1"}
        /\ screen = "front1" => keys = <<"down">>
        /\ text = <<>> /\ Secondary
    BY <1>1, <1>11 DEF EnterStage
  <2>2. Key("down") /\ ~Choose("down") /\ ~Command("down")  BY <1>2, <1>3, <2>1 DEF Choose
  <2>3. /\ keys' \in {<<>>, <<"down">>}
        /\ keys = <<"down">> => keys' = <<>>
    BY <1>2, <2>1
  <2>4. CASE screen = "front0" /\ Shows("front1", <<>>) /\ dev' = dev
    <3>1. text' = <<>>  BY <2>1, <2>4 DEF Shows, Prints
    <3>2. screen' = "front1" /\ Secondary'  BY <1>g, <2>1, <2>4 DEF Shows
    <3>3. step' = 5  BY <1>1, <1>11
    <3>4. keys' = <<>> \/ keys' = <<"down">>  BY <2>3
    <3> QED  BY ONLY <3>1, <3>2, <3>3, <3>4 DEF EnterStage
  <2>5. CASE screen = "front1" /\ Shows("front2", <<"selection">>) /\ dev' = dev
    <3>1. text' = <<"selection">>  BY <1>6, <2>1, <2>5 DEF Shows, Texts
    <3> QED  BY <1>1, <1>g, <1>11, <2>1, <2>3, <2>5, <3>1 DEF EnterStage, Shows
  <2> QED  BY <2>1, <2>2, <2>4, <2>5 DEF Key, Move
<1>12. CASE step = 6
  <2>1. keys = <<"enter">> /\ screen = "front2" /\ text = <<>> /\ Secondary
    BY <1>1, <1>12 DEF EnterStage
  <2>2. keys' = <<>> /\ Key("enter")  BY <1>2, <2>1
  <2>3. Shows("bootmgr", <<"path">>) /\ Secondary'  BY <1>3, <1>g, <2>1, <2>2 DEF Key, Choose, Move
  <2>4. text' = <<"path">>  BY <1>6, <2>1, <2>3 DEF Shows, Texts
  <2> QED  BY <1>1, <1>12, <2>2, <2>3, <2>4 DEF EnterStage, Shows
<1> QED  BY <1>1, <1>7, <1>8, <1>9, <1>10, <1>11, <1>12 DEF EnterStage

\* The dialogue takes its next turn.
LEMMA EnterTalks ==
  ASSUME TypeOK, EnterStage, tool = "enter", Talk
  PROVE  EnterStage' /\ pc' = "talk" /\ step' # 1
<1>1. PICK n \in DOMAIN text : FirstMatch(n, MenuScript[step].expect) /\ DropTo(n)
  BY DEF Talk, Script
<1>2. /\ UNCHANGED <<dev, screen>> /\ pc' = "talk" /\ step \in 1..6 /\ step' = step + 1
      /\ keys' = keys \o MenuScript[step].send
  <2>1. step <= Len(MenuScript) /\ step \in 1..10  BY DEF Talk, Script, TypeOK
  <2>2. Len(MenuScript) = 6  BY DEF MenuScript
  <2> QED  BY <2>1, <2>2 DEF Talk, Script, dpu
<1>3. text[n] \in MenuScript[step].expect  BY <1>1 DEF FirstMatch
<1>t. text \in Seq(Texts) /\ n \in 0..Len(text) /\ text # <<>>
  BY <1>1 DEF TypeOK
<1>4. Without(Answers) => Without(Answers)' /\ text[n] \notin Answers
  BY <1>1, <1>t, DropsSome DEF Without
<1>5. \A t : EndsWith(t, Answers) /\ text[n] \in Answers => text' = <<>>
  BY <1>1, <1>t, DropsAll
<1>6. \A ks : keys = <<>> /\ MenuScript[step].send = ks /\ ks \in Seq(Keys) => keys' = ks
  BY <1>2
<1>g. Secondary => Secondary'  BY StillSecondary DEF Talk, dpu
<1>k. /\ <<"b">> \in Seq(Keys) /\ <<"2">> \in Seq(Keys) /\ <<"esc">> \in Seq(Keys)
      /\ <<"down", "down">> \in Seq(Keys) /\ <<"enter">> \in Seq(Keys) /\ <<>> \in Seq(Keys)
  BY DEF Keys
<1>7. CASE step = 1
  <2>1. MenuScript[1].send = <<"b">>  BY DEF MenuScript, Turn
  <2>2. keys = <<>> /\ Without(Answers)  BY <1>7 DEF EnterStage
  <2> QED  BY <1>2, <1>4, <1>6, <1>7, <1>k, <2>1, <2>2 DEF EnterStage
<1>8. CASE step = 2
  <2>1. MenuScript[2].send = <<"2">> /\ MenuScript[2].expect = {"2)"}
    BY DEF MenuScript, Turn
  <2>2. keys = <<>> /\ screen = "options" /\ EndsWith("2)", Answers)
    BY <1>3, <1>4, <1>8, <2>1 DEF EnterStage, Answers
  <2>3. text' = <<>>  BY <1>3, <1>5, <1>8, <2>1, <2>2 DEF Answers
  <2> QED  BY <1>2, <1>6, <1>8, <1>k, <2>1, <2>2, <2>3 DEF EnterStage
<1>9. CASE step = 3
  <2>1. MenuScript[3].send = <<"esc">>  BY DEF MenuScript, Turn
  <2>2. keys = <<>> /\ Secondary /\ Without(Answers)  BY <1>9, <1>t DEF EnterStage
  <2> QED  BY <1>2, <1>g, <1>4, <1>6, <1>9, <1>k, <2>1, <2>2 DEF EnterStage
<1>10. CASE step = 4
  <2>1. MenuScript[4].send = <<"down", "down">> /\ MenuScript[4].expect = {"language"}
    BY DEF MenuScript, Turn
  <2>2. keys = <<>> /\ Secondary /\ screen = "front0" /\ EndsWith("language", Answers)
    BY <1>3, <1>4, <1>10, <2>1 DEF EnterStage, Answers
  <2>3. text' = <<>>  BY <1>3, <1>5, <1>10, <2>1, <2>2 DEF Answers
  <2> QED  BY <1>2, <1>g, <1>6, <1>10, <1>k, <2>1, <2>2, <2>3 DEF EnterStage
<1>11. CASE step = 5
  <2>1. MenuScript[5].send = <<"enter">>  BY DEF MenuScript, Turn
  <2>2. keys = <<>> /\ Secondary /\ screen = "front2" /\ text = <<"selection">>
    BY <1>11, <1>t DEF EnterStage
  <2>3. text' = <<>>  BY <1>1, <2>2 DEF DropTo
  <2> QED  BY <1>2, <1>g, <1>6, <1>11, <1>k, <2>1, <2>2, <2>3 DEF EnterStage
<1>12. CASE step = 6
  <2>1. MenuScript[6].send = <<>>  BY DEF MenuScript, Turn
  <2>2. keys = <<>> /\ Secondary /\ screen = "bootmgr" /\ text = <<"path">>
    BY <1>12, <1>t DEF EnterStage
  <2>3. text' = <<>>  BY <1>1, <2>2 DEF DropTo
  <2> QED  BY <1>2, <1>g, <1>6, <1>12, <1>k, <2>1, <2>2, <2>3 DEF EnterStage
<1> QED  BY <1>2, <1>7, <1>8, <1>9, <1>10, <1>11, <1>12

LEMMA EnterStep == TypeOK /\ EnterInv /\ [Next]_vars => EnterInv'
<1> SUFFICES ASSUME TypeOK, EnterInv, [Next]_vars, tool = "enter"
             PROVE  EnterInv'
  BY DEF EnterInv, Next, Program, DPU, vars, given, Rest, Announce, WindowCloses,
         StartFirmware, CountdownEnds, ReadKey, LoseKey, PrepareImage, StartServices,
         Prompt, PrepareFails, SeePrompt, EnterManagement, SendReboot, ResetFails, OpenPort,
         Talk, Finish, TimesOut
<1>i. /\ open /\ pc \notin Preparing /\ EnterStage
      /\ pc \in Resetting \cup {"open"} => step = 1
      /\ pc = "done" => step = 7
  BY DEF EnterInv
<1>g. dev' = dev => (Secondary => Secondary')
  BY StillSecondary
  DEF Next, Program, DPU, vars, given, Rest, Announce, WindowCloses,
      StartFirmware, CountdownEnds, ReadKey, LoseKey, PrepareImage, StartServices,
      Prompt, PrepareFails, SeePrompt, EnterManagement, SendReboot, ResetFails, OpenPort,
      Talk, Finish, TimesOut
<1>1. CASE Announce \/ WindowCloses \/ StartFirmware \/ CountdownEnds
  <2>1. EnterStage'  BY <1>i, <1>1, EnterBoots
  <2>2. UNCHANGED <<open, pc, step>>  BY <1>1, BootsOn DEF call
  <2> QED  BY <1>i, <2>1, <2>2 DEF EnterInv
<1>2. CASE ReadKey
  <2>1. EnterStage'  BY <1>i, <1>2, EnterReads
  <2>2. UNCHANGED <<open, pc, step>>  BY <1>2 DEF ReadKey, call
  <2> QED  BY <1>i, <2>1, <2>2 DEF EnterInv
<1>3. CASE LoseKey
  <2>1. EnterStage'  BY <1>i, <1>3, EnterLoses
  <2>2. UNCHANGED <<open, pc, step>>  BY <1>3 DEF LoseKey, call
  <2> QED  BY <1>i, <2>1, <2>2 DEF EnterInv
<1>4. CASE SeePrompt \/ EnterManagement \/ SendReboot \/ ResetFails
  <2>1. /\ UNCHANGED <<step, keys, text, open>> /\ pc \in Resetting
        /\ pc' \in Resetting \cup {"open", "failed"}
    BY <1>4 DEF SeePrompt, EnterManagement, SendReboot, ResetFails, Resetting, line
  <2>2. step = 1 /\ keys = <<>> /\ Without(Answers)  BY <1>i, <2>1 DEF EnterStage
  <2>3. EnterStage'  BY <2>1, <2>2 DEF EnterStage, Without
  <2> QED  BY <1>i, <2>1, <2>2, <2>3 DEF EnterInv, Resetting, Preparing
<1>5. CASE OpenPort
  <2>1. /\ UNCHANGED <<step, keys>> /\ pc = "open" /\ pc' = "talk" /\ open' = TRUE
        /\ \E n \in 0..Len(text) : DropTo(n)
    BY <1>5 DEF OpenPort
  <2>2. step = 1 /\ keys = <<>> /\ Without(Answers)  BY <1>i, <2>1 DEF EnterStage
  <2>3. Without(Answers)'  BY <2>1, <2>2, DropsSome DEF TypeOK
  <2> QED  BY <2>1, <2>2, <2>3 DEF EnterInv, EnterStage, Resetting, Preparing
<1>6. CASE Talk
  <2>1. EnterStage' /\ pc' = "talk"  BY <1>i, <1>6, EnterTalks
  <2>2. open' = open  BY <1>6 DEF Talk
  <2> QED  BY <1>i, <2>1, <2>2 DEF EnterInv, Resetting, Preparing
<1>7. CASE Finish
  <2>1. /\ UNCHANGED <<dev, screen, keys, text, open, step>> /\ pc' = "done" /\ step > 6
    BY <1>7 DEF Finish, Script, MenuScript, dpu, line
  <2>2. step = 7  BY <1>i, <2>1 DEF EnterStage
  <2>3. EnterStage'  BY <1>g, <1>i, <2>1, <2>2 DEF EnterStage
  <2> QED  BY <1>i, <2>1, <2>2, <2>3 DEF EnterInv, Resetting, Preparing
<1>8. CASE TimesOut \/ UNCHANGED vars
  <2>1. /\ UNCHANGED <<dev, screen, keys, text, open, step>>
        /\ pc' = pc \/ pc' = "failed"
    BY <1>8 DEF TimesOut, vars, dpu, line, call
  <2>2. EnterStage'  BY <1>g, <1>i, <2>1 DEF EnterStage, Without, EndsWith
  <2> QED  BY <1>i, <2>1, <2>2 DEF EnterInv, Resetting, Preparing
<1>9. ~PrepareImage /\ ~StartServices /\ ~Prompt /\ ~PrepareFails
  BY <1>i DEF PrepareImage, StartServices, Prompt, PrepareFails, Preparing
<1> QED
  BY <1>1, <1>2, <1>3, <1>4, <1>5, <1>6, <1>7, <1>8, <1>9 DEF Next, Program, DPU

\* uefi_reset_and_enter_boot_menu() that returns has opened the Boot Manager of the
\* secondary device, for every number of tries of reset(), whatever keys get lost or
\* come too late and whatever is left in the buffer of an earlier boot.
THEOREM EntersOnlyBootMenu == Spec => []EntersBootMenu
<1>1. TypeOK /\ EnterInv /\ [Next]_vars => (TypeOK /\ EnterInv)'
  BY TypeStep, EnterStep
<1>2. EnterInv => EntersBootMenu
  BY DEF EnterInv, EnterStage, EntersBootMenu, Secondary
<1> QED  BY TypeInit, EnterInit, <1>1, <1>2, PTL DEF Spec

-----------------------------------------------------------------------------
(* Flashing *)

\* U-Boot has all of the image in its memory.
Transferred == ram = image /\ size = image

\* What firmware_update() waits for, turn by turn, and how it ends.
AwaitsWindow == keys = <<>> /\ Without({"1)"})
AwaitsOptions ==
  \/ keys \in {<<>>, <<"b">>} /\ Without({"1)"})
  \/ /\ keys = <<>> /\ screen = "options"
     /\ \A i, j \in DOMAIN text : text[i] = "1)" /\ i < j => text[j] # "autoboot"
AwaitsCountdown ==
  \/ keys \in {<<>>, <<"1">>} /\ screen = "options" /\ Without({"autoboot"})
  \/ keys = <<>> /\ Without({"autoboot"})
  \/ keys = <<>> /\ screen \in {"countdown", "running"} /\ EndsWith("autoboot", {"autoboot"})
AwaitsUBoot ==
  \/ keys \in {<<>>, <<"enter">>} /\ screen \in {"countdown", "running"} /\ text = <<>>
  \/ keys = <<>> /\ screen = "uboot" /\ text = <<"crb106-pcie>">>
AwaitsSaved == screen = "uboot" /\
  \/ keys \in {<<>>, <<"saveenv">>, <<"setenv ethact", "saveenv">>} /\ text = <<>>
  \/ keys = <<>> /\ text = <<"OK">>
AwaitsLease == screen = "uboot" /\
  \/ keys \in {<<>>, <<"dhcp">>} /\ text = <<>>
  \/ keys = <<>> /\ text = <<"bound">>
AwaitsTransfer == screen = "uboot" /\
  \/ keys \in {<<>>, <<"tftpboot">>, <<"setenv serverip", "tftpboot">>} /\ text = <<>>
  \/ keys = <<>> /\ text = <<"transferred">> /\ Transferred
AwaitsProbe == screen = "uboot" /\ Transferred /\
  \/ keys \in {<<>>, <<Named>>} /\ text = <<>>
  \/ keys = <<>> /\ text = <<"detected">>
AwaitsWritten == screen = "uboot" /\ Transferred /\
  \/ keys \in {<<>>, <<"sf update">>} /\ text = <<>>
  \/ keys = <<>> /\ text = <<"written">> /\ flash[want] = image
Restarts == keys \in {<<>>, <<"reset">>} /\ flash[want] = image

FlashStage ==
  /\ step = 1 => AwaitsWindow
  /\ step = 2 => AwaitsOptions
  /\ step = 3 => AwaitsCountdown
  /\ step = 4 => AwaitsUBoot
  /\ step = 5 => AwaitsSaved
  /\ step = 6 => AwaitsLease
  /\ step = 7 => AwaitsTransfer
  /\ step = 8 => AwaitsProbe
  /\ step = 9 => AwaitsWritten
  /\ step = 10 => Restarts

\* The strengthening of FlashesPrepared.
PreparedInv == tool = "fwupdate" /\ ~leftover =>
  /\ FlashStage
  /\ pc \in Resetting \cup Preparing \cup {"open"} => step = 1 /\ ~open /\ text = <<>>
  /\ step # 1 \/ pc = "talk" => open
  /\ pc = "done" => step = 10
  /\ step <= 8 => flash[want] = "old"
  /\ FlashesPrepared

LEMMA PreparedInit == Init => PreparedInv
<1> SUFFICES ASSUME Init, tool = "fwupdate"
             PROVE  PreparedInv
  BY DEF PreparedInv
<1>1. /\ ~open /\ pc = "prepare" /\ step = 1 /\ keys = <<>> /\ text = <<>>
      /\ want \in Devices /\ flash[want] = "old"
  BY DEF Init
<1>2. Without({"1)"})  BY <1>1 DEF Without
<1> QED  BY <1>1, <1>2 DEF PreparedInv, FlashStage, AwaitsWindow, FlashesPrepared

\* The boot of the DPU goes on by itself.
LEMMA FlashBoots ==
  ASSUME TypeOK, step # 1 => open, FlashStage,
         Announce \/ WindowCloses \/ StartFirmware \/ CountdownEnds
  PROVE  FlashStage'
<1>1. /\ UNCHANGED <<given, dev, uboot, open, keys, call>>
      /\ screen \in {"early", "window", "loading", "countdown", "esc"}
  BY BootsOn
<1>2. UNCHANGED <<keys, step, image, want, ram, size, flash>>
  BY <1>1 DEF given, uboot, stored, call
<1>3. UNCHANGED <<Named, Transferred>>  BY <1>2 DEF Named, Transferred
<1>t. text \in Seq(Texts)  BY DEF TypeOK
<1>4. Without({"1)"}) => Without({"1)"})'
  <2>1. PICK ts \in Seq(Texts) :
           /\ Prints(ts)
           /\ \A i \in DOMAIN ts : /\ ts[i] \notin Answers \cup {"1)"}
                                   /\ screen # "loading" => ts[i] # "autoboot"
    BY BootsOn
  <2>2. Prints(ts) /\ \A i \in DOMAIN ts : ts[i] \notin {"1)"}  BY <2>1
  <2> QED  BY ONLY <1>t, <2>2, PrintsNone
<1>5. Without({"autoboot"}) /\ open =>
        \/ Without({"autoboot"})'
        \/ screen' = "countdown" /\ EndsWith("autoboot", {"autoboot"})'
  <2> SUFFICES ASSUME Without({"autoboot"}), open
               PROVE  \/ Without({"autoboot"})'
                      \/ screen' = "countdown" /\ EndsWith("autoboot", {"autoboot"})'
    OBVIOUS
  <2>1. CASE screen # "loading"
    <3>1. PICK ts \in Seq(Texts) :
             /\ Prints(ts)
             /\ \A i \in DOMAIN ts : /\ ts[i] \notin Answers \cup {"1)"}
                                     /\ screen # "loading" => ts[i] # "autoboot"
      BY BootsOn
    <3>2. Prints(ts) /\ \A i \in DOMAIN ts : ts[i] \notin {"autoboot"}  BY <2>1, <3>1
    <3>3. Without({"autoboot"})  OBVIOUS
    <3>4. Without({"autoboot"})'  BY ONLY <1>t, <3>2, <3>3, PrintsNone
    <3> QED  BY <3>4
  <2>2. CASE screen = "loading"
    <3>1. StartFirmware
      BY <2>2 DEF Announce, WindowCloses, CountdownEnds
    <3>2. CASE Shows("countdown", <<"detected", "OK", "autoboot">>)
      <4>1. PICK ts \in Seq(Texts) : ts = <<"detected", "OK", "autoboot">>
        <5>1. <<"detected", "OK", "autoboot">> \in Seq(Texts)  BY DEF Texts
        <5> QED  BY <5>1
      <4>2. /\ Len(ts) = 3 /\ ts[3] = "autoboot"
            /\ \A i \in DOMAIN ts : i # Len(ts) => ts[i] \notin {"autoboot"}
        BY <4>1
      <4>3. Prints(ts) /\ screen' = "countdown"  BY <3>2, <4>1 DEF Shows
      <4>4. Len(ts) # 0 /\ Without({"autoboot"}) /\ open  BY <4>2
      <4>5. EndsWith(ts[Len(ts)], {"autoboot"})'
        BY ONLY <1>t, ts \in Seq(Texts), <4>2, <4>3, <4>4, PrintsLast
      <4>6. EndsWith("autoboot", {"autoboot"})'  BY <4>2, <4>5 DEF EndsWith
      <4> QED  BY <4>3, <4>6
    <3>3. CASE Shows("esc", <<"escape">>)
      <4>1. Without({"autoboot"}) =>
              IF "escape" \in {"autoboot"} THEN EndsWith("escape", {"autoboot"})'
                                           ELSE Without({"autoboot"})'
        BY <1>t, <3>3, PrintsOne DEF Shows, Texts
      <4> QED  BY <4>1
    <3> QED  BY <3>1, <3>2, <3>3 DEF StartFirmware
  <2> QED  BY <2>1, <2>2
<1>6. screen = "countdown" => screen' = "running" /\ text' = text
  BY DEF Announce, WindowCloses, StartFirmware, CountdownEnds
<1>7. text' = text => EndsWith("autoboot", {"autoboot"})' = EndsWith("autoboot", {"autoboot"})
  BY DEF EndsWith
<1>8. AwaitsWindow => AwaitsWindow'  BY <1>2, <1>4 DEF AwaitsWindow
<1>9. AwaitsOptions => AwaitsOptions'  BY <1>1, <1>2, <1>4 DEF AwaitsOptions
<1>10. AwaitsCountdown /\ open => AwaitsCountdown'
  BY <1>1, <1>2, <1>5, <1>6, <1>7 DEF AwaitsCountdown
<1>11. AwaitsUBoot => AwaitsUBoot'  BY <1>1, <1>2, <1>6 DEF AwaitsUBoot
<1>12. step # 5 /\ step # 6 /\ step # 7 /\ step # 8 /\ step # 9
  BY <1>1 DEF FlashStage, AwaitsSaved, AwaitsLease, AwaitsTransfer, AwaitsProbe, AwaitsWritten
<1>13. Restarts => Restarts'  BY <1>2 DEF Restarts
<1> QED  BY <1>2, <1>8, <1>9, <1>10, <1>11, <1>12, <1>13 DEF FlashStage

\* A key is lost.
LEMMA FlashLoses ==
  ASSUME TypeOK, FlashStage, LoseKey
  PROVE  FlashStage'
<1>1. /\ UNCHANGED <<screen, text, step, want, image, ram, size, flash>>
      /\ keys # <<>> /\ keys' = Tail(keys)
  BY DEF LoseKey, dpu, call, given, uboot, stored
<1>2. UNCHANGED <<Named, Transferred>>  BY <1>1 DEF Named, Transferred
<1>3. \A S : Without(S)' = Without(S)  BY <1>1 DEF Without
<1>4. \A k : keys = <<k>> => keys' = <<>>  BY <1>1
<1>5. \A k, l : keys = <<k, l>> => keys' = <<l>>  BY <1>1
<1>6. AwaitsWindow => AwaitsWindow'  BY <1>1 DEF AwaitsWindow
<1>7. AwaitsOptions => AwaitsOptions'  BY <1>1, <1>3, <1>4 DEF AwaitsOptions
<1>8. AwaitsCountdown => AwaitsCountdown'  BY <1>1, <1>3, <1>4 DEF AwaitsCountdown
<1>9. AwaitsUBoot => AwaitsUBoot'  BY <1>1, <1>4 DEF AwaitsUBoot
<1>10. AwaitsSaved => AwaitsSaved'  BY <1>1, <1>4, <1>5 DEF AwaitsSaved
<1>11. AwaitsLease => AwaitsLease'  BY <1>1, <1>4 DEF AwaitsLease
<1>12. AwaitsTransfer => AwaitsTransfer'  BY <1>1, <1>2, <1>4, <1>5 DEF AwaitsTransfer
<1>13. AwaitsProbe => AwaitsProbe'  BY <1>1, <1>2, <1>4 DEF AwaitsProbe
<1>14. AwaitsWritten => AwaitsWritten'  BY <1>1, <1>2, <1>4 DEF AwaitsWritten
<1>15. Restarts => Restarts'  BY <1>1, <1>4 DEF Restarts
<1> QED
  BY <1>1, <1>6, <1>7, <1>8, <1>9, <1>10, <1>11, <1>12, <1>13, <1>14, <1>15 DEF FlashStage

\* What U-Boot does with the commands of firmware_update().
LEMMA Commands ==
  /\ Command("saveenv") => SaveEnv
  /\ Command("dhcp") => Dhcp
  /\ Command("tftpboot") => Tftpboot
  /\ Command("sf update") => Update
  /\ Command(Named) => \E d \in Devices : Probe(d)
  /\ ~Command("setenv ethact") /\ ~Command("setenv serverip")
<1>1. Command("saveenv") => SaveEnv  BY DEF Command
<1>2. Command("dhcp") => Dhcp  BY DEF Command
<1>3. Command("tftpboot") => Tftpboot  BY DEF Command
<1>4. Command("sf update") => Update  BY DEF Command
<1>5. Command(Named) => \E d \in Devices : Probe(d)
  <2>1. Command("sf probe 0:0") => Probe(1)  BY DEF Command
  <2>2. Command("sf probe 1:0") => Probe(2)  BY DEF Command
  <2> QED  BY <2>1, <2>2 DEF Named, Devices
<1>6. ~Command("setenv ethact") /\ ~Command("setenv serverip")  BY DEF Command
<1> QED  BY <1>1, <1>2, <1>3, <1>4, <1>5, <1>6

\* The firmware reads a key.  The flash changes only at the write, which follows a
\* whole transfer and a probe that names the wanted device.
LEMMA FlashReads ==
  ASSUME TypeOK, FlashInv, tool = "fwupdate", ~leftover, step # 1 => open, FlashStage, ReadKey
  PROVE  /\ FlashStage'
         /\ flash'[want] \in {flash[want], "mix", image}
         /\ step # 9 => flash'[want] = flash[want]
<1>1. /\ UNCHANGED <<step, want, image, open, leftover>>
      /\ keys # <<>> /\ keys' = Tail(keys) /\ Key(Head(keys))
  BY DEF ReadKey, call, given
<1>2. \A k : keys = <<k>> => keys' = <<>> /\ Key(k)
  <2>1. \A k : keys = <<k>> => Head(keys) = k /\ Tail(keys) = <<>>  OBVIOUS
  <2> QED  BY <1>1, <2>1
<1>3. \A k, l : keys = <<k, l>> => keys' = <<l>> /\ Key(k)
  <2>1. \A k, l : keys = <<k, l>> => Head(keys) = k /\ Tail(keys) = <<l>>  OBVIOUS
  <2> QED  BY <1>1, <2>1
<1>t. text \in Seq(Texts)  BY DEF TypeOK
<1>4. \A S : \A t \in Texts : open /\ Prints(<<t>>) =>
           /\ text = <<>> => text' = <<t>>
           /\ Without(S) => IF t \in S THEN EndsWith(t, S)' ELSE Without(S)'
  BY <1>t, PrintsOne
<1>n. UNCHANGED Named  BY <1>1 DEF Named
<1>5. CASE step = 1  BY <1>1, <1>5 DEF FlashStage, AwaitsWindow
<1>6. CASE step = 2
  <2>1. keys = <<"b">> /\ Without({"1)"})
    BY <1>1, <1>6 DEF FlashStage, AwaitsOptions
  <2>2. keys' = <<>> /\ Key("b") /\ ~Choose("b") /\ ~Command("b")
    BY <1>2, <2>1 DEF Choose, Command
  <2>3. Move("b")  BY <2>2 DEF Key
  <2>4. flash' = flash  BY <2>3 DEF Move, uboot, stored
  <2>5. CASE Shows("options", <<"1)", "2)">>)
    <3>1. PICK ts \in Seq(Texts) : ts = <<"1)", "2)">>
      <4>1. <<"1)", "2)">> \in Seq(Texts)  BY DEF Texts
      <4> QED  BY <4>1
    <3>2. text' = text \o ts /\ screen' = "options"  BY <1>6, <2>5, <3>1 DEF Shows, Prints
    <3>3. ASSUME NEW m \in DOMAIN text', NEW l \in DOMAIN text', text'[m] = "1)", m < l
          PROVE  text'[l] # "autoboot"
      <4>1. m \notin DOMAIN text  BY <1>t, <2>1, <3>2, <3>3 DEF Without
      <4>2. l \notin DOMAIN text  BY <1>t, <3>2, <3>3, <4>1
      <4>3. l - Len(text) \in DOMAIN ts /\ text'[l] = ts[l - Len(text)]
        BY <1>t, <3>2, <3>3, <4>2, Appended
      <4> QED  BY <3>1, <4>3
    <3>4. AwaitsOptions'  BY <2>2, <3>2, <3>3 DEF AwaitsOptions
    <3> QED  BY <1>1, <1>6, <2>4, <3>4 DEF FlashStage
  <2>6. CASE Shows("uboot", <<"crb106-pcie>">>)
    <3>1. Without({"1)"})'  BY <1>4, <1>6, <2>1, <2>6 DEF Shows, Texts
    <3>2. AwaitsOptions'  BY <2>2, <3>1 DEF AwaitsOptions
    <3> QED  BY <1>1, <1>6, <2>4, <3>2 DEF FlashStage
  <2> QED  BY <2>3, <2>5, <2>6 DEF Move
<1>7. CASE step = 3
  <2>1. keys = <<"1">> /\ screen = "options" /\ Without({"autoboot"})
    BY <1>1, <1>7 DEF FlashStage, AwaitsCountdown
  <2>2. keys' = <<>> /\ Key("1")  BY <1>2, <2>1
  <2>3. text' = text /\ flash' = flash  BY <2>1, <2>2 DEF Key, Choose, Move, stored
  <2>4. AwaitsCountdown'  BY <2>1, <2>2, <2>3 DEF AwaitsCountdown, Without
  <2> QED  BY <1>1, <1>7, <2>3, <2>4 DEF FlashStage
<1>8. CASE step = 4
  <2>1. keys = <<"enter">> /\ screen \in {"countdown", "running"} /\ text = <<>>
    BY <1>1, <1>8 DEF FlashStage, AwaitsUBoot
  <2>2. keys' = <<>> /\ Key("enter")  BY <1>2, <2>1
  <2>3. Shows("uboot", <<"crb106-pcie>">>) /\ flash' = flash
    BY <2>1, <2>2 DEF Key, Choose, Move, uboot, stored
  <2>4. text' = <<"crb106-pcie>">>  BY <1>4, <1>8, <2>1, <2>3 DEF Shows, Texts
  <2>5. AwaitsUBoot'  BY <2>2, <2>3, <2>4 DEF AwaitsUBoot, Shows
  <2> QED  BY <1>1, <1>8, <2>3, <2>5 DEF FlashStage
<1>9. CASE step \in 5..9
  <2>1. screen = "uboot" /\ text = <<>> /\ open
    <3>1. AwaitsSaved => screen = "uboot" /\ text = <<>>  BY <1>1 DEF AwaitsSaved
    <3>2. AwaitsLease => screen = "uboot" /\ text = <<>>  BY <1>1 DEF AwaitsLease
    <3>3. AwaitsTransfer => screen = "uboot" /\ text = <<>>  BY <1>1 DEF AwaitsTransfer
    <3>4. AwaitsProbe => screen = "uboot" /\ text = <<>>  BY <1>1 DEF AwaitsProbe
    <3>5. AwaitsWritten => screen = "uboot" /\ text = <<>>  BY <1>1 DEF AwaitsWritten
    <3>6. step # 1 /\ step \in {5, 6, 7, 8, 9}  BY <1>9
    <3> QED  BY <3>1, <3>2, <3>3, <3>4, <3>5, <3>6 DEF FlashStage
  <2>2. \A k : keys = <<k>> => keys' = <<>> /\ Command(k)
    BY <1>2, <2>1 DEF Key, Choose, Move
  <2>c. \A k, l : keys = <<k, l>> => Command(k)
    BY <1>3, <2>1 DEF Key, Choose, Move
  <2>3. CASE step = 5
    <3>1. keys = <<"saveenv">>
      BY <1>1, <2>c, <2>3, Commands DEF FlashStage, AwaitsSaved
    <3>2. keys' = <<>> /\ SaveEnv  BY <2>2, <3>1, Commands
    <3>3. /\ text' = <<"OK">> \/ text' = <<>>
          /\ screen' = "uboot" /\ flash' = flash
      BY <1>4, <2>1, <3>2 DEF SaveEnv, Texts
    <3>4. AwaitsSaved'  BY <3>2, <3>3 DEF AwaitsSaved
    <3> QED  BY <1>1, <2>3, <3>3, <3>4 DEF FlashStage
  <2>4. CASE step = 6
    <3>1. keys = <<"dhcp">>  BY <1>1, <2>4 DEF FlashStage, AwaitsLease
    <3>2. keys' = <<>> /\ Dhcp  BY <2>2, <3>1, Commands
    <3>3. text' = <<"bound">> /\ screen' = "uboot" /\ flash' = flash
      BY <1>4, <2>1, <3>2 DEF Dhcp, Texts, stored
    <3>4. AwaitsLease'  BY <3>2, <3>3 DEF AwaitsLease
    <3> QED  BY <1>1, <2>4, <3>3, <3>4 DEF FlashStage
  <2>5. CASE step = 7
    <3>1. keys = <<"tftpboot">>
      BY <1>1, <2>c, <2>5, Commands DEF FlashStage, AwaitsTransfer
    <3>2. keys' = <<>> /\ Tftpboot  BY <2>2, <3>1, Commands
    <3>3. screen' = "uboot" /\ flash' = flash  BY <2>1, <3>2 DEF Tftpboot, stored
    <3>4. CASE ram' = image /\ size' = image /\ Prints(<<"transferred">>)
      <4>1. text' = <<"transferred">>  BY <1>4, <2>1, <3>4 DEF Texts
      <4>2. AwaitsTransfer'  BY <1>1, <3>2, <3>3, <3>4, <4>1 DEF AwaitsTransfer, Transferred
      <4> QED  BY <1>1, <2>5, <3>3, <4>2 DEF FlashStage
    <3>5. CASE UNCHANGED text
      <4>1. AwaitsTransfer'  BY <2>1, <3>2, <3>3, <3>5 DEF AwaitsTransfer
      <4> QED  BY <1>1, <2>5, <3>3, <4>1 DEF FlashStage
    <3> QED  BY <3>2, <3>4, <3>5 DEF Tftpboot
  <2>6. CASE step = 8
    <3>1. keys = <<Named>> /\ Transferred  BY <1>1, <2>6 DEF FlashStage, AwaitsProbe
    <3>2. PICK d \in Devices : keys' = <<>> /\ Probe(d)
      BY <2>2, <3>1, Commands
    <3>3. screen' = "uboot" /\ flash' = flash /\ Transferred'
      BY <1>1, <2>1, <3>1, <3>2 DEF Probe, Transferred, stored
    <3>4. text' = <<"detected">> \/ text' = <<>>
      BY <1>4, <2>1, <3>2 DEF Probe, Texts
    <3>5. AwaitsProbe'  BY <3>2, <3>3, <3>4 DEF AwaitsProbe
    <3> QED  BY <1>1, <2>6, <3>3, <3>5 DEF FlashStage
  <2>7. CASE step = 9
    <3>1. keys = <<"sf update">> /\ Transferred  BY <1>1, <2>7 DEF FlashStage, AwaitsWritten
    <3>2. keys' = <<>> /\ Update  BY <2>2, <3>1, Commands
    <3>3. probed = want /\ want \in Devices /\ flash \in [Devices -> Files]
      BY <3>2 DEF FlashInv, Update, Updatable, TypeOK
    <3>4. screen' = "uboot" /\ Transferred' /\ Loaded = image
      BY <1>1, <2>1, <3>1, <3>2 DEF Update, Transferred, Loaded
    <3>5. CASE flash' = [flash EXCEPT ![probed] = Loaded] /\ Prints(<<"written">>)
      <4>1. text' = <<"written">>  BY <1>4, <2>1, <3>5 DEF Texts
      <4>2. flash'[want] = image  BY <3>3, <3>4, <3>5
      <4>3. AwaitsWritten'  BY <1>1, <3>2, <3>4, <4>1, <4>2 DEF AwaitsWritten
      <4> QED  BY <1>1, <2>7, <4>2, <4>3 DEF FlashStage
    <3>6. CASE flash' = [flash EXCEPT ![probed] = "mix"] /\ UNCHANGED text
      <4>1. flash'[want] = "mix"  BY <3>3, <3>6
      <4>2. AwaitsWritten'  BY <2>1, <3>2, <3>4, <3>6 DEF AwaitsWritten
      <4> QED  BY <1>1, <2>7, <4>1, <4>2 DEF FlashStage
    <3> QED  BY <3>2, <3>5, <3>6 DEF Update
  <2> QED  BY <1>9, <2>3, <2>4, <2>5, <2>6, <2>7
<1>10. CASE step = 10
  <2>1. keys = <<"reset">> /\ flash[want] = image  BY <1>1, <1>10 DEF FlashStage, Restarts
  <2>2. keys' = <<>> /\ Key("reset")  BY <1>2, <2>1
  <2>3. flash' = flash  BY <2>2 DEF Key, Command, Choose, Move, uboot, stored
  <2>4. Restarts'  BY <1>1, <2>1, <2>2, <2>3 DEF Restarts
  <2> QED  BY <1>1, <1>10, <2>3, <2>4 DEF FlashStage
<1> QED  BY <1>5, <1>6, <1>7, <1>8, <1>9, <1>10 DEF TypeOK

\* The dialogue takes its next turn: what it waits for says that all it asked for
\* before has been done.
LEMMA FlashTalks ==
  ASSUME TypeOK, FlashStage, tool = "fwupdate", Talk
  PROVE  /\ FlashStage' /\ pc' = "talk"
         /\ step' # 1 /\ UNCHANGED <<open, flash, want, image>>
<1>1. PICK n \in DOMAIN text : FirstMatch(n, FlashScript[step].expect) /\ DropTo(n)
  BY DEF Talk, Script
<1>2. /\ UNCHANGED <<screen, open, ram, size, flash, want, image>>
      /\ pc' = "talk" /\ step \in {1, 2, 3, 4, 5, 6, 7, 8, 9} /\ step' = step + 1
      /\ keys' = keys \o FlashScript[step].send
  <2>1. step <= Len(FlashScript) /\ step \in 1..10  BY DEF Talk, Script, TypeOK
  <2>2. Len(FlashScript) = 9  BY DEF FlashScript
  <2> QED  BY <2>1, <2>2 DEF Talk, Script, dpu, uboot, stored, given
<1>3. text[n] \in FlashScript[step].expect  BY <1>1 DEF FirstMatch
<1>t. text \in Seq(Texts) /\ n \in 0..Len(text) /\ text # <<>>
  BY <1>1 DEF TypeOK
<1>n. UNCHANGED <<Named, Transferred>>  BY <1>2 DEF Named, Transferred
<1>4. \A S : Without(S) => Without(S)' /\ text[n] \notin S
  BY <1>1, <1>t, DropsSome DEF Without
<1>5. \A t : text = <<t>> => text' = <<>>
  BY <1>1 DEF DropTo
<1>6. \A ks : keys = <<>> /\ FlashScript[step].send = ks /\ ks \in Seq(Keys) => keys' = ks
  BY <1>2
<1>k. /\ <<"b">> \in Seq(Keys) /\ <<"1">> \in Seq(Keys) /\ <<"enter">> \in Seq(Keys)
      /\ <<"setenv ethact", "saveenv">> \in Seq(Keys) /\ <<"dhcp">> \in Seq(Keys)
      /\ <<"setenv serverip", "tftpboot">> \in Seq(Keys) /\ <<Named>> \in Seq(Keys)
      /\ <<"sf update">> \in Seq(Keys) /\ <<"reset">> \in Seq(Keys)
  BY DEF Keys, Named
<1>7. CASE step = 1
  <2>1. FlashScript[1].send = <<"b">>  BY DEF FlashScript, Turn
  <2>2. keys = <<>> /\ Without({"1)"})  BY <1>7 DEF FlashStage, AwaitsWindow
  <2>3. AwaitsOptions'  BY <1>4, <1>6, <1>7, <1>k, <2>1, <2>2 DEF AwaitsOptions
  <2> QED  BY <1>2, <1>7, <2>3 DEF FlashStage
<1>8. CASE step = 2
  <2>1. FlashScript[2].send = <<"1">> /\ FlashScript[2].expect = {"1)"}
    BY DEF FlashScript, Turn
  <2>2. /\ keys = <<>> /\ screen = "options"
        /\ \A i, j \in DOMAIN text : text[i] = "1)" /\ i < j => text[j] # "autoboot"
    BY <1>3, <1>4, <1>8, <2>1 DEF FlashStage, AwaitsOptions
  <2>3. text[n] = "1)"  BY <1>3, <1>8, <2>1
  <2>4. Without({"autoboot"})'
    <3>1. \A i \in DOMAIN text' :
            i \in Nat /\ i # 0 /\ i + n \in DOMAIN text /\ text'[i] = text[i + n]
      BY <1>1, <1>t, Dropped DEF DropTo
    <3>2. \A i \in DOMAIN text' : n < i + n  BY <1>t, <3>1
    <3> QED  BY <1>1, <2>2, <2>3, <3>1, <3>2 DEF Without
  <2>5. AwaitsCountdown'
    BY <1>2, <1>6, <1>8, <1>k, <2>1, <2>2, <2>4 DEF AwaitsCountdown
  <2> QED  BY <1>2, <1>8, <2>5 DEF FlashStage
<1>9. CASE step = 3
  <2>1. FlashScript[3].send = <<"enter">> /\ FlashScript[3].expect = {"autoboot"}
    BY DEF FlashScript, Turn
  <2>2. /\ keys = <<>> /\ screen \in {"countdown", "running"}
        /\ EndsWith("autoboot", {"autoboot"})
    BY <1>3, <1>4, <1>9, <2>1 DEF FlashStage, AwaitsCountdown
  <2>3. text' = <<>>  BY <1>1, <1>3, <1>9, <1>t, <2>1, <2>2, DropsAll
  <2>4. AwaitsUBoot'  BY <1>2, <1>6, <1>9, <1>k, <2>1, <2>2, <2>3 DEF AwaitsUBoot
  <2> QED  BY <1>2, <1>9, <2>4 DEF FlashStage
<1>10. CASE step = 4
  <2>1. FlashScript[4].send = <<"setenv ethact", "saveenv">>  BY DEF FlashScript, Turn
  <2>2. keys = <<>> /\ screen = "uboot" /\ text = <<"crb106-pcie>">>
    BY <1>10, <1>t DEF FlashStage, AwaitsUBoot
  <2>3. AwaitsSaved'  BY <1>2, <1>5, <1>6, <1>10, <1>k, <2>1, <2>2 DEF AwaitsSaved
  <2> QED  BY <1>2, <1>10, <2>3 DEF FlashStage
<1>11. CASE step = 5
  <2>1. FlashScript[5].send = <<"dhcp">>  BY DEF FlashScript, Turn
  <2>2. keys = <<>> /\ screen = "uboot" /\ text = <<"OK">>
    BY <1>11, <1>t DEF FlashStage, AwaitsSaved
  <2>3. AwaitsLease'  BY <1>2, <1>5, <1>6, <1>11, <1>k, <2>1, <2>2 DEF AwaitsLease
  <2> QED  BY <1>2, <1>11, <2>3 DEF FlashStage
<1>12. CASE step = 6
  <2>1. FlashScript[6].send = <<"setenv serverip", "tftpboot">>  BY DEF FlashScript, Turn
  <2>2. keys = <<>> /\ screen = "uboot" /\ text = <<"bound">>
    BY <1>12, <1>t DEF FlashStage, AwaitsLease
  <2>3. AwaitsTransfer'  BY <1>2, <1>5, <1>6, <1>12, <1>k, <2>1, <2>2 DEF AwaitsTransfer
  <2> QED  BY <1>2, <1>12, <2>3 DEF FlashStage
<1>13. CASE step = 7
  <2>1. FlashScript[7].send = <<Named>>  BY DEF FlashScript, Turn, Named
  <2>2. keys = <<>> /\ screen = "uboot" /\ text = <<"transferred">> /\ Transferred
    BY <1>13, <1>t DEF FlashStage, AwaitsTransfer
  <2>3. AwaitsProbe'
    BY <1>2, <1>5, <1>6, <1>13, <1>k, <1>n, <2>1, <2>2 DEF AwaitsProbe
  <2> QED  BY <1>2, <1>13, <2>3 DEF FlashStage
<1>14. CASE step = 8
  <2>1. FlashScript[8].send = <<"sf update">>  BY DEF FlashScript, Turn
  <2>2. keys = <<>> /\ screen = "uboot" /\ text = <<"detected">> /\ Transferred
    BY <1>14, <1>t DEF FlashStage, AwaitsProbe
  <2>3. AwaitsWritten'
    BY <1>2, <1>5, <1>6, <1>14, <1>k, <1>n, <2>1, <2>2 DEF AwaitsWritten
  <2> QED  BY <1>2, <1>14, <2>3 DEF FlashStage
<1>15. CASE step = 9
  <2>1. FlashScript[9].send = <<"reset">>  BY DEF FlashScript, Turn
  <2>2. keys = <<>> /\ flash[want] = image
    BY <1>15, <1>t DEF FlashStage, AwaitsWritten
  <2>3. Restarts'  BY <1>2, <1>6, <1>15, <1>k, <2>1, <2>2 DEF Restarts
  <2> QED  BY <1>2, <1>15, <2>3 DEF FlashStage
<1> QED  BY <1>2, <1>7, <1>8, <1>9, <1>10, <1>11, <1>12, <1>13, <1>14, <1>15

LEMMA PreparedStep == TypeOK /\ FlashInv /\ PreparedInv /\ [Next]_vars => PreparedInv'
<1> SUFFICES ASSUME TypeOK, FlashInv, PreparedInv, [Next]_vars
             PROVE  PreparedInv'
  OBVIOUS
<1>u. UNCHANGED <<tool, want, leftover>>
  BY DEF Next, Program, DPU, vars, given, Rest, Announce, WindowCloses,
         StartFirmware, CountdownEnds, ReadKey, LoseKey, PrepareImage, StartServices,
         Prompt, PrepareFails, SeePrompt, EnterManagement, SendReboot, ResetFails, OpenPort,
         Talk, Finish, TimesOut
<1> SUFFICES ASSUME tool = "fwupdate", ~leftover
             PROVE  PreparedInv'
  BY <1>u DEF PreparedInv
<1> DEFINE Early == Resetting \cup Preparing \cup {"open"}
<1>i. /\ FlashStage
      /\ pc \in Early => step = 1 /\ ~open /\ text = <<>>
      /\ step # 1 \/ pc = "talk" => open
      /\ pc = "done" => step = 10
      /\ step <= 8 => flash[want] = "old"
      /\ flash[want] \in {"old", "mix", image}
  BY DEF PreparedInv, FlashesPrepared
<1>p. ASSUME FlashStage',
             pc' \in Early => step' = 1 /\ ~open' /\ text' = <<>>,
             step' # 1 \/ pc' = "talk" => open', pc' = "done" => step' = 10,
             step' <= 8 => flash'[want] = "old",
             flash'[want] \in {"old", "mix", image'}
      PROVE  PreparedInv'
  BY <1>u, <1>p DEF PreparedInv, FlashesPrepared, FlashStage, Restarts
<1>1. CASE Announce \/ WindowCloses \/ StartFirmware \/ CountdownEnds
  <2>1. FlashStage'  BY <1>i, <1>1, FlashBoots
  <2>2. UNCHANGED <<open, pc, step, image, flash>>  BY <1>1, BootsOn DEF call, uboot, stored
  <2>3. ~open => text' = text
    BY <1>1 DEF Announce, WindowCloses, StartFirmware, CountdownEnds, Shows, Prints
  <2> QED  BY <1>i, <1>p, <2>1, <2>2, <2>3
<1>2. CASE ReadKey
  <2>1. FlashStage' /\ flash'[want] \in {flash[want], "mix", image}
        /\ (step # 9 => flash'[want] = flash[want])
    BY <1>i, <1>2, FlashReads
  <2>2. UNCHANGED <<open, pc, step, image>> /\ keys # <<>>  BY <1>2 DEF ReadKey, call
  <2>3. step # 1  BY <1>i, <2>2 DEF FlashStage, AwaitsWindow
  <2>4. step \in 1..10  BY DEF TypeOK
  <2> QED  BY <1>i, <1>p, <2>1, <2>2, <2>3, <2>4
<1>3. CASE LoseKey
  <2>1. FlashStage'  BY <1>i, <1>3, FlashLoses
  <2>2. UNCHANGED <<open, text, pc, step, image, flash>>  BY <1>3 DEF LoseKey, call, dpu, uboot, stored
  <2> QED  BY <1>i, <1>p, <2>1, <2>2
<1>4. CASE \/ PrepareImage \/ StartServices \/ Prompt \/ PrepareFails
           \/ SeePrompt \/ EnterManagement \/ SendReboot \/ ResetFails
  <2>1. /\ UNCHANGED <<step, keys, text, open, flash>> /\ pc \in Early
        /\ pc' \in Early \cup {"failed"} /\ pc' # "done" /\ pc' # "talk"
    BY <1>4 DEF PrepareImage, StartServices, Prompt, PrepareFails, SeePrompt, EnterManagement,
       SendReboot, ResetFails, MayHaveReset, MayReboot, Resetting, Preparing, line, dpu,
       uboot, stored
  <2>2. step = 1 /\ keys = <<>> /\ Without({"1)"})
    BY <1>i, <2>1 DEF FlashStage, AwaitsWindow
  <2>3. FlashStage'  BY <2>1, <2>2 DEF FlashStage, AwaitsWindow, Without
  <2>4. flash'[want] = "old"  BY <1>i, <2>1, <2>2
  <2> QED  BY <1>i, <1>p, <2>1, <2>2, <2>3, <2>4
<1>5. CASE OpenPort
  <2>1. /\ UNCHANGED <<step, keys, flash>> /\ pc = "open" /\ pc' = "talk"
        /\ open' = TRUE /\ text' = <<>>
    BY <1>5 DEF OpenPort, dpu, uboot, stored
  <2>2. step = 1 /\ keys = <<>>  BY <1>i, <2>1 DEF FlashStage, AwaitsWindow
  <2>3. FlashStage'  BY <2>1, <2>2 DEF FlashStage, AwaitsWindow, Without
  <2>4. flash'[want] = "old"  BY <1>i, <2>1, <2>2
  <2>5. pc' \notin Early  BY <2>1 DEF Resetting, Preparing
  <2> QED  BY <1>i, <1>p, <2>1, <2>2, <2>3, <2>4, <2>5
<1>6. CASE Talk
  <2>1. /\ FlashStage' /\ pc' = "talk" /\ step' # 1
        /\ UNCHANGED <<open, flash, want, image>>
    BY <1>i, <1>6, FlashTalks
  <2>2. pc' \notin Early  BY <2>1 DEF Resetting, Preparing
  <2>3. open  BY <1>i, <1>6 DEF Talk
  <2>4. step' = step + 1 /\ step \in 1..10  BY <1>6 DEF Talk, TypeOK
  <2>5. step' <= 8 => flash'[want] = "old"  BY <1>i, <2>1, <2>4
  <2> QED  BY <1>i, <1>p, <2>1, <2>2, <2>3, <2>5
<1>7. CASE Finish
  <2>1. /\ UNCHANGED <<dpu, keys, text, open, step, image>> /\ pc' = "done" /\ step > 9
    BY <1>7 DEF Finish, Script, FlashScript, line
  <2>2. step = 10  BY <2>1 DEF TypeOK
  <2>3. UNCHANGED flash  BY <2>1 DEF dpu, uboot, stored
  <2>4. FlashStage'  BY <1>i, <1>u, <2>1, <2>2, <2>3 DEF FlashStage, Restarts
  <2>5. pc' \notin Early  BY <2>1 DEF Resetting, Preparing
  <2> QED  BY <1>i, <1>p, <2>1, <2>2, <2>3, <2>4, <2>5
<1>8. CASE TimesOut \/ UNCHANGED vars
  <2>1. /\ UNCHANGED <<dpu, keys, text, open, step, image>>
        /\ pc' = pc \/ pc' = "failed"
    BY <1>8 DEF TimesOut, vars, line, call
  <2>2. UNCHANGED <<screen, ram, size, flash>>  BY <2>1 DEF dpu, uboot, stored
  <2>3. UNCHANGED <<Named, Transferred>>  BY <1>u, <2>1, <2>2 DEF Named, Transferred
  <2>4. FlashStage'
    BY <1>i, <1>u, <2>1, <2>2, <2>3
    DEF FlashStage, AwaitsWindow, AwaitsOptions, AwaitsCountdown, AwaitsUBoot, AwaitsSaved,
        AwaitsLease, AwaitsTransfer, AwaitsProbe, AwaitsWritten, Restarts, Without, EndsWith
  <2>5. "failed" \notin Early  BY DEF Resetting, Preparing
  <2> QED  BY <1>i, <1>p, <2>1, <2>2, <2>4, <2>5
<1> QED
  BY <1>1, <1>2, <1>3, <1>4, <1>5, <1>6, <1>7, <1>8 DEF Next, Program, DPU

\* firmware_update() writes no other bytes than those of the file it prepared, and
\* when it succeeds all of them were written: for every number of tries of reset(),
\* whatever keys get lost and whichever command of U-Boot fails, unless the TFTP
\* root holds the grubaa64.efi of a pxeboot run.
THEOREM FlashesOnlyPrepared == Spec => []FlashesPrepared
<1>1. TypeOK /\ FlashInv /\ PreparedInv /\ [Next]_vars => (TypeOK /\ FlashInv /\ PreparedInv)'
  BY TypeStep, FlashStep, PreparedStep
<1>2. PreparedInv => FlashesPrepared
  BY DEF PreparedInv, FlashesPrepared
<1> QED  BY TypeInit, FlashInit, PreparedInit, <1>1, <1>2, PTL DEF Spec

=============================================================================
