------------------------- MODULE UefiPromiseProofs -------------------------
(***************************************************************************)
(* uefi_boot_menu_process() keeps MenuPromise, step by step, if the line   *)
(* answers in time and loses nothing and MAX_SEARCH_COUNT is good for two  *)
(* rounds of the menu.                                                     *)
(*                                                                         *)
(* Then every turn of the loop but the first one ends in touch with the    *)
(* cursor.  The first turn also reads what the call before left unread:    *)
(* the line of the first entry, or the answers to the two UP.  Each turn   *)
(* leads one entry down, so the keys pressed tell how far from the start   *)
(* marker the parser is.                                                   *)
(***************************************************************************)
EXTENDS UefiDetectProofs

USE NAssumption, EntriesAssumption, MaxSearchAssumption, LineAssumption

\* After n keys the parser has read up to p: it has needed less than a round to
\* get to the marker, and less than another one to get from there to p.
Counted(m, state, p, n) ==
  \A mk \in Position : m[mk] = Misc =>
    /\ state = "START" => IF p = mk THEN n = 0 ELSE n <= Dist(mk, p)
    /\ state = "SAW_START_MARKER" => n <= N + Dist(mk, p) \/ Promise!PxeEntries(m) = {}
    /\ state = "PARSING" => n <= N + Dist(mk, p)

Reached(p, n) ==
  Parsed(menu, parsing_state, dpu_macs, p) /\ Counted(menu, parsing_state, p, n)

\* None of the addresses read is the one asked for.
Missed == \A i \in 1..Len(dpu_macs) : dpu_macs[i] # select_boot

Fresh == parsing_state = "START" /\ dpu_macs = <<>>

\* The two UP that lead away from the marker at mk are answered or not, but the
\* answers are not read.
UpsUnread(mk) ==
  \/ keys = <<"up", "up">> /\ lines = <<>> /\ cursor = mk
  \/ keys = <<"up">> /\ lines = <<menu[Up(mk)]>> /\ cursor = Up(mk)
  \/ keys = <<>> /\ lines = <<menu[Up(mk)], menu[Up(Up(mk))]>> /\ cursor = Up(Up(mk))

\* ... and the first turn reads them before the answer to its DOWN.
UpsAndDown(mk) ==
  \/ keys = <<"up", "up", "down">> /\ lines = <<>> /\ cursor = mk
  \/ keys = <<"up", "down">> /\ cursor = Up(mk) /\ lines \in {<<>>, <<menu[Up(mk)]>>}
  \/ /\ keys = <<"down">> /\ cursor = Up(Up(mk))
     /\ lines \in {<<menu[Up(Up(mk))]>>, <<menu[Up(mk)], menu[Up(Up(mk))]>>}
  \/ /\ keys = <<>> /\ cursor = Up(mk)
     /\ lines \in {<<menu[Up(Up(mk))], menu[Up(mk)]>>,
                   <<menu[Up(mk)], menu[Up(Up(mk))], menu[Up(mk)]>>}

\* The line of the first entry was not read before the call.
FirstUnread == keys = <<>> /\ lines = <<menu[0]>> /\ cursor = 0
FirstAndDown ==
  \/ keys = <<"down">> /\ lines = <<menu[0]>> /\ cursor = 0
  \/ keys = <<>> /\ lines = <<menu[0], menu[Down(0)]>> /\ cursor = Down(0)

\* DOWN is not answered, or its answer is not read.
DownPending(p) ==
  \/ keys = <<"down">> /\ lines = <<>> /\ cursor = p
  \/ keys = <<>> /\ lines = <<menu[Down(p)]>> /\ cursor = Down(p)

LoopTurn ==
  \/ InTouch /\ Reached(cursor, search_count)
  \/ /\ search_count = 0 /\ Fresh
     /\ FirstUnread \/ \E mk \in Position : menu[mk] = Misc /\ UpsUnread(mk)

ReadTurn ==
  \/ InTouch /\ Reached(cursor, search_count)
  \/ /\ found_mac = NoMac /\ search_count >= 1
     /\ \E p \in Position : DownPending(p) /\ Reached(p, search_count - 1)
  \/ /\ found_mac = NoMac /\ search_count = 1 /\ Fresh
     /\ FirstAndDown \/ \E mk \in Position : menu[mk] = Misc /\ UpsAndDown(mk)

\* The strengthening of the refinement that every step preserves.
TurnInv ==
  /\ pc = "loop" => Missed /\ LoopTurn
  /\ pc = "read" => /\ ReadTurn
                    /\ found_mac # select_boot => Missed
                    /\ found_mac # NoMac => parsing_state # "START"
  /\ pc = "guard" => select_boot # NoMac /\ parsing_state # "START"
  /\ pc = "returned" => \E mk \in Position : menu[mk] = Misc /\ UpsUnread(mk)
  /\ parsing_state # "START" => \E mk \in Position : menu[mk] = Misc

-----------------------------------------------------------------------------
\* One more key pressed, one more entry read: one lemma per transition of the
\* parser.
LEMMA CountedStep ==
  ASSUME NEW m \in Menus, NEW p \in Position, NEW n \in Nat,
         NEW state \in ParsingState, Counted(m, state, p, n), m[Down(p)] # Misc
  PROVE  Counted(m, state, Down(p), n + 1)
<1> SUFFICES ASSUME NEW mk \in Position, m[mk] = Misc
             PROVE  /\ state = "START" => IF Down(p) = mk THEN n + 1 = 0 ELSE n + 1 <= Dist(mk, Down(p))
                    /\ state = "SAW_START_MARKER" => n + 1 <= N + Dist(mk, Down(p)) \/ Promise!PxeEntries(m) = {}
                    /\ state = "PARSING" => n + 1 <= N + Dist(mk, Down(p))
  BY DEF Counted
<1>1. /\ Down(p) # mk /\ Dist(mk, p) \in Int /\ Dist(mk, Down(p)) = Dist(mk, p) + 1
      /\ Dist(mk, mk) = 0
  BY DistFacts
<1>2. /\ state = "START" => IF p = mk THEN n = 0 ELSE n <= Dist(mk, p)
      /\ state = "SAW_START_MARKER" => n <= N + Dist(mk, p) \/ Promise!PxeEntries(m) = {}
      /\ state = "PARSING" => n <= N + Dist(mk, p)
  BY DEF Counted
<1>3. QED
  BY <1>1, <1>2

LEMMA HasPxeEntry ==
  ASSUME NEW m, NEW mk \in Position, m[mk] = Misc, NEW p \in Position, m[p] \in Macs
  PROVE  m[p] \in Promise!PxeEntries(m)
BY DEF Promise!PxeEntries, Promise!Position, Position

LEMMA CountedMac ==
  ASSUME NEW m \in Menus, NEW p \in Position, NEW n \in Nat,
         NEW state \in {"SAW_START_MARKER", "PARSING"}, Counted(m, state, p, n),
         m[Down(p)] \in Macs
  PROVE  Counted(m, "PARSING", Down(p), n + 1)
<1>1. Down(p) \in Position /\ m[Down(p)] # Misc
  BY CursorMoves
<1>2. Counted(m, state, Down(p), n + 1)
  BY <1>1, CountedStep DEF ParsingState
<1>3. \A mk \in Position : m[mk] = Misc => Promise!PxeEntries(m) # {}
  BY <1>1, HasPxeEntry
<1>4. QED
  BY <1>2, <1>3 DEF Counted

\* The marker is seen for the first time within one round, or there is nothing
\* else to see.
LEMMA CountedMarker ==
  ASSUME NEW m \in Menus, NEW p \in Position, NEW n \in Nat, NEW s,
         NEW state \in {"START", "SAW_START_MARKER"}, Parsed(m, state, s, p),
         Counted(m, state, p, n), m[Down(p)] = Misc
  PROVE  Counted(m, "SAW_START_MARKER", Down(p), n + 1)
<1>1. Down(p) \in Position /\ Down(p) # p
  BY CursorMoves
<1>2. \A mk \in Position : m[mk] = Misc => mk = Down(p)
  BY <1>1, EntryUnique
<1>3. Dist(Down(p), Down(p)) = 0 /\ Dist(Down(p), p) \in 0..(N - 1)
  BY <1>1, DistFacts
<1>4. CASE state = "START"
  <2>1. n <= Dist(Down(p), p)
    BY <1>1, <1>4 DEF Counted
  <2>2. n + 1 <= N + Dist(Down(p), Down(p))
    BY <1>3, <2>1
  <2>3. QED
    BY <1>2, <2>2 DEF Counted
<1>5. CASE state = "SAW_START_MARKER"
  <2>1. s = <<>> /\ ListsUpTo(m, Down(p), p, s)
    BY <1>2, <1>5 DEF Parsed
  <2>2. p = Up(Down(p))
    BY <1>1, DistFacts
  <2>3. \A q \in Position : Dist(Down(p), q) <= Dist(Down(p), p)
    BY <1>1, <2>2, DistFacts
  <2>4. \A q \in Position : m[q] \notin Macs
    BY <2>1, <2>3 DEF ListsUpTo
  <2>5. Promise!PxeEntries(m) = {}
    BY <2>4 DEF Promise!PxeEntries, Promise!Position, Position
  <2>6. QED
    BY <2>5 DEF Counted
<1>6. QED
  BY <1>4, <1>5

LEMMA CountedDone ==
  ASSUME NEW m, NEW p, NEW n
  PROVE  Counted(m, "DONE", p, n)
BY DEF Counted

LEMMA CountedFresh ==
  ASSUME NEW m, NEW p \in Position
  PROVE  Counted(m, "START", p, 0)
BY DistFacts DEF Counted

LEMMA CountedAtMarker ==
  ASSUME NEW m \in Menus, NEW p \in Position, m[p] = Misc
  PROVE  Counted(m, "SAW_START_MARKER", p, 0)
BY DistFacts DEF Counted

-----------------------------------------------------------------------------
LEMMA AppendIs ==
  ASSUME NEW S, NEW s \in Seq(S), NEW t \in Seq(S), NEW e \in S,
         Len(t) = Len(s) + 1, t[Len(s) + 1] = e, \A i \in 1..Len(s) : t[i] = s[i]
  PROVE  Append(s, e) = t
<1>1. /\ Append(s, e) \in Seq(S) /\ Len(Append(s, e)) = Len(s) + 1
      /\ \A i \in 1..Len(s) : Append(s, e)[i] = s[i]
      /\ Append(s, e)[Len(s) + 1] = e
  BY AppendProperties
<1>2. Len(s) \in Nat
  BY LenProperties
<1>3. \A i \in 1..Len(Append(s, e)) : Append(s, e)[i] = t[i]
  BY <1>1, <1>2
<1>4. QED
  BY <1>1, <1>3, SeqEqual

LEMMA AppendTuples ==
  ASSUME NEW a, NEW b, NEW c
  PROVE  /\ Append(<<>>, a) = <<a>>
         /\ Append(<<a>>, b) = <<a, b>>
         /\ Append(<<a, b>>, c) = <<a, b, c>>
<1> DEFINE S == {a, b, c}
           s1 == <<a>>
           s2 == <<a, b>>
           s3 == <<a, b, c>>
<1>1. /\ s1 \in Seq(S) /\ Len(s1) = 1 /\ s1[1] = a
      /\ s2 \in Seq(S) /\ Len(s2) = 2 /\ s2[1] = a /\ s2[2] = b
      /\ s3 \in Seq(S) /\ Len(s3) = 3 /\ s3[1] = a /\ s3[2] = b /\ s3[3] = c
  OBVIOUS
<1>2. b \in S /\ c \in S
  OBVIOUS
<1>3. Append(<<>>, a) = s1
  OBVIOUS
<1> HIDE DEF S, s1, s2, s3
<1>4. Len(s2) = Len(s1) + 1 /\ s2[Len(s1) + 1] = b /\ \A i \in 1..Len(s1) : s2[i] = s1[i]
  BY <1>1
<1>5. Append(s1, b) = s2
  <2>1. s1 \in Seq(S) /\ s2 \in Seq(S) /\ b \in S
    BY <1>1, <1>2
  <2>2. QED
    BY ONLY <1>4, <2>1, AppendIs
<1>6. Len(s3) = Len(s2) + 1 /\ s3[Len(s2) + 1] = c /\ \A i \in 1..Len(s2) : s3[i] = s2[i]
  BY <1>1
<1>7. Append(s2, c) = s3
  <2>1. s2 \in Seq(S) /\ s3 \in Seq(S) /\ c \in S
    BY <1>1, <1>2
  <2>2. QED
    BY ONLY <1>6, <2>1, AppendIs
<1>8. QED
  BY <1>3, <1>5, <1>7 DEF s1, s2, s3

\* A detection misses nothing.
LEMMA MissedNone ==
  ASSUME TypeOK, select_boot = NoMac
  PROVE  Missed
<1>1. \A i \in 1..Len(dpu_macs) : dpu_macs[i] \in Macs
  BY ElementOfSeq DEF TypeOK
<1>2. QED
  BY <1>1 DEF Missed

LEMMA InitTurnInv == Init => TurnInv
<1> SUFFICES ASSUME Init PROVE TurnInv
  OBVIOUS
<1>1. Len(dpu_macs) = 0 /\ Missed
  BY DEF Init, Missed
<1>2. 0 \in Position /\ Reached(0, 0)
  BY CountedFresh DEF Init, Reached, Parsed, Position
<1>3. LoopTurn
  BY <1>2 DEF Init, LoopTurn, InTouch, Fresh, FirstUnread
<1>4. QED
  BY <1>1, <1>3 DEF Init, TurnInv

\* The steps of the UEFI only answer keys.
LEMMA MoveTurnInv ==
  ASSUME TypeOK, CursorInv, TurnInv, MoveCursor
  PROVE  TurnInv'
<1>1. /\ keys # <<>> /\ keys' = Tail(keys) /\ menu' = menu
      /\ cursor' = IF Head(keys) = "down" THEN Down(cursor) ELSE Up(cursor)
      /\ lines' = Append(lines, menu[cursor'])
      /\ UNCHANGED <<pc, callVars, found_mac>>
  BY DEF MoveCursor
<1>2. ASSUME NEW mk \in Position, UpsUnread(mk)
      PROVE  UpsUnread(mk)'
  <2>1. CASE keys = <<"up", "up">> /\ lines = <<>> /\ cursor = mk
    <3>1. Head(keys) = "up" /\ Tail(keys) = <<"up">>
      BY <2>1
    <3>2. keys' = <<"up">> /\ cursor' = Up(mk) /\ lines' = <<menu[Up(mk)]>>
      BY <1>1, <2>1, <3>1
    <3>3. QED
      BY <1>1, <3>2 DEF UpsUnread, Up
  <2>2. CASE keys = <<"up">> /\ lines = <<menu[Up(mk)]>> /\ cursor = Up(mk)
    <3>1. Head(keys) = "up" /\ Tail(keys) = <<>>
      BY <2>2
    <3>2. keys' = <<>> /\ cursor' = Up(Up(mk)) /\ lines' = <<menu[Up(mk)], menu[Up(Up(mk))]>>
      BY <1>1, <2>2, <3>1, AppendTuples
    <3>3. QED
      BY <1>1, <3>2 DEF UpsUnread, Up
  <2>3. QED
    BY <1>1, <1>2, <2>1, <2>2 DEF UpsUnread
<1>3. ASSUME NEW mk \in Position, UpsAndDown(mk)
      PROVE  UpsAndDown(mk)'
  <2> DEFINE u == Up(mk)
             v == Up(u)
  <2>0. u \in Position /\ v \in Position /\ Down(v) = u
    BY CursorMoves, DownUndoesUp
  <2>1. CASE keys = <<"up", "up", "down">> /\ lines = <<>> /\ cursor = mk
    <3>1. Head(keys) = "up" /\ Tail(keys) = <<"up", "down">>
      BY <2>1
    <3>2. keys' = <<"up", "down">> /\ cursor' = u /\ lines' = <<menu[u]>>
      BY <1>1, <2>1, <3>1
    <3>3. QED
      BY <1>1, <3>2 DEF UpsAndDown, Up
  <2>2. CASE keys = <<"up", "down">> /\ cursor = u /\ lines \in {<<>>, <<menu[u]>>}
    <3>1. Head(keys) = "up" /\ Tail(keys) = <<"down">>
      BY <2>2
    <3>2. keys' = <<"down">> /\ cursor' = v /\ lines' \in {<<menu[v]>>, <<menu[u], menu[v]>>}
      BY <1>1, <2>2, <3>1, AppendTuples
    <3>3. QED
      BY <1>1, <3>2 DEF UpsAndDown, Up
  <2>3. CASE keys = <<"down">> /\ cursor = v /\ lines \in {<<menu[v]>>, <<menu[u], menu[v]>>}
    <3>1. Head(keys) = "down" /\ Tail(keys) = <<>>
      BY <2>3
    <3>2. keys' = <<>> /\ cursor' = u
      BY <1>1, <2>0, <2>3, <3>1
    <3>3. lines' \in {<<menu[v], menu[u]>>, <<menu[u], menu[v], menu[u]>>}
      BY <1>1, <2>3, <3>2, AppendTuples
    <3>4. QED
      BY <1>1, <3>2, <3>3 DEF UpsAndDown, Up
  <2>4. QED
    BY <1>1, <1>3, <2>1, <2>2, <2>3 DEF UpsAndDown
<1>4. ~FirstUnread /\ (FirstAndDown => FirstAndDown')
  <2>1. SUFFICES ASSUME FirstAndDown PROVE FirstAndDown'
    BY <1>1 DEF FirstUnread
  <2>2. keys = <<"down">> /\ lines = <<menu[0]>> /\ cursor = 0
    BY <1>1, <2>1 DEF FirstAndDown
  <2>3. Head(keys) = "down" /\ Tail(keys) = <<>>
    BY <2>2
  <2>4. keys' = <<>> /\ cursor' = Down(0) /\ lines' = <<menu[0], menu[Down(0)]>>
    BY <1>1, <2>2, <2>3, AppendTuples
  <2>5. QED
    BY <1>1, <2>4 DEF FirstAndDown, Down
<1>5. ASSUME NEW p \in Position, DownPending(p)
      PROVE  DownPending(p)'
  <2>1. keys = <<"down">> /\ lines = <<>> /\ cursor = p
    BY <1>1, <1>5 DEF DownPending
  <2>2. Head(keys) = "down" /\ Tail(keys) = <<>>
    BY <2>1
  <2>3. keys' = <<>> /\ cursor' = Down(p) /\ lines' = <<menu[Down(p)]>>
    BY <1>1, <2>1, <2>2
  <2>4. QED
    BY <1>1, <2>3 DEF DownPending, Down
<1>6. \A p \in Position, n \in Int : Reached(p, n) => Reached(p, n)'
  BY <1>1 DEF Reached, callVars, Parsed, Counted, ListsUpTo, Dist, Up
<1>7. ~InTouch /\ pc # "guard" /\ (Missed => Missed')
  BY <1>1 DEF InTouch, CursorInv, BootInv, Missed, callVars
<1>8. pc = "loop" => LoopTurn'
  BY <1>1, <1>2, <1>4, <1>7 DEF TurnInv, LoopTurn, Fresh, callVars
<1>9. pc = "read" => ReadTurn'
  <2>1. SUFFICES ASSUME pc = "read" PROVE ReadTurn'
    OBVIOUS
  <2>2. CASE /\ found_mac = NoMac /\ search_count >= 1
             /\ \E p \in Position : DownPending(p) /\ Reached(p, search_count - 1)
    <3>1. PICK p \in Position : DownPending(p) /\ Reached(p, search_count - 1)
      BY <2>2
    <3>2. search_count - 1 \in Int /\ search_count' = search_count
      BY <1>1 DEF TypeOK, callVars
    <3>3. DownPending(p)' /\ Reached(p, search_count - 1)'
      BY <1>5, <1>6, <3>1, <3>2 DEF Reached
    <3>4. QED
      BY <1>1, <2>2, <3>2, <3>3 DEF ReadTurn
  <2>3. CASE /\ found_mac = NoMac /\ search_count = 1 /\ Fresh
             /\ FirstAndDown \/ \E mk \in Position : menu[mk] = Misc /\ UpsAndDown(mk)
    BY <1>1, <1>3, <1>4, <2>3 DEF ReadTurn, Fresh, callVars
  <2>4. QED
    BY <1>7, <2>1, <2>2, <2>3 DEF TurnInv, ReadTurn
<1>10. QED
  BY <1>1, <1>2, <1>7, <1>8, <1>9 DEF TurnInv, callVars

-----------------------------------------------------------------------------
\* Pressing DOWN puts one more answer behind what is on its way.
LEMMA PressTurnInv ==
  ASSUME TypeOK, CursorInv, TurnInv, PressDown
  PROVE  TurnInv'
<1>1. /\ pc = "loop" /\ pc' = "read" /\ found_mac' = NoMac
      /\ search_count' = search_count + 1 /\ keys' = Append(keys, "down")
      /\ UNCHANGED <<dpuVars, lines, select_boot, parsing_state, dpu_macs>>
  BY DEF PressDown
<1>2. Missed' /\ LoopTurn /\ search_count \in Nat /\ menu' = menu
  BY <1>1 DEF TurnInv, Missed, TypeOK, dpuVars
<1>3. CASE InTouch /\ Reached(cursor, search_count)
  <2>1. DownPending(cursor)' /\ cursor' \in Position
    BY <1>1, <1>3, AppendTuples DEF InTouch, DownPending, dpuVars, TypeOK
  <2>2. search_count' - 1 = search_count /\ search_count' >= 1
    BY <1>1, <1>2
  <2>3. Parsed(menu', parsing_state', dpu_macs', cursor')
    BY <1>1, <1>3 DEF Reached, dpuVars
  <2>4. Counted(menu', parsing_state', cursor', search_count' - 1)
    BY <1>1, <1>3, <2>2 DEF Reached, dpuVars
  <2>5. ReadTurn'
    BY <1>1, <2>1, <2>2, <2>3, <2>4 DEF ReadTurn, Reached
  <2>6. QED
    BY <1>1, <1>2, <2>5 DEF TurnInv
<1>4. CASE search_count = 0 /\ Fresh /\ FirstUnread
  <2>1. FirstAndDown'
    BY <1>1, <1>4, AppendTuples DEF FirstUnread, FirstAndDown, dpuVars
  <2>2. QED
    BY <1>1, <1>2, <1>4, <2>1 DEF TurnInv, ReadTurn, Fresh
<1>5. CASE search_count = 0 /\ Fresh /\ \E mk \in Position : menu[mk] = Misc /\ UpsUnread(mk)
  <2>1. PICK mk \in Position : menu[mk] = Misc /\ UpsUnread(mk)
    BY <1>5
  <2>2. keys' \in {<<"up", "up", "down">>, <<"up", "down">>, <<"down">>}
    BY <1>1, <2>1, AppendTuples DEF UpsUnread
  <2>3. UpsAndDown(mk)'
    <3>1. CASE keys = <<"up", "up">> /\ lines = <<>> /\ cursor = mk
      BY <1>1, <3>1, AppendTuples DEF UpsAndDown, dpuVars
    <3>2. CASE keys = <<"up">> /\ lines = <<menu[Up(mk)]>> /\ cursor = Up(mk)
      BY <1>1, <3>2, AppendTuples DEF UpsAndDown, dpuVars, Up
    <3>3. CASE keys = <<>> /\ lines = <<menu[Up(mk)], menu[Up(Up(mk))]>> /\ cursor = Up(Up(mk))
      BY <1>1, <3>3, AppendTuples DEF UpsAndDown, dpuVars, Up
    <3>4. QED
      BY <2>1, <3>1, <3>2, <3>3 DEF UpsUnread
  <2>4. QED
    BY <1>1, <1>2, <1>5, <2>1, <2>3 DEF TurnInv, ReadTurn, Fresh
<1>6. QED
  BY <1>2, <1>3, <1>4, <1>5 DEF LoopTurn

\* What the next line is, and what it leaves.
LEMMA TurnReads ==
  ASSUME TypeOK, ReadTurn, lines # <<>>
  PROVE  /\ found_mac = NoMac /\ search_count >= 1
         /\ \/ \E p \in Position : /\ keys = <<>> /\ Len(lines) = 1 /\ cursor = Down(p)
                                   /\ Head(lines) = menu[Down(p)]
                                   /\ Reached(p, search_count - 1)
            \/ search_count = 1 /\ Fresh /\ FirstAndDown
            \/ /\ search_count = 1 /\ Fresh
               /\ \E mk \in Position : menu[mk] = Misc /\ UpsAndDown(mk)
<1>1. ~InTouch
  BY DEF InTouch
<1>2. CASE /\ found_mac = NoMac /\ search_count >= 1
           /\ \E p \in Position : DownPending(p) /\ Reached(p, search_count - 1)
  <2>1. PICK p \in Position : DownPending(p) /\ Reached(p, search_count - 1)
    BY <1>2
  <2>2. keys = <<>> /\ lines = <<menu[Down(p)]>> /\ cursor = Down(p)
    BY <2>1 DEF DownPending
  <2>3. Len(lines) = 1 /\ Head(lines) = menu[Down(p)]
    BY <2>2
  <2>4. QED
    BY <1>2, <2>1, <2>2, <2>3
<1>3. QED
  BY <1>1, <1>2 DEF ReadTurn

LEMMA TailTuples ==
  ASSUME NEW a, NEW b, NEW c
  PROVE  /\ Tail(<<a>>) = <<>> /\ Head(<<a>>) = a
         /\ Tail(<<a, b>>) = <<b>> /\ Head(<<a, b>>) = a
         /\ Tail(<<a, b, c>>) = <<b, c>> /\ Head(<<a, b, c>>) = a
OBVIOUS

\* The first turn, detection: behind the line of the first entry comes the one
\* of the entry below.
LEMMA FirstReads ==
  ASSUME FirstAndDown, UNCHANGED <<menu, keys, cursor>>, lines' = Tail(lines)
  PROVE  Head(lines) = menu[0] /\ DownPending(0)'
<1>1. CASE keys = <<"down">> /\ lines = <<menu[0]>> /\ cursor = 0
  BY <1>1, TailTuples DEF DownPending
<1>2. CASE keys = <<>> /\ lines = <<menu[0], menu[Down(0)]>> /\ cursor = Down(0)
  BY <1>2, TailTuples DEF DownPending, Down
<1>3. QED
  BY <1>1, <1>2 DEF FirstAndDown

\* The first turn, selection: the answers to the two UP are not the marker.
LEMMA UpsRead ==
  ASSUME TypeOK, NEW mk \in Position, menu[mk] = Misc, UpsAndDown(mk), lines # <<>>,
         UNCHANGED <<menu, keys, cursor>>, lines' = Tail(lines)
  PROVE  Head(lines) # Misc /\ (UpsAndDown(mk)' \/ DownPending(Up(Up(mk)))')
<1> DEFINE u == Up(mk)
           v == Up(u)
<1>1. u \in Position /\ v \in Position /\ Down(v) = u
  BY CursorMoves, DownUndoesUp
<1>2. menu[u] # Misc /\ menu[v] # Misc
  <2>1. u # mk /\ v # mk
    BY DEF Up, Position
  <2>2. menu \in Menus
    BY DEF TypeOK
  <2>3. QED
    BY <1>1, <2>1, <2>2, EntryUnique
<1>3. CASE keys = <<"up", "down">> /\ cursor = u /\ lines = <<menu[u]>>
  BY <1>2, <1>3, TailTuples DEF UpsAndDown, Up
<1>4. CASE keys = <<"down">> /\ cursor = v /\ lines = <<menu[v]>>
  BY <1>2, <1>4, TailTuples DEF DownPending, Up
<1>5. CASE keys = <<"down">> /\ cursor = v /\ lines = <<menu[u], menu[v]>>
  BY <1>2, <1>5, TailTuples DEF UpsAndDown, Up
<1>6. CASE keys = <<>> /\ cursor = u /\ lines = <<menu[v], menu[u]>>
  <2>1. Head(lines) # Misc /\ lines' = <<menu[u]>>
    BY <1>2, <1>6, TailTuples
  <2>2. keys' = <<>> /\ lines' = <<menu'[Down(v)]>> /\ cursor' = Down(v)
    BY <1>1, <1>6, <2>1
  <2>3. QED
    BY <2>1, <2>2 DEF DownPending, Down, Up
<1>7. CASE keys = <<>> /\ cursor = u /\ lines = <<menu[u], menu[v], menu[u]>>
  BY <1>2, <1>7, TailTuples DEF UpsAndDown, Up
<1>8. QED
  BY <1>3, <1>4, <1>5, <1>6, <1>7 DEF UpsAndDown

\* The reading steps: in touch the parser takes the entry under the cursor, in
\* the first turn the lines before it.
LEMMA MarkerTurnInv ==
  ASSUME TypeOK, CursorInv, TurnInv, ReadStartMarker
  PROVE  TurnInv'
<1>1. /\ pc = "read" /\ lines # <<>> /\ Head(lines) = Misc /\ lines' = Tail(lines)
      /\ parsing_state \in {"START", "SAW_START_MARKER"} /\ parsing_state' = "SAW_START_MARKER"
      /\ UNCHANGED <<menu, cursor, keys, pc, select_boot, dpu_macs, search_count, found_mac>>
  BY DEF ReadStartMarker, dpuVars
<1>2. menu \in Menus /\ search_count \in Nat /\ lines \in Seq(Entries)
  BY DEF TypeOK
<1>3. ReadTurn /\ (found_mac # select_boot => Missed')
  BY <1>1 DEF TurnInv, Missed
<1>4. ReadTurn' /\ \E mk \in Position : menu[mk] = Misc
  <2>1. CASE \E p \in Position : /\ keys = <<>> /\ Len(lines) = 1 /\ cursor = Down(p)
                                 /\ Head(lines) = menu[Down(p)] /\ Reached(p, search_count - 1)
    <3>1. PICK p \in Position : /\ keys = <<>> /\ Len(lines) = 1 /\ cursor = Down(p)
                                /\ Head(lines) = menu[Down(p)] /\ Reached(p, search_count - 1)
      BY <2>1
    <3>2. InTouch' /\ Down(p) \in Position /\ search_count - 1 \in Nat
      BY <1>1, <1>2, <1>3, <3>1, TailFacts, LengthZero, CursorMoves, TurnReads DEF InTouch
    <3>3. Parsed(menu, "SAW_START_MARKER", dpu_macs, cursor)
      BY <1>1, <1>2, <3>1, <3>2, ParsedMarker DEF Reached
    <3>4. Counted(menu, "SAW_START_MARKER", cursor, (search_count - 1) + 1)
      BY <1>1, <1>2, <3>1, <3>2, CountedMarker DEF Reached
    <3>5. Reached(cursor, search_count)'
      BY <1>1, <1>2, <3>3, <3>4 DEF Reached
    <3>6. QED
      BY <1>1, <3>1, <3>2, <3>5 DEF ReadTurn
  <2>2. CASE search_count = 1 /\ Fresh /\ FirstAndDown
    <3>1. menu[0] = Misc /\ DownPending(0)' /\ 0 \in Position
      BY <1>1, <2>2, FirstReads DEF Position
    <3>2. Parsed(menu, "SAW_START_MARKER", dpu_macs, 0)
      BY <1>1, <1>2, <2>2, <3>1, ListsNothing DEF Parsed, Fresh
    <3>3. Counted(menu, "SAW_START_MARKER", 0, 0)
      BY <1>2, <3>1, CountedAtMarker
    <3>4. Reached(0, 0)'
      BY <1>1, <3>2, <3>3 DEF Reached
    <3>5. found_mac' = NoMac /\ search_count' = 1 /\ Reached(0, search_count - 1)'
      BY <1>1, <1>3, <2>2, <3>4, TurnReads DEF Reached
    <3>6. QED
      BY <3>1, <3>5 DEF ReadTurn
  <2>3. CASE \E mk \in Position : menu[mk] = Misc /\ UpsAndDown(mk)
    BY <1>1, <2>3, UpsRead
  <2>4. QED
    BY <1>1, <1>3, <2>1, <2>2, <2>3, TurnReads
<1>5. QED
  BY <1>1, <1>3, <1>4 DEF TurnInv

LEMMA MacTurnInv ==
  ASSUME TypeOK, CursorInv, TurnInv, ReadPxeEntry
  PROVE  TurnInv'
<1>1. /\ pc = "read" /\ lines # <<>> /\ Head(lines) \in Macs /\ lines' = Tail(lines)
      /\ parsing_state \in {"SAW_START_MARKER", "PARSING"} /\ parsing_state' = "PARSING"
      /\ dpu_macs' = Append(dpu_macs, Head(lines)) /\ found_mac' = Head(lines)
      /\ UNCHANGED <<menu, cursor, keys, pc, select_boot, search_count>>
  BY DEF ReadPxeEntry, dpuVars
<1>2. menu \in Menus /\ search_count \in Nat /\ lines \in Seq(Entries) /\ dpu_macs \in Seq(Macs)
  BY DEF TypeOK
<1>3. ReadTurn /\ ~Fresh /\ found_mac = NoMac /\ search_count >= 1
  BY <1>1, TurnReads DEF TurnInv, Fresh
<1>4. PICK p \in Position : /\ keys = <<>> /\ Len(lines) = 1 /\ cursor = Down(p)
                            /\ Head(lines) = menu[Down(p)] /\ Reached(p, search_count - 1)
  BY <1>1, <1>3, TurnReads
<1>5. InTouch' /\ search_count - 1 \in Nat
  BY <1>1, <1>2, <1>3, <1>4, TailFacts, LengthZero DEF InTouch
<1>6. Parsed(menu, "PARSING", dpu_macs', cursor)
  BY <1>1, <1>2, <1>4, ParsedMac DEF Reached
<1>7. Counted(menu, "PARSING", cursor, (search_count - 1) + 1)
  BY <1>1, <1>2, <1>4, <1>5, CountedMac DEF Reached
<1>8. ReadTurn'
  BY <1>1, <1>2, <1>5, <1>6, <1>7 DEF ReadTurn, Reached
<1>9. ASSUME found_mac' # select_boot PROVE Missed'
  <2>1. Missed
    BY <1>1, <1>3, MissedNone DEF TurnInv
  <2>2. /\ Len(dpu_macs') = Len(dpu_macs) + 1 /\ Len(dpu_macs) \in Nat
        /\ dpu_macs'[Len(dpu_macs) + 1] = Head(lines)
        /\ \A i \in 1..Len(dpu_macs) : dpu_macs'[i] = dpu_macs[i]
    BY <1>1, <1>2, AppendProperties, LenProperties
  <2>3. QED
    BY <1>1, <1>9, <2>1, <2>2 DEF Missed
<1>10. QED
  BY <1>1, <1>8, <1>9 DEF TurnInv

LEMMA SkipTurnInv ==
  ASSUME TypeOK, CursorInv, TurnInv, SkipEntry
  PROVE  TurnInv'
<1>1. /\ pc = "read" /\ lines # <<>> /\ lines' = Tail(lines)
      /\ Head(lines) # Misc /\ (Head(lines) \notin Macs \/ parsing_state = "START")
      /\ UNCHANGED <<menu, cursor, keys, pc, select_boot, parsing_state, dpu_macs, search_count, found_mac>>
  BY DEF SkipEntry, dpuVars, callVars
<1>2. /\ menu \in Menus /\ search_count \in Nat /\ lines \in Seq(Entries)
      /\ parsing_state \in ParsingState /\ parsing_state # "DONE"
  BY <1>1 DEF TypeOK, CursorInv, ReadInv
<1>3. ReadTurn /\ (found_mac # select_boot => Missed')
  BY <1>1 DEF TurnInv, Missed
<1>4. found_mac = NoMac /\ search_count >= 1
  BY <1>1, <1>3, TurnReads
<1>5. ReadTurn'
  <2>1. CASE \E p \in Position : /\ keys = <<>> /\ Len(lines) = 1 /\ cursor = Down(p)
                                 /\ Head(lines) = menu[Down(p)] /\ Reached(p, search_count - 1)
    <3>1. PICK p \in Position : /\ keys = <<>> /\ Len(lines) = 1 /\ cursor = Down(p)
                                /\ Head(lines) = menu[Down(p)] /\ Reached(p, search_count - 1)
      BY <2>1
    <3>2. InTouch' /\ search_count - 1 \in Nat
      BY <1>1, <1>2, <1>4, <3>1, TailFacts, LengthZero DEF InTouch
    <3>3. Parsed(menu, parsing_state, dpu_macs, cursor)
      BY <1>1, <1>2, <3>1, ParsedSkip DEF Reached
    <3>4. Counted(menu, parsing_state, cursor, (search_count - 1) + 1)
      BY <1>1, <1>2, <3>1, <3>2, CountedStep DEF Reached
    <3>5. QED
      BY <1>1, <1>2, <3>2, <3>3, <3>4 DEF ReadTurn, Reached
  <2>2. ASSUME Fresh, search_count = 1, NEW p \in Position, DownPending(p)'
        PROVE  ReadTurn'
    <3>1. Parsed(menu, parsing_state, dpu_macs, p) /\ Counted(menu, parsing_state, p, 0)
      BY <2>2, CountedFresh DEF Fresh, Parsed
    <3>2. Reached(p, search_count - 1)'
      BY <1>1, <2>2, <3>1 DEF Reached
    <3>3. QED
      BY <1>1, <1>4, <2>2, <3>2 DEF ReadTurn
  <2>3. CASE search_count = 1 /\ Fresh /\ FirstAndDown
    BY <1>1, <2>2, <2>3, FirstReads DEF Position
  <2>4. CASE search_count = 1 /\ Fresh /\ \E mk \in Position : menu[mk] = Misc /\ UpsAndDown(mk)
    <3>1. PICK mk \in Position : menu[mk] = Misc /\ UpsAndDown(mk)
      BY <2>4
    <3>2. UpsAndDown(mk)' \/ DownPending(Up(Up(mk)))'
      BY <1>1, <3>1, UpsRead
    <3>3. Up(Up(mk)) \in Position
      BY CursorMoves
    <3>4. CASE UpsAndDown(mk)'
      BY <1>1, <1>4, <2>4, <3>1, <3>4 DEF ReadTurn, Fresh
    <3>5. QED
      BY <2>2, <2>4, <3>2, <3>3, <3>4
  <2>5. QED
    BY <1>1, <1>3, <2>1, <2>3, <2>4, TurnReads
<1>6. QED
  BY <1>1, <1>3, <1>4, <1>5 DEF TurnInv

LEMMA EndTurnInv ==
  ASSUME TypeOK, CursorInv, TurnInv, ReadEndMarker
  PROVE  TurnInv'
<1>1. /\ pc = "read" /\ lines # <<>> /\ Head(lines) = Misc
      /\ parsing_state = "PARSING" /\ parsing_state' = "DONE"
      /\ pc' = AfterReading
      /\ UNCHANGED <<menu, cursor, keys, select_boot, dpu_macs, search_count, found_mac>>
  BY DEF ReadEndMarker, dpuVars
<1>2. menu \in Menus /\ ReadTurn /\ ~Fresh /\ found_mac = NoMac
  BY <1>1, TurnReads DEF TurnInv, Fresh, TypeOK
<1>3. PICK p \in Position : /\ keys = <<>> /\ Len(lines) = 1 /\ cursor = Down(p)
                            /\ Head(lines) = menu[Down(p)] /\ Reached(p, search_count - 1)
  BY <1>1, <1>2, TurnReads
<1>4. lines' = <<>>
  BY <1>3 DEF ReadEndMarker, TypeOK
<1>5. pc' = "loop"
  BY <1>1, <1>2 DEF AfterReading
<1>6. Parsed(menu, "DONE", dpu_macs, cursor)
  BY <1>1, <1>2, <1>3, ParsedEnd DEF Reached
<1>7. Missed'
  BY <1>1, <1>2, MissedNone DEF TurnInv, Missed
<1>8. LoopTurn'
  BY <1>1, <1>3, <1>4, <1>6, CountedDone DEF LoopTurn, InTouch, Reached
<1>9. QED
  BY <1>1, <1>5, <1>7, <1>8 DEF TurnInv

\* A turn is over when everything is answered and read.
LEMMA TimeoutTurnInv ==
  ASSUME TypeOK, CursorInv, TurnInv, ReadTimeout, {"first", "more"} \subseteq AnswersBefore
  PROVE  TurnInv'
<1>1. /\ pc = "read" /\ pc' = AfterReading /\ keys = <<>> /\ lines = <<>>
      /\ UNCHANGED <<menu, cursor, keys, lines, select_boot, parsing_state, dpu_macs, search_count, found_mac>>
  BY DEF ReadTimeout, TimesOut, dpuVars, callVars
<1>2. InTouch /\ Reached(cursor, search_count)
  <2>1. ~FirstAndDown /\ \A mk \in Position : ~UpsAndDown(mk) /\ ~DownPending(mk)
    BY <1>1 DEF FirstAndDown, UpsAndDown, DownPending
  <2>2. QED
    BY <1>1, <2>1 DEF TurnInv, ReadTurn
<1>3. LoopTurn'
  BY <1>1, <1>2 DEF LoopTurn, InTouch, Reached
<1>4. CASE pc' = "guard"
  BY <1>1, <1>4, EntriesAssumption DEF TurnInv, AfterReading
<1>5. CASE pc' = "loop"
  <2>1. select_boot = NoMac \/ found_mac # select_boot
    BY <1>1, <1>5 DEF AfterReading
  <2>2. Missed'
    BY <1>1, <2>1, MissedNone DEF TurnInv, Missed
  <2>3. QED
    BY <1>1, <1>3, <1>5, <2>2 DEF TurnInv
<1>6. QED
  BY <1>1, <1>4, <1>5 DEF AfterReading

\* A call ends in touch with the cursor, on the marker.
LEMMA ReturnTurnInv ==
  ASSUME TypeOK, CursorInv, TurnInv, ReturnMacs
  PROVE  TurnInv'
<1>1. keys = <<>> /\ lines = <<>> /\ menu[cursor] = Misc
  BY DEF ReturnMacs, CursorInv, LoopInv, InTouch
<1>2. keys' = <<"up", "up">> /\ lines' = <<>> /\ menu' = menu /\ cursor' = cursor
      /\ pc' = "returned" /\ cursor \in Position
  BY <1>1 DEF ReturnMacs, dpuVars, TypeOK
<1>3. UpsUnread(cursor)' /\ menu'[cursor] = Misc
  BY <1>1, <1>2 DEF UpsUnread
<1>4. QED
  BY <1>1, <1>2, <1>3 DEF TurnInv, UpsUnread, Up

LEMMA CallTurnInv ==
  ASSUME TypeOK, CursorInv, TurnInv, CallSelect
  PROVE  TurnInv'
<1>1. PICK mk \in Position : menu[mk] = Misc /\ UpsUnread(mk)
  BY DEF CallSelect, TurnInv
<1>2. /\ UNCHANGED <<menu, cursor, keys, lines>> /\ pc' = "loop" /\ search_count' = 0
      /\ parsing_state' = "START" /\ dpu_macs' = <<>>
  BY DEF CallSelect, dpuVars
<1>3. UpsUnread(mk)' /\ menu'[mk] = Misc
  BY <1>1, <1>2 DEF UpsUnread, Up
<1>4. Missed'
  BY <1>2 DEF Missed
<1>5. QED
  BY <1>2, <1>3, <1>4 DEF TurnInv, LoopTurn, Fresh

LEMMA TurnStep ==
  ASSUME TypeOK, CursorInv, TurnInv, [Next]_vars,
         {"first", "more"} \subseteq AnswersBefore, ~KeysGetLost
  PROVE  TurnInv'
<1>1. CASE GiveUp \/ GuardSeesLine \/ PressEnter \/ RaiseNotFound
  BY <1>1 DEF GiveUp, GuardSeesLine, PressEnter, RaiseNotFound, TurnInv, dpuVars, callVars
<1>2. CASE StartEntry
  <2>1. pc = "booting"
    BY <1>2, TailFacts DEF StartEntry, CursorInv, BootInv
  <2>2. QED
    BY <1>2, <2>1 DEF StartEntry, TurnInv, callVars
<1>3. CASE UNCHANGED vars
  BY <1>3 DEF vars, dpuVars, callVars, TurnInv, LoopTurn, ReadTurn, InTouch, Missed, Fresh,
              Reached, UpsUnread, UpsAndDown, FirstUnread, FirstAndDown, DownPending, Up, Down
<1>4. ~LoseKey
  BY DEF LoseKey
<1>5. QED
  BY <1>1, <1>2, <1>3, <1>4, PressTurnInv, MarkerTurnInv, MacTurnInv, SkipTurnInv, EndTurnInv,
     TimeoutTurnInv, ReturnTurnInv, CallTurnInv, MoveTurnInv
     DEF Next, Process, Uefi

-----------------------------------------------------------------------------
\* The loop gives up, or the parser ends without the entry that was asked for,
\* only if the menu has no answer.
LEMMA GivesUpUnanswerable ==
  ASSUME TypeOK, TurnInv, GiveUp, MaxSearch >= 2 * N
  PROVE  ~Promise!Answerable
<1>1. /\ pc = "loop" /\ parsing_state # "DONE" /\ search_count >= MaxSearch
      /\ search_count \in Nat /\ cursor \in Position /\ select_boot \in Macs \cup {NoMac}
      /\ parsing_state \in ParsingState
  BY DEF GiveUp, TypeOK
<1>2. search_count >= 2 * N
  BY <1>1
<1>3. Reached(cursor, search_count)
  BY <1>1, <1>2 DEF TurnInv, LoopTurn
<1>4. CASE \E mk \in Position : menu[mk] = Misc
  <2>1. PICK mk \in Position : menu[mk] = Misc
    BY <1>4
  <2>2. Dist(mk, cursor) \in 0..(N - 1)
    BY <1>1, DistFacts
  <2>3. /\ parsing_state = "START" => search_count = 0 \/ search_count <= Dist(mk, cursor)
        /\ parsing_state = "SAW_START_MARKER" =>
             search_count <= N + Dist(mk, cursor) \/ Promise!PxeEntries(menu) = {}
        /\ parsing_state = "PARSING" => search_count <= N + Dist(mk, cursor)
    BY <1>3, <2>1 DEF Reached, Counted
  <2>4. Promise!PxeEntries(menu) = {}
    BY <1>1, <1>2, <2>2, <2>3 DEF ParsingState
  <2>5. QED
    BY <2>4 DEF Promise!Answerable
<1>5. CASE ~\E mk \in Position : menu[mk] = Misc
  <2>1. Promise!PxeEntries(menu) = {}
    BY <1>5 DEF Promise!PxeEntries, Promise!Position, Position
  <2>2. QED
    BY <2>1 DEF Promise!Answerable
<1>6. QED
  BY <1>4, <1>5

\* At the end of the loop the parser has all PXE entries.
LEMMA LoopDone ==
  ASSUME TypeOK, TurnInv, pc = "loop", parsing_state = "DONE"
  PROVE  /\ Promise!InPxeOrder(menu, dpu_macs) /\ DOMAIN dpu_macs = 1..Len(dpu_macs)
         /\ Len(dpu_macs) \in 0..N /\ dpu_macs \in [1..Len(dpu_macs) -> Macs]
<1>1. Parsed(menu, "DONE", dpu_macs, cursor)
  BY DEF TurnInv, LoopTurn, Fresh, Reached
<1>2. Promise!InPxeOrder(menu, dpu_macs) /\ dpu_macs \in Seq(Macs) /\ Len(dpu_macs) \in 0..N
  BY <1>1, ParsedAll DEF TypeOK
<1>3. QED
  BY <1>2, LenProperties, ElementOfSeq

LEMMA NotFoundUnanswerable ==
  ASSUME TypeOK, TurnInv, RaiseNotFound
  PROVE  ~Promise!Answerable
<1>1. pc = "loop" /\ parsing_state = "DONE" /\ (select_boot # NoMac \/ dpu_macs = <<>>)
  BY DEF RaiseNotFound
<1>2. Missed /\ {dpu_macs[i] : i \in 1..Len(dpu_macs)} = Promise!PxeEntries(menu)
  BY <1>1, LoopDone DEF TurnInv, Promise!InPxeOrder
<1>3. select_boot \notin Promise!PxeEntries(menu)
  BY <1>2 DEF Missed
<1>4. dpu_macs = <<>> => Promise!PxeEntries(menu) = {}
  BY <1>2
<1>5. QED
  BY <1>1, <1>3, <1>4 DEF Promise!Answerable

-----------------------------------------------------------------------------
\* A detection that returns lists the PXE entries.
LEMMA ReturnLists ==
  ASSUME TypeOK, TurnInv, ReturnMacs
  PROVE  Promise!List
<1>1. /\ pc = "loop" /\ parsing_state = "DONE" /\ select_boot = NoMac /\ dpu_macs # <<>>
      /\ pc' = "returned" /\ UNCHANGED <<menu, select_boot, booted, dpu_macs>>
  BY DEF ReturnMacs, dpuVars, callVars
<1>2. /\ Promise!InPxeOrder(menu, dpu_macs) /\ Len(dpu_macs) \in 0..N
      /\ dpu_macs \in [1..Len(dpu_macs) -> Macs] /\ DOMAIN dpu_macs = 1..Len(dpu_macs)
  BY <1>1, LoopDone
<1>3. Promise!PxeEntries(menu) # {}
  <2>1. Len(dpu_macs) # 0 /\ 1 \in 1..Len(dpu_macs)
    BY <1>1, <1>2, LengthZero DEF TypeOK
  <2>2. dpu_macs[1] \in Promise!PxeEntries(menu)
    BY <1>2, <2>1 DEF Promise!InPxeOrder
  <2>3. QED
    BY <2>2
<1>4. dpu_macs \in Promise!Lists
  BY <1>2 DEF Promise!Lists
<1>5. Promise!Answerable
  BY <1>1, <1>3 DEF Promise!Answerable
<1>6. QED
  BY <1>1, <1>2, <1>4, <1>5 DEF Promise!List

\* ENTER is pressed on the entry asked for, which the menu has behind a marker.
LEMMA EnterChooses ==
  ASSUME TypeOK, CursorInv, TurnInv, PressEnter
  PROVE  Promise!Choose
<1>1. /\ pc = "guard" /\ pc' = "booting"
      /\ UNCHANGED <<menu, select_boot, booted, dpu_macs>>
  BY DEF PressEnter, dpuVars, callVars
<1>2. /\ select_boot # NoMac /\ select_boot \in Macs /\ cursor \in Position
      /\ select_boot = menu[cursor] /\ \E mk \in Position : menu[mk] = Misc
  BY <1>1 DEF TurnInv, TypeOK, CursorInv, BootInv
<1>3. select_boot \in Promise!PxeEntries(menu)
  BY <1>2, HasPxeEntry
<1>4. QED
  BY <1>1, <1>2, <1>3 DEF Promise!Choose, Promise!Answerable

\* The caller asks for one of the entries listed.
LEMMA CallAsks ==
  ASSUME CallSelect
  PROVE  Promise!Ask
<1>1. /\ pc = "returned" /\ pc' = "loop" /\ \E i \in DOMAIN dpu_macs : select_boot' = dpu_macs[i]
      /\ UNCHANGED <<menu, booted>>
  BY DEF CallSelect, dpuVars
<1>2. QED
  BY <1>1 DEF Promise!Ask

\* ENTER, once it arrives, starts it.
LEMMA StartBoots ==
  ASSUME TypeOK, CursorInv, StartEntry
  PROVE  Promise!Boot
<1>1. /\ booted = NoMac /\ booted' = menu[cursor] /\ keys # <<>> /\ Head(keys) = "enter"
      /\ UNCHANGED <<menu, pc, select_boot, dpu_macs>>
  BY DEF StartEntry, callVars
<1>2. pc = "booting" /\ select_boot = menu[cursor]
  BY <1>1, TailFacts DEF CursorInv, BootInv
<1>3. QED
  BY <1>1, <1>2 DEF Promise!Boot

\* Every step of the program, of the caller and of the UEFI is a step of the
\* promise, or changes nothing it speaks of.
LEMMA StepKeepsPromise ==
  ASSUME TypeOK, CursorInv, TurnInv, [Next]_vars, ~KeysGetLost, MaxSearch >= 2 * N
  PROVE  [Promise!Next]_(Promise!vars)
<1> USE DEF dpuVars, callVars
<1>1. CASE GiveUp
  <2>1. Promise!Fail
    BY <1>1, GivesUpUnanswerable DEF GiveUp, Promise!Fail
  <2>2. QED
    BY <2>1 DEF Promise!Next
<1>2. CASE RaiseNotFound
  <2>1. Promise!Fail
    BY <1>2, NotFoundUnanswerable DEF RaiseNotFound, Promise!Fail
  <2>2. QED
    BY <2>1 DEF Promise!Next
<1>3. CASE ReturnMacs
  BY <1>3, ReturnLists DEF Promise!Next
<1>4. CASE PressEnter
  BY <1>4, EnterChooses DEF Promise!Next
<1>5. CASE CallSelect
  BY <1>5, CallAsks DEF Promise!Next
<1>6. CASE StartEntry
  BY <1>6, StartBoots DEF Promise!Next
<1>7. CASE GuardSeesLine
  BY <1>7 DEF GuardSeesLine, CursorInv, BootInv
<1>8. CASE PressDown \/ ReadStartMarker \/ ReadPxeEntry \/ SkipEntry
  BY <1>8 DEF PressDown, ReadStartMarker, ReadPxeEntry, SkipEntry, Promise!vars
<1>9. CASE ReadEndMarker \/ ReadTimeout
  BY <1>9 DEF ReadEndMarker, ReadTimeout, AfterReading, Promise!vars
<1>10. CASE MoveCursor
  BY <1>10 DEF MoveCursor, Promise!vars
<1>11. CASE UNCHANGED vars
  BY <1>11 DEF vars, Promise!vars
<1>12. ~LoseKey
  BY DEF LoseKey
<1>13. QED
  BY <1>1, <1>2, <1>3, <1>4, <1>5, <1>6, <1>7, <1>8, <1>9, <1>10, <1>11, <1>12
     DEF Next, Process, Uefi

\* On a line that loses nothing and answers before either wait for a line ends
\* (0.80 s, and the 0.0 s of a re-read), every turn of the loop ends in touch with
\* the cursor and within its share of two rounds of the menu.
THEOREM TurnInvariant ==
  ASSUME {"first", "more"} \subseteq AnswersBefore, ~KeysGetLost
  PROVE  Spec => []TurnInv
<1>1. TypeOK /\ CursorInv /\ TurnInv /\ [Next]_vars => TurnInv'
  BY TurnStep
<1>2. QED
  BY <1>1, InitTurnInv, TypeCorrect, CursorInvariant, PTL DEF Spec

\* ... and on such a line the menu walk implements the promise (but for its liveness): what is
\* listed, what is refused and what is booted is what MenuPromise says, for every
\* menu of up to half of MAX_SEARCH_COUNT entries.
THEOREM ImplementsPromise ==
  ASSUME {"first", "more"} \subseteq AnswersBefore, ~KeysGetLost, MaxSearch >= 2 * N
  PROVE  Spec => Promise!Init /\ [][Promise!Next]_(Promise!vars)
<1>1. Init => Promise!Init
  BY DEF Init, Promise!Init, Promise!Menus, Promise!Position, Promise!Entries, Menus, Position, Entries
<1>2. TypeOK /\ CursorInv /\ TurnInv /\ [Next]_vars => [Promise!Next]_(Promise!vars)
  BY StepKeepsPromise
<1>3. QED
  BY <1>1, <1>2, TypeCorrect, CursorInvariant, TurnInvariant, PTL DEF Spec
=============================================================================
