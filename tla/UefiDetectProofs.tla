-------------------------- MODULE UefiDetectProofs --------------------------
(***************************************************************************)
(* What a detection by uefi_boot_menu_process() returns, for menus of any  *)
(* length, any latency of the serial line and whatever keys are lost.      *)
(*                                                                         *)
(* A detection presses nothing but DOWN, so the entries highlighted are a  *)
(* walk down the menu without a gap, however many keys get lost; the lines *)
(* not read yet are the end of that walk.  What the parser has collected   *)
(* is determined by the entry it read last.                                *)
(***************************************************************************)
EXTENDS UefiBootMenuProofs

USE NAssumption, EntriesAssumption

Dist(mk, p) == Promise!Dist(mk, p)

\* s lists the PXE entries between the marker at mk and p, p included.
ListsUpTo(m, mk, p, s) ==
  /\ s \in Seq(Macs) /\ Len(s) <= Dist(mk, p)
  /\ \A i \in 1..Len(s) : \E q \in Position : m[q] = s[i] /\ Dist(mk, q) <= Dist(mk, p)
  /\ \A q \in Position : m[q] \in Macs /\ Dist(mk, q) <= Dist(mk, p) =>
                           \E i \in 1..Len(s) : s[i] = m[q]
  /\ \A i, j \in 1..Len(s) : \A q, r \in Position :
       i < j /\ m[q] = s[i] /\ m[r] = s[j] => Dist(mk, q) < Dist(mk, r)

\* What the parser's state and the addresses collected say of the entries read,
\* p being the last of them.
Parsed(m, state, s, p) ==
  IF state = "START" THEN s = <<>>
  ELSE \E mk \in Position :
         /\ m[mk] = Misc
         /\ state = "SAW_START_MARKER" => s = <<>> /\ ListsUpTo(m, mk, p, s)
         /\ state = "PARSING" => p # mk /\ s # <<>> /\ ListsUpTo(m, mk, p, s)
         /\ state = "DONE" => s # <<>> /\ ListsUpTo(m, mk, Up(mk), s)

\* The lines l not read yet lead down from pos[0], read last, to the cursor.
Path(pos, l, m, c) ==
  /\ pos \in [0..Len(l) -> Position]
  /\ pos[Len(l)] = c
  /\ \A i \in 1..Len(l) : pos[i] = Down(pos[i - 1]) /\ l[i] = m[pos[i]]

Detecting == select_boot = NoMac /\ pc \in {"loop", "read"}

\* The strengthening of DetectExact that every step preserves.
DetectInv ==
  /\ Detecting => keys \in Seq({"down"})
  /\ Detecting /\ parsing_state # "DONE" =>
       \E pos \in [0..Len(lines) -> Position] :
         Path(pos, lines, menu, cursor) /\ Parsed(menu, parsing_state, dpu_macs, pos[0])
  /\ Detecting /\ parsing_state = "DONE" => Parsed(menu, parsing_state, dpu_macs, cursor)
  /\ DetectExact

-----------------------------------------------------------------------------
\* Once around the menu: DOWN leads one entry further from the marker, until it
\* is back there.
LEMMA DistFacts ==
  ASSUME NEW mk \in Position, NEW p \in Position
  PROVE  /\ Dist(mk, p) \in 0..(N - 1) /\ Dist(mk, mk) = 0
         /\ Down(p) # mk => Dist(mk, Down(p)) = Dist(mk, p) + 1
         /\ Down(p) = mk => p = Up(mk)
         /\ Dist(mk, Up(mk)) = N - 1
BY DEF Dist, Promise!Dist, Position, Down, Up

LEMMA DistInjective ==
  ASSUME NEW mk \in Position, NEW p \in Position, NEW q \in Position, Dist(mk, p) = Dist(mk, q)
  PROVE  p = q
BY DEF Dist, Promise!Dist, Position

LEMMA EntryUnique ==
  ASSUME NEW m \in Menus, NEW p \in Position, NEW q \in Position, m[p] = m[q],
         m[p] \in Macs \cup {Misc}
  PROVE  p = q
BY DEF Menus

\* Reading an entry that is no PXE entry leaves the list complete.
LEMMA ListsFurther ==
  ASSUME NEW m \in Menus, NEW mk \in Position, NEW p \in Position, NEW s,
         ListsUpTo(m, mk, p, s), Down(p) # mk, m[Down(p)] \notin Macs
  PROVE  ListsUpTo(m, mk, Down(p), s)
<1>1. Down(p) \in Position /\ Dist(mk, Down(p)) = Dist(mk, p) + 1
  BY DistFacts, CursorMoves
<1>2. Dist(mk, p) \in Int /\ \A q \in Position : Dist(mk, q) \in Int
  BY DistFacts
<1>3. \A q \in Position : Dist(mk, q) <= Dist(mk, Down(p)) /\ m[q] \in Macs => Dist(mk, q) <= Dist(mk, p)
  BY <1>1, <1>2, DistInjective
<1>4. s \in Seq(Macs) /\ Len(s) \in Nat
  BY LenProperties DEF ListsUpTo
<1>5. QED
  BY <1>1, <1>2, <1>3, <1>4 DEF ListsUpTo

\* Reading a PXE entry appends it at its place in the order.
LEMMA ListsMac ==
  ASSUME NEW m \in Menus, NEW mk \in Position, NEW p \in Position, NEW s,
         ListsUpTo(m, mk, p, s), Down(p) # mk, m[Down(p)] \in Macs
  PROVE  ListsUpTo(m, mk, Down(p), Append(s, m[Down(p)]))
<1> DEFINE e == m[Down(p)]
           t == Append(s, e)
<1>1. Down(p) \in Position /\ Dist(mk, Down(p)) = Dist(mk, p) + 1
  BY DistFacts, CursorMoves
<1>2. Dist(mk, p) \in Int /\ \A q \in Position : Dist(mk, q) \in Int
  BY DistFacts
<1>3. s \in Seq(Macs) /\ Len(s) \in Nat /\ Len(s) <= Dist(mk, p)
  BY LenProperties DEF ListsUpTo
<1>4. /\ t \in Seq(Macs) /\ Len(t) = Len(s) + 1 /\ t[Len(t)] = e
      /\ \A i \in 1..Len(s) : t[i] = s[i]
  BY <1>3, AppendProperties
<1>5. Len(t) <= Dist(mk, Down(p))
  BY <1>1, <1>2, <1>3, <1>4
<1>6. ASSUME NEW i \in 1..Len(t)
      PROVE  \E q \in Position : m[q] = t[i] /\ Dist(mk, q) <= Dist(mk, Down(p))
  <2>1. CASE i = Len(t)
    BY <1>1, <1>2, <1>4, <2>1
  <2>2. CASE i # Len(t)
    <3>1. i \in 1..Len(s) /\ t[i] = s[i]
      BY <1>3, <1>4, <2>2
    <3>2. PICK q \in Position : m[q] = s[i] /\ Dist(mk, q) <= Dist(mk, p)
      BY <3>1 DEF ListsUpTo
    <3>3. QED
      BY <1>1, <1>2, <3>1, <3>2
  <2>3. QED
    BY <2>1, <2>2
<1>7. ASSUME NEW q \in Position, m[q] \in Macs, Dist(mk, q) <= Dist(mk, Down(p))
      PROVE  \E i \in 1..Len(t) : t[i] = m[q]
  <2>1. CASE q = Down(p)
    BY <1>3, <1>4, <2>1
  <2>2. CASE q # Down(p)
    <3>1. Dist(mk, q) <= Dist(mk, p)
      BY <1>1, <1>2, <1>7, <2>2, DistInjective
    <3>2. PICK i \in 1..Len(s) : s[i] = m[q]
      BY <1>7, <3>1 DEF ListsUpTo
    <3>3. QED
      BY <1>3, <1>4, <3>2
  <2>3. QED
    BY <2>1, <2>2
<1>8. ASSUME NEW i \in 1..Len(t), NEW j \in 1..Len(t), NEW q \in Position, NEW r \in Position,
             i < j, m[q] = t[i], m[r] = t[j]
      PROVE  Dist(mk, q) < Dist(mk, r)
  <2>1. i \in 1..Len(s) /\ t[i] = s[i]
    BY <1>3, <1>4, <1>8
  <2>2. CASE j = Len(t)
    <3>1. r = Down(p)
      BY <1>1, <1>4, <1>8, <2>2, EntryUnique
    <3>2. PICK u \in Position : m[u] = s[i] /\ Dist(mk, u) <= Dist(mk, p)
      BY <2>1 DEF ListsUpTo
    <3>3. m[u] \in Macs
      BY <1>3, <2>1, <3>2, ElementOfSeq
    <3>4. u = q
      BY <1>8, <2>1, <3>2, <3>3, EntryUnique
    <3>5. QED
      BY <1>1, <1>2, <3>1, <3>2, <3>4
  <2>3. CASE j # Len(t)
    <3>1. j \in 1..Len(s) /\ t[j] = s[j]
      BY <1>3, <1>4, <2>3
    <3>2. QED
      BY <1>8, <2>1, <3>1 DEF ListsUpTo
  <2>4. QED
    BY <2>2, <2>3
<1>9. QED
  BY <1>4, <1>5, <1>6, <1>7, <1>8 DEF ListsUpTo

\* Nothing is listed at the marker itself.
LEMMA ListsNothing ==
  ASSUME NEW m \in Menus, NEW mk \in Position, m[mk] = Misc
  PROVE  ListsUpTo(m, mk, mk, <<>>)
<1>1. \A q \in Position : Dist(mk, q) <= Dist(mk, mk) => q = mk
  BY DistFacts, DistInjective
<1>2. <<>> \in Seq(Macs) /\ Len(<<>>) = 0 /\ Dist(mk, mk) = 0
  BY EmptySeq, DistFacts
<1>3. QED
  BY <1>1, <1>2 DEF ListsUpTo

-----------------------------------------------------------------------------
\* The parser, one entry read: one lemma per transition.
LEMMA ParsedSkip ==
  ASSUME NEW m \in Menus, NEW p \in Position, NEW state \in ParsingState, NEW s,
         Parsed(m, state, s, p), state # "DONE",
         m[Down(p)] # Misc, m[Down(p)] \notin Macs \/ state = "START"
  PROVE  Parsed(m, state, s, Down(p))
<1>1. CASE state = "START"
  BY <1>1 DEF Parsed
<1>2. CASE state # "START"
  <2>1. m[Down(p)] \notin Macs /\ state \in {"SAW_START_MARKER", "PARSING"}
    BY <1>2 DEF ParsingState
  <2>2. PICK mk \in Position :
          /\ m[mk] = Misc
          /\ state = "SAW_START_MARKER" => s = <<>> /\ ListsUpTo(m, mk, p, s)
          /\ state = "PARSING" => p # mk /\ s # <<>> /\ ListsUpTo(m, mk, p, s)
    BY <1>2 DEF Parsed
  <2>3. Down(p) # mk
    BY <2>1, <2>2
  <2>4. ListsUpTo(m, mk, Down(p), s)
    BY <2>1, <2>2, <2>3, ListsFurther
  <2>5. QED
    BY <1>2, <2>1, <2>2, <2>3, <2>4 DEF Parsed
<1>3. QED
  BY <1>1, <1>2

LEMMA ParsedMac ==
  ASSUME NEW m \in Menus, NEW p \in Position, NEW state \in {"SAW_START_MARKER", "PARSING"}, NEW s,
         Parsed(m, state, s, p), m[Down(p)] \in Macs
  PROVE  Parsed(m, "PARSING", Append(s, m[Down(p)]), Down(p))
<1>1. PICK mk \in Position : m[mk] = Misc /\ ListsUpTo(m, mk, p, s)
  BY DEF Parsed
<1>2. Down(p) # mk
  BY <1>1
<1>3. ListsUpTo(m, mk, Down(p), Append(s, m[Down(p)]))
  BY <1>1, <1>2, ListsMac
<1>4. Append(s, m[Down(p)]) # <<>>
  BY <1>1, AppendFacts DEF ListsUpTo
<1>5. QED
  BY <1>1, <1>2, <1>3, <1>4 DEF Parsed

LEMMA ParsedMarker ==
  ASSUME NEW m \in Menus, NEW q \in Position, NEW state \in {"START", "SAW_START_MARKER"}, NEW s,
         NEW p, Parsed(m, state, s, p), m[q] = Misc
  PROVE  Parsed(m, "SAW_START_MARKER", s, q)
<1>1. s = <<>>
  BY DEF Parsed
<1>2. QED
  BY <1>1, ListsNothing DEF Parsed

LEMMA ParsedEnd ==
  ASSUME NEW m \in Menus, NEW p \in Position, NEW s, NEW q,
         Parsed(m, "PARSING", s, p), m[Down(p)] = Misc
  PROVE  Parsed(m, "DONE", s, q)
<1>1. PICK mk \in Position : m[mk] = Misc /\ s # <<>> /\ ListsUpTo(m, mk, p, s)
  BY DEF Parsed
<1>2. Down(p) = mk
  BY <1>1, CursorMoves, EntryUnique
<1>3. p = Up(mk)
  BY <1>2, DistFacts
<1>4. QED
  BY <1>1, <1>3 DEF Parsed

\* A parser that is done has the PXE entries of the menu, in order.
LEMMA ParsedAll ==
  ASSUME NEW m \in Menus, NEW s, NEW p, Parsed(m, "DONE", s, p)
  PROVE  Promise!InPxeOrder(m, s) /\ s \in Seq(Macs) /\ Len(s) \in 0..N
<1>1. PICK mk \in Position : m[mk] = Misc /\ ListsUpTo(m, mk, Up(mk), s)
  BY DEF Parsed
<1>2. /\ \A q \in Position : Dist(mk, q) \in 0..(N - 1) /\ Dist(mk, q) <= Dist(mk, Up(mk))
      /\ Dist(mk, Up(mk)) = N - 1
  BY DistFacts
<1>3. s \in Seq(Macs) /\ Len(s) \in Nat /\ DOMAIN s = 1..Len(s) /\ Len(s) <= Dist(mk, Up(mk))
  BY <1>1, LenProperties DEF ListsUpTo
<1>4. \A i \in 1..Len(s) : s[i] \in Macs
  BY <1>3, ElementOfSeq
<1>5. \A i \in 1..Len(s) : \E q \in Position : m[q] = s[i]
  BY <1>1 DEF ListsUpTo
<1>6. \A q \in Position : m[q] \in Macs => \E i \in 1..Len(s) : s[i] = m[q]
  BY <1>1, <1>2 DEF ListsUpTo
<1>7. {s[i] : i \in DOMAIN s} = {m[q] : q \in Position} \cap Macs
  BY <1>3, <1>4, <1>5, <1>6
<1>8. {s[i] : i \in DOMAIN s} = Promise!PxeEntries(m)
  BY <1>1, <1>7 DEF Promise!PxeEntries, Promise!Position, Position
<1>9. ASSUME NEW i \in DOMAIN s, NEW j \in DOMAIN s, i < j
      PROVE  Promise!Before(m, s[i], s[j])
  <2>1. PICK q \in Position : m[q] = s[i]
    BY <1>3, <1>5
  <2>2. PICK r \in Position : m[r] = s[j]
    BY <1>3, <1>5
  <2>3. Dist(mk, q) < Dist(mk, r)
    BY <1>1, <1>3, <1>9, <2>1, <2>2 DEF ListsUpTo
  <2>4. QED
    BY <1>1, <2>1, <2>2, <2>3 DEF Promise!Before, Promise!Position, Position, Dist
<1>10. QED
  BY <1>2, <1>3, <1>8, <1>9 DEF Promise!InPxeOrder

-----------------------------------------------------------------------------
\* The next line is the entry below the one read last, ...
LEMMA PathRead ==
  ASSUME NEW m \in Menus, NEW l \in Seq(Entries), l # <<>>, NEW c \in Position,
         NEW pos \in [0..Len(l) -> Position], Path(pos, l, m, c)
  PROVE  /\ pos[0] \in Position /\ Head(l) = m[Down(pos[0])]
         /\ \E q \in [0..Len(Tail(l)) -> Position] :
              Path(q, Tail(l), m, c) /\ q[0] = Down(pos[0])
<1> DEFINE q == [i \in 0..(Len(l) - 1) |-> pos[i + 1]]
<1>1. /\ Len(l) \in Nat /\ Len(l) >= 1 /\ Head(l) = l[1]
      /\ Len(Tail(l)) = Len(l) - 1 /\ \A i \in 1..(Len(l) - 1) : Tail(l)[i] = l[i + 1]
  BY HeadTailProperties, LengthZero, TailFacts
<1>2. pos[0] \in Position /\ pos[1] = Down(pos[0]) /\ l[1] = m[pos[1]]
  BY <1>1 DEF Path
<1>3. q \in [0..Len(Tail(l)) -> Position] /\ q[0] = pos[1]
  BY <1>1
<1>4. q[Len(Tail(l))] = c
  BY <1>1 DEF Path
<1>5. \A i \in 1..Len(Tail(l)) : q[i] = Down(q[i - 1]) /\ Tail(l)[i] = m[q[i]]
  <2> SUFFICES ASSUME NEW i \in 1..Len(Tail(l))
               PROVE  q[i] = Down(q[i - 1]) /\ Tail(l)[i] = m[q[i]]
    OBVIOUS
  <2>1. q[i] = pos[i + 1] /\ q[i - 1] = pos[i] /\ i + 1 \in 1..Len(l)
    BY <1>1
  <2>2. pos[i + 1] = Down(pos[(i + 1) - 1]) /\ l[i + 1] = m[pos[i + 1]] /\ (i + 1) - 1 = i
    BY <2>1 DEF Path
  <2>3. QED
    BY <1>1, <2>1, <2>2
<1> HIDE DEF q
<1>6. QED
  BY <1>1, <1>2, <1>3, <1>4, <1>5 DEF Path

\* ... and DOWN leads the walk one entry further.
LEMMA PathDown ==
  ASSUME NEW m \in Menus, NEW l \in Seq(Entries), NEW c \in Position,
         NEW pos \in [0..Len(l) -> Position], Path(pos, l, m, c)
  PROVE  \E q \in [0..Len(Append(l, m[Down(c)])) -> Position] :
           Path(q, Append(l, m[Down(c)]), m, Down(c)) /\ q[0] = pos[0]
<1> DEFINE e == m[Down(c)]
           t == Append(l, e)
           q == [i \in 0..(Len(l) + 1) |-> IF i <= Len(l) THEN pos[i] ELSE Down(c)]
<1>1. Down(c) \in Position /\ e \in Entries /\ Len(l) \in Nat
  BY CursorMoves, MenuEntries, LengthZero
<1>2. Len(t) = Len(l) + 1 /\ t[Len(l) + 1] = e /\ \A i \in 1..Len(l) : t[i] = l[i]
  BY <1>1, AppendProperties
<1>3. /\ q \in [0..Len(t) -> Position] /\ q[0] = pos[0] /\ q[Len(t)] = Down(c)
      /\ \A i \in 0..Len(l) : q[i] = pos[i]
  BY <1>1, <1>2
<1>4. ASSUME NEW i \in 1..Len(t)
      PROVE  q[i] = Down(q[i - 1]) /\ t[i] = m[q[i]]
  <2>1. CASE i = Len(t)
    <3>1. q[i - 1] = c
      BY <1>1, <1>2, <1>3, <2>1 DEF Path
    <3>2. QED
      BY <1>2, <1>3, <2>1, <3>1
  <2>2. CASE i # Len(t)
    <3>1. i \in 1..Len(l) /\ q[i] = pos[i] /\ q[i - 1] = pos[i - 1]
      BY <1>1, <1>2, <1>3, <2>2
    <3>2. pos[i] = Down(pos[i - 1]) /\ l[i] = m[pos[i]]
      BY <3>1 DEF Path
    <3>3. QED
      BY <1>2, <3>1, <3>2
  <2>3. QED
    BY <2>1, <2>2
<1> HIDE DEF q, t
<1>5. Path(q, t, m, Down(c))
  BY <1>3, <1>4 DEF Path
<1>6. QED
  BY <1>3, <1>5 DEF t

-----------------------------------------------------------------------------
\* What a step may leave alone: everything a detection depends on but the keys.
LEMMA DetectUnread ==
  ASSUME DetectInv, Detecting' => Detecting, (pc = "returned") = (pc' = "returned"),
         UNCHANGED <<menu, cursor, lines, parsing_state, dpu_macs>>,
         Detecting' => keys' \in Seq({"down"})
  PROVE  DetectInv'
BY DEF DetectInv, DetectExact, Path, Down

LEMMA InitDetectInv == Init => DetectInv
<1> SUFFICES ASSUME Init PROVE DetectInv
  OBVIOUS
<1>1. menu \in Menus /\ cursor = 0 /\ 0 \in Position /\ keys \in Seq({"down"})
  BY EmptySeq DEF Init, Position
<1>2. \E pos \in [0..Len(lines) -> Position] : Path(pos, lines, menu, cursor)
  <2>1. CASE lines = <<>>
    <3> DEFINE pos == [i \in 0..0 |-> 0]
    <3>1. Len(lines) = 0
      BY <2>1
    <3>2. pos \in [0..Len(lines) -> Position] /\ Path(pos, lines, menu, cursor)
      BY <1>1, <3>1 DEF Path
    <3>3. QED
      BY <3>2
  <2>2. CASE lines = <<menu[0]>>
    <3> DEFINE pos == [i \in 0..1 |-> IF i = 0 THEN Up(0) ELSE 0]
    <3>1. Len(lines) = 1 /\ lines[1] = menu[0]
      BY <2>2
    <3>2. Up(0) \in Position /\ Down(Up(0)) = 0
      BY <1>1, CursorMoves, DownUndoesUp
    <3>3. pos \in [0..Len(lines) -> Position] /\ Path(pos, lines, menu, cursor)
      BY <1>1, <3>1, <3>2 DEF Path
    <3>4. QED
      BY <3>3
  <2>3. QED
    BY <2>1, <2>2 DEF Init
<1>3. QED
  BY <1>1, <1>2 DEF Init, DetectInv, DetectExact, Parsed

\* A step that reads a line: the parser goes on from the entry read last to the
\* one below it.
LEMMA DetectReads ==
  ASSUME TypeOK, DetectInv, Detecting, lines # <<>>, parsing_state # "DONE"
  PROVE  \E p \in Position :
           /\ Parsed(menu, parsing_state, dpu_macs, p) /\ Head(lines) = menu[Down(p)]
           /\ \E q \in [0..Len(Tail(lines)) -> Position] :
                Path(q, Tail(lines), menu, cursor) /\ q[0] = Down(p)
<1>1. PICK pos \in [0..Len(lines) -> Position] :
        Path(pos, lines, menu, cursor) /\ Parsed(menu, parsing_state, dpu_macs, pos[0])
  BY DEF DetectInv
<1>2. /\ pos[0] \in Position /\ Head(lines) = menu[Down(pos[0])]
      /\ \E q \in [0..Len(Tail(lines)) -> Position] :
           Path(q, Tail(lines), menu, cursor) /\ q[0] = Down(pos[0])
  BY <1>1, PathRead DEF TypeOK
<1>3. QED
  BY <1>1, <1>2

\* ... and is then where the lines left begin.
LEMMA DetectRead ==
  ASSUME DetectInv, NEW p \in Position, Parsed(menu, parsing_state, dpu_macs, p)',
         (\E q \in [0..Len(lines) -> Position] : Path(q, lines, menu, cursor) /\ q[0] = p)',
         keys' \in Seq({"down"}), pc' = "read", parsing_state' # "DONE"
  PROVE  DetectInv'
BY DEF DetectInv, DetectExact

LEMMA DetectStep ==
  ASSUME TypeOK, DetectInv, [Next]_vars
  PROVE  DetectInv'
<1> USE DEF dpuVars, callVars
<1>0. menu \in Menus /\ cursor \in Position /\ lines \in Seq(Entries)
  BY DEF TypeOK
<1>1. CASE PressDown
  <2>1. Detecting' => Detecting /\ keys' \in Seq({"down"})
    BY <1>1, AppendFacts DEF PressDown, DetectInv, Detecting
  <2>2. QED
    BY <1>1, <2>1, DetectUnread DEF PressDown
<1>2. CASE GiveUp
  BY <1>2 DEF GiveUp, DetectInv, DetectExact, Detecting
<1>3. CASE ReadStartMarker
  <2>1. ~Detecting => DetectInv'
    BY <1>3 DEF ReadStartMarker, DetectInv, DetectExact, Detecting
  <2>2. CASE Detecting
    <3>1. PICK p \in Position :
            /\ Parsed(menu, parsing_state, dpu_macs, p) /\ Head(lines) = menu[Down(p)]
            /\ \E q \in [0..Len(Tail(lines)) -> Position] :
                 Path(q, Tail(lines), menu, cursor) /\ q[0] = Down(p)
      BY <1>3, <2>2, DetectReads DEF ReadStartMarker
    <3>2. Down(p) \in Position /\ Parsed(menu, "SAW_START_MARKER", dpu_macs, Down(p))
      BY <1>0, <1>3, <3>1, CursorMoves, ParsedMarker DEF ReadStartMarker
    <3>3. menu' = menu /\ lines' = Tail(lines) /\ cursor' = cursor /\ dpu_macs' = dpu_macs
          /\ parsing_state' = "SAW_START_MARKER" /\ pc' = "read" /\ keys' \in Seq({"down"})
      BY <1>3, <2>2 DEF ReadStartMarker, DetectInv
    <3>4. QED
      BY <3>1, <3>2, <3>3, DetectRead
  <2>3. QED
    BY <2>1, <2>2
<1>4. CASE ReadEndMarker
  <2>1. ~Detecting => DetectInv'
    BY <1>4 DEF ReadEndMarker, DetectInv, DetectExact, Detecting, AfterReading
  <2>2. CASE Detecting
    <3>1. PICK p \in Position :
            Parsed(menu, parsing_state, dpu_macs, p) /\ Head(lines) = menu[Down(p)]
      BY <1>4, <2>2, DetectReads DEF ReadEndMarker
    <3>2. Parsed(menu, "DONE", dpu_macs, cursor)
      BY <1>0, <1>4, <3>1, ParsedEnd DEF ReadEndMarker
    <3>3. menu' = menu /\ cursor' = cursor /\ dpu_macs' = dpu_macs
          /\ parsing_state' = "DONE" /\ pc' # "returned" /\ keys' \in Seq({"down"})
      BY <1>4, <2>2 DEF ReadEndMarker, DetectInv, AfterReading
    <3>4. QED
      BY <3>2, <3>3 DEF DetectInv, DetectExact
  <2>3. QED
    BY <2>1, <2>2
<1>5. CASE ReadPxeEntry
  <2>1. ~Detecting => DetectInv'
    BY <1>5 DEF ReadPxeEntry, DetectInv, DetectExact, Detecting
  <2>2. CASE Detecting
    <3>1. PICK p \in Position :
            /\ Parsed(menu, parsing_state, dpu_macs, p) /\ Head(lines) = menu[Down(p)]
            /\ \E q \in [0..Len(Tail(lines)) -> Position] :
                 Path(q, Tail(lines), menu, cursor) /\ q[0] = Down(p)
      BY <1>5, <2>2, DetectReads DEF ReadPxeEntry
    <3>2. /\ Down(p) \in Position
          /\ Parsed(menu, "PARSING", Append(dpu_macs, Head(lines)), Down(p))
      BY <1>0, <1>5, <3>1, CursorMoves, ParsedMac DEF ReadPxeEntry
    <3>3. menu' = menu /\ lines' = Tail(lines) /\ cursor' = cursor
          /\ dpu_macs' = Append(dpu_macs, Head(lines))
          /\ parsing_state' = "PARSING" /\ pc' = "read" /\ keys' \in Seq({"down"})
      BY <1>5, <2>2 DEF ReadPxeEntry, DetectInv
    <3>4. QED
      BY <3>1, <3>2, <3>3, DetectRead
  <2>3. QED
    BY <2>1, <2>2
<1>6. CASE SkipEntry
  <2>1. ~Detecting => DetectInv'
    BY <1>6 DEF SkipEntry, DetectInv, DetectExact, Detecting
  <2>2. CASE Detecting /\ parsing_state # "DONE"
    <3>1. PICK p \in Position :
            /\ Parsed(menu, parsing_state, dpu_macs, p) /\ Head(lines) = menu[Down(p)]
            /\ \E q \in [0..Len(Tail(lines)) -> Position] :
                 Path(q, Tail(lines), menu, cursor) /\ q[0] = Down(p)
      BY <1>6, <2>2, DetectReads DEF SkipEntry
    <3>2. Down(p) \in Position /\ Parsed(menu, parsing_state, dpu_macs, Down(p))
      <4>1. /\ menu[Down(p)] # Misc
            /\ menu[Down(p)] \notin Macs \/ parsing_state = "START"
        BY <1>6, <3>1 DEF SkipEntry
      <4>2. parsing_state \in ParsingState
        BY DEF TypeOK
      <4>3. QED
        BY <1>0, <2>2, <3>1, <4>1, <4>2, CursorMoves, ParsedSkip
    <3>3. menu' = menu /\ lines' = Tail(lines) /\ cursor' = cursor /\ dpu_macs' = dpu_macs
          /\ parsing_state' = parsing_state /\ pc' = "read" /\ keys' \in Seq({"down"})
      BY <1>6, <2>2 DEF SkipEntry, DetectInv
    <3>4. QED
      BY <2>2, <3>1, <3>2, <3>3, DetectRead
  <2>3. CASE Detecting /\ parsing_state = "DONE"
    BY <1>6, <2>3 DEF SkipEntry, DetectInv, DetectExact, Detecting
  <2>4. QED
    BY <2>1, <2>2, <2>3
<1>7. CASE ReadTimeout
  <2>1. Detecting' => Detecting /\ keys' \in Seq({"down"})
    BY <1>7 DEF ReadTimeout, DetectInv, Detecting
  <2>2. QED
    BY <1>7, <2>1, DetectUnread DEF ReadTimeout, AfterReading
<1>8. CASE GuardSeesLine \/ PressEnter \/ RaiseNotFound \/ CallSelect
  BY <1>8 DEF GuardSeesLine, PressEnter, RaiseNotFound, CallSelect, DetectInv, DetectExact, Detecting, TypeOK
<1>9. CASE ReturnMacs
  <2>1. Parsed(menu, "DONE", dpu_macs, cursor)
    BY <1>9 DEF ReturnMacs, DetectInv, Detecting
  <2>2. Promise!InPxeOrder(menu, dpu_macs)
    BY <1>0, <2>1, ParsedAll
  <2>3. menu' = menu /\ dpu_macs' = dpu_macs /\ pc' = "returned"
    BY <1>9 DEF ReturnMacs
  <2>4. DetectExact'
    BY <2>2, <2>3 DEF DetectExact
  <2>5. QED
    BY <2>3, <2>4 DEF DetectInv, Detecting
<1>10. CASE MoveCursor
  <2>1. CASE ~Detecting
    BY <1>10, <2>1 DEF MoveCursor, DetectInv, DetectExact, Detecting
  <2>2. CASE Detecting
    <3>1. keys \in Seq({"down"}) /\ keys # <<>>
      BY <1>10, <2>2 DEF MoveCursor, DetectInv
    <3>2. Head(keys) = "down" /\ Tail(keys) \in Seq({"down"})
      BY <3>1, TailFacts
    <3>3. /\ keys' \in Seq({"down"}) /\ cursor' = Down(cursor) /\ menu' = menu
          /\ lines' = Append(lines, menu[Down(cursor)])
          /\ parsing_state' = parsing_state /\ dpu_macs' = dpu_macs /\ Detecting'
          /\ pc' # "returned"
      BY <1>10, <2>2, <3>2 DEF MoveCursor, Detecting
    <3>4. CASE parsing_state = "DONE"
      BY <2>2, <3>3, <3>4 DEF DetectInv, DetectExact, Parsed, Up
    <3>5. CASE parsing_state # "DONE"
      <4>1. PICK pos \in [0..Len(lines) -> Position] :
              Path(pos, lines, menu, cursor) /\ Parsed(menu, parsing_state, dpu_macs, pos[0])
        BY <2>2, <3>5 DEF DetectInv
      <4>2. \E q \in [0..Len(lines') -> Position] :
              Path(q, lines', menu', cursor') /\ q[0] = pos[0]
        BY <1>0, <3>3, <4>1, PathDown
      <4>3. PICK q \in [0..Len(lines') -> Position] :
              Path(q, lines', menu', cursor') /\ Parsed(menu', parsing_state', dpu_macs', q[0])
        BY <3>3, <4>1, <4>2
      <4>4. QED
        BY <3>3, <3>5, <4>3 DEF DetectInv, DetectExact
    <3>6. QED
      BY <3>4, <3>5
  <2>3. QED
    BY <2>1, <2>2
<1>11. CASE StartEntry
  <2>1. ~Detecting
    BY <1>11, TailFacts DEF StartEntry, DetectInv
  <2>2. QED
    BY <1>11, <2>1 DEF StartEntry, DetectInv, DetectExact, Detecting
<1>12. CASE LoseKey
  <2>1. Detecting' => Detecting /\ keys' \in Seq({"down"})
    BY <1>12, TailFacts DEF LoseKey, DetectInv, Detecting
  <2>2. QED
    BY <1>12, <2>1, DetectUnread DEF LoseKey
<1>13. CASE UNCHANGED vars
  <2>1. Detecting' => Detecting /\ keys' \in Seq({"down"})
    BY <1>13 DEF vars, DetectInv, Detecting
  <2>2. QED
    BY <1>13, <2>1, DetectUnread DEF vars
<1>14. QED
  BY <1>1, <1>2, <1>3, <1>4, <1>5, <1>6, <1>7, <1>8, <1>9, <1>10, <1>11, <1>12, <1>13
     DEF Next, Process, Uefi

\* However the answers are delayed or batched and whatever keys are lost, what the
\* parser has collected are the PXE entries of the menu up to the one read last.
THEOREM DetectInvariant == Spec => []DetectInv
<1>1. QED
  BY InitDetectInv, DetectStep, TypeCorrect, PTL DEF Spec

\* ... and a detection that returns has all PXE entries of the menu, each once and
\* in the order that numbers the DPU's interfaces.
THEOREM DetectionExact == Spec => []DetectExact
<1>1. DetectInv => DetectExact
  BY DEF DetectInv
<1>2. QED
  BY <1>1, DetectInvariant, PTL
=============================================================================
