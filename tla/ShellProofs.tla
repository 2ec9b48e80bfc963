----------------------------- MODULE ShellProofs -----------------------------
(***************************************************************************)
(* The shell for every screen, command line and filesystem: the cursor is  *)
(* on the screen and the line typed is the buffer at every prompt, short   *)
(* output is never covered by the prompt, and no command takes the shell   *)
(* out of a directory.  The invariant ties the cursor to the buffer and to *)
(* the prompt (EditorOK) and keeps the filesystem whole, from              *)
(* FileSystemProofs: cd and rm are safe because of what it says of paths.  *)
(***************************************************************************)
EXTENDS Shell, FileSystemProofs

-----------------------------------------------------------------------------
(* What holds of the start, and of the next index with the one before it,  *)
(* holds of every index. *)
LEMMA UpTo ==
  ASSUME NEW N \in Nat, NEW S, 0 \in S, \A i \in 1 .. N : i - 1 \in S => i \in S
  PROVE  \A i \in 0 .. N : i \in S
<1> DEFINE Without == {i \in 0 .. N : i \notin S}
<1> SUFFICES Without = {}
  OBVIOUS
<1> SUFFICES ASSUME Without # {} PROVE FALSE
  OBVIOUS
<1>1. Without \subseteq Nat
  OBVIOUS
<1>2. PICK m \in Without : \A j \in Without : m <= j
  <2> HIDE DEF Without
  <2> QED
    BY <1>1, LeastNat
<1>3. m \in 1 .. N /\ m - 1 \in 0 .. N /\ m \notin S
  OBVIOUS
<1>4. m - 1 \in S
  BY <1>2, <1>3
<1> QED
  BY <1>3, <1>4

-----------------------------------------------------------------------------
(* The screen. *)
Pictures  == [1 .. ROWS -> Shown]
Terminals == [row : Int, col : Int, len : Int, screen : Pictures, covered : BOOLEAN, tallest : Nat]

SameLine(t, u)    == u.col = t.col /\ u.len = t.len
SameHistory(t, u) == u.covered = t.covered /\ u.tallest = t.tallest

LEMMA Screens ==
  /\ ROWS \in Nat /\ ROWS > 0 /\ COLUMNS \in Nat /\ COLUMNS > 6
  /\ MAX_COMMAND_LENGTH \in Nat /\ MAX_COMMAND_LENGTH > 0
  /\ "blank" \in Shown /\ "output" \in Shown /\ "old" \in Shown /\ "line" \in Shown
  BY TerminalAssumption DEF Shown

LEMMA ScrolledScreen ==
  ASSUME NEW screen \in Pictures
  PROVE  /\ Append(Tail(screen), "blank") \in Pictures
         /\ \A i \in 1 .. ROWS : Append(Tail(screen), "blank")[i] = IF i < ROWS THEN screen[i + 1] ELSE "blank"
<1>1. screen \in Seq(Shown) /\ Len(screen) = ROWS
  BY Screens DEF Pictures
<1> DEFINE s == Append(Tail(screen), "blank")
<1>2. Tail(screen) \in Seq(Shown) /\ Len(Tail(screen)) = ROWS - 1
      /\ \A i \in 1 .. ROWS - 1 : Tail(screen)[i] = screen[i + 1]
  BY <1>1, Screens
<1>3. s \in Seq(Shown) /\ Len(s) = ROWS /\ s[ROWS] = "blank" /\ \A i \in 1 .. ROWS - 1 : s[i] = Tail(screen)[i]
  BY <1>2, Screens
<1>4. \A i \in 1 .. ROWS : i = ROWS \/ (i < ROWS /\ i \in 1 .. ROWS - 1)
  BY Screens
<1> HIDE DEF s
<1>5. s \in Pictures
  BY <1>3, LenProperties DEF Pictures
<1>6. \A i \in 1 .. ROWS : s[i] = IF i < ROWS THEN screen[i + 1] ELSE "blank"
  BY <1>2, <1>3, <1>4, Screens
<1> QED
  BY <1>5, <1>6 DEF s

LEMMA ScrolledIs ==
  ASSUME NEW t \in Terminals
  PROVE  /\ Scrolled(t) \in Terminals /\ SameLine(t, Scrolled(t)) /\ SameHistory(t, Scrolled(t))
         /\ Scrolled(t).row = ROWS - 1
         /\ \A i \in 1 .. ROWS : Scrolled(t).screen[i] = IF i < ROWS THEN t.screen[i + 1] ELSE "blank"
<1> DEFINE s == Append(Tail(t.screen), "blank")
<1>1. t.screen \in Pictures
  BY DEF Terminals
<1>2. s \in Pictures /\ \A i \in 1 .. ROWS : s[i] = IF i < ROWS THEN t.screen[i + 1] ELSE "blank"
  BY <1>1, ScrolledScreen
<1>3. Scrolled(t) = [t EXCEPT !.screen = s, !.row = ROWS - 1]
  BY DEF Scrolled
<1> HIDE DEF s
<1>4. Scrolled(t).screen = s /\ Scrolled(t).row = ROWS - 1 /\ SameLine(t, Scrolled(t)) /\ SameHistory(t, Scrolled(t))
  BY <1>3 DEF Terminals, SameLine, SameHistory
<1>5. Scrolled(t) \in Terminals
  <2>1. \A p \in Pictures : [t EXCEPT !.screen = p] \in Terminals
    BY DEF Terminals
  <2>2. \A u \in Terminals : \A r \in Int : [u EXCEPT !.row = r] \in Terminals
    BY DEF Terminals
  <2>3. [t EXCEPT !.screen = s] \in Terminals /\ ROWS - 1 \in Int
    BY <1>2, <2>1, Screens
  <2>4. [[t EXCEPT !.screen = s] EXCEPT !.row = ROWS - 1] \in Terminals
    BY <2>2, <2>3
  <2>5. [t EXCEPT !.screen = s, !.row = ROWS - 1] = [[t EXCEPT !.screen = s] EXCEPT !.row = ROWS - 1]
    OBVIOUS
  <2> QED
    BY <1>3, <2>4, <2>5
<1> QED
  BY <1>2, <1>4, <1>5

(* A text on its way: the screen so far, and the row where it goes on.     *)
Printings == [t : Terminals, r : Nat]

LEMMA OnScreenIs ==
  ASSUME NEW s \in Printings
  PROVE  /\ OnScreen(s) \in Printings /\ OnScreen(s).r \in Rows
         /\ SameLine(s.t, OnScreen(s).t) /\ SameHistory(s.t, OnScreen(s).t)
         /\ s.r < ROWS => OnScreen(s) = s
         /\ s.r >= ROWS => OnScreen(s).t = Scrolled(s.t) /\ OnScreen(s).t.row = ROWS - 1 /\ OnScreen(s).r = ROWS - 1
<1>1. s.t \in Terminals /\ s.r \in Nat
  BY DEF Printings
<1>2. CASE s.r >= ROWS
  <2>1. OnScreen(s) = [t |-> Scrolled(s.t), r |-> ROWS - 1]
    BY <1>2 DEF OnScreen
  <2>2. ROWS - 1 \in Nat /\ ROWS - 1 \in Rows
    BY Screens DEF Rows
  <2>3. Scrolled(s.t) \in Terminals /\ SameLine(s.t, Scrolled(s.t)) /\ SameHistory(s.t, Scrolled(s.t))
        /\ Scrolled(s.t).row = ROWS - 1
    BY <1>1, ScrolledIs
  <2>4. OnScreen(s).t = Scrolled(s.t) /\ OnScreen(s).r = ROWS - 1
    BY <2>1
  <2>5. OnScreen(s) \in Printings
    BY <2>1, <2>2, <2>3 DEF Printings
  <2>6. ~ (s.r < ROWS)
    BY <1>1, <1>2, Screens
  <2> QED
    BY <2>2, <2>3, <2>4, <2>5, <2>6
<1>3. CASE ~ (s.r >= ROWS)
  <2>1. OnScreen(s) = s
    BY <1>3 DEF OnScreen
  <2>2. s.r \in Rows
    BY <1>1, <1>3, Screens DEF Rows
  <2> QED
    BY <1>1, <1>3, <2>1, <2>2 DEF SameLine, SameHistory
<1> QED
  BY <1>2, <1>3

LEMMA MarkedIs ==
  ASSUME NEW s \in Printings, NEW who \in Shown
  PROVE  /\ Marked(s, who) \in Printings /\ Marked(s, who).r = OnScreen(s).r
         /\ Marked(s, who).t.row = OnScreen(s).t.row
         /\ SameLine(s.t, Marked(s, who).t) /\ SameHistory(s.t, Marked(s, who).t)
         /\ \A i \in 1 .. ROWS : Marked(s, who).t.screen[i] = IF i = OnScreen(s).r + 1 THEN who ELSE OnScreen(s).t.screen[i]
<1> DEFINE u == OnScreen(s)
           v == [u.t EXCEPT !.screen[u.r + 1] = who]
<1>1. u \in Printings /\ u.r \in Rows /\ SameLine(s.t, u.t) /\ SameHistory(s.t, u.t)
  BY OnScreenIs
<1>2. Marked(s, who) = [u EXCEPT !.t.screen[u.r + 1] = who]
  BY DEF Marked
<1> HIDE DEF u
<1>3. u.t \in Terminals /\ u.r \in Nat /\ u.t.screen \in Pictures /\ u.r + 1 \in 1 .. ROWS
  BY <1>1, Screens DEF Printings, Terminals, Rows
<1>4. Marked(s, who).t = v /\ Marked(s, who).r = u.r
  BY <1>1, <1>2 DEF Printings
<1>5. v.screen = [u.t.screen EXCEPT ![u.r + 1] = who] /\ v.row = u.t.row /\ SameLine(u.t, v) /\ SameHistory(u.t, v)
  BY <1>3 DEF Terminals, SameLine, SameHistory
<1>6. v \in Terminals
  <2>1. v.screen \in Pictures
    BY <1>3, <1>5 DEF Pictures
  <2>2. v = [u.t EXCEPT !.screen = v.screen]
    BY <1>3, <1>5 DEF Terminals
  <2> HIDE DEF v
  <2> QED
    BY <1>3, <2>1, <2>2 DEF Terminals
<1> HIDE DEF v
<1>7. \A i \in 1 .. ROWS : v.screen[i] = IF i = u.r + 1 THEN who ELSE u.t.screen[i]
  BY <1>3, <1>5 DEF Pictures
<1>8. Marked(s, who) \in Printings
  BY <1>1, <1>2, <1>3, <1>4, <1>6 DEF Printings
<1> QED
  BY <1>1, <1>4, <1>5, <1>7, <1>8 DEF u, SameLine, SameHistory

LEMMA NextRowIs ==
  ASSUME NEW s \in Printings
  PROVE  /\ NextRow(s) \in Printings /\ NextRow(s).r \in Rows
         /\ SameLine(s.t, NextRow(s).t) /\ SameHistory(s.t, NextRow(s).t)
         /\ s.r + 1 < ROWS => NextRow(s).t = s.t /\ NextRow(s).r = s.r + 1
         /\ s.r + 1 >= ROWS => NextRow(s).t = Scrolled(s.t) /\ NextRow(s).t.row = ROWS - 1
<1> DEFINE u == [s EXCEPT !.r = @ + 1]
<1>1. u \in Printings /\ u.t = s.t /\ u.r = s.r + 1
  BY DEF Printings
<1>2. NextRow(s) = OnScreen(u)
  BY DEF NextRow
<1> HIDE DEF u
<1> QED
  BY <1>1, <1>2, OnScreenIs

(* N steps from x that stay within X exist. *)
Runs(w, N, X, x, F) ==
    w \in [0 .. N -> X] /\ w[0] = x /\ \A i \in 1 .. N : w[i] = F[i][w[i - 1]]

LEMMA Iterates ==
  ASSUME NEW N \in Nat, NEW X, NEW x \in X, NEW F \in [1 .. N -> [X -> X]]
  PROVE  \E w : Runs(w, N, X, x, F)
<1> DEFINE Goes(w, n) == w[0] = x /\ \A i \in 1 .. n : w[i] = F[i][w[i - 1]]
           S == {n \in 0 .. N : \E w \in [0 .. n -> X] : Goes(w, n)}
<1>1. 0 \in S
  <2>1. [i \in 0 .. 0 |-> x] \in [0 .. 0 -> X] /\ Goes([i \in 0 .. 0 |-> x], 0)
    OBVIOUS
  <2> HIDE DEF Goes
  <2> QED
    BY <2>1
<1>2. ASSUME NEW n \in 1 .. N, n - 1 \in S PROVE n \in S
  <2>1. PICK v \in [0 .. n - 1 -> X] : Goes(v, n - 1)
    BY <1>2
  <2> DEFINE w == [i \in 0 .. n |-> IF i = n THEN F[n][v[n - 1]] ELSE v[i]]
  <2>2. n - 1 \in 0 .. n - 1 /\ v[n - 1] \in X /\ F[n] \in [X -> X]
    OBVIOUS
  <2>3. F[n][v[n - 1]] \in X
    BY <2>2
  <2>4. \A i \in 0 .. n : i # n => i \in 0 .. n - 1
    OBVIOUS
  <2>5. w \in [0 .. n -> X]
    BY <2>3, <2>4
  <2>6. w[0] = x
    BY <2>1
  <2>7. ASSUME NEW i \in 1 .. n PROVE w[i] = F[i][w[i - 1]]
    <3>1. i - 1 \in 0 .. n /\ i - 1 # n /\ w[i - 1] = v[i - 1]
      OBVIOUS
    <3>2. CASE i = n
      BY <3>1, <3>2
    <3>3. CASE i # n
      <4>1. i \in 1 .. n - 1 /\ w[i] = v[i]
        BY <3>3
      <4> QED
        BY <2>1, <3>1, <4>1
    <3> QED
      BY <3>2, <3>3
  <2>8. Goes(w, n)
    <3> HIDE DEF w
    <3> QED
      BY <2>6, <2>7
  <2> HIDE DEF w, Goes
  <2> QED
    BY <2>5, <2>8
<1>3. \A i \in 0 .. N : i \in S
  <2> HIDE DEF S
  <2>1. \A i \in 1 .. N : i - 1 \in S => i \in S
    BY <1>2
  <2> QED
    BY <1>1, <2>1, UpTo
<1>4. N \in 0 .. N
  OBVIOUS
<1> QED
  BY <1>3, <1>4 DEF Runs

-----------------------------------------------------------------------------
(* A text, row by row. *)
RowPrinted(s, i, n, ended, who) == IF i < n \/ ended THEN NextRow(Marked(s, who)) ELSE Marked(s, who)

LEMMA RowPrintedIs ==
  ASSUME NEW s \in Printings, NEW who \in Shown, NEW i, NEW n, NEW ended
  PROVE  RowPrinted(s, i, n, ended, who) \in Printings
  BY MarkedIs, NextRowIs DEF RowPrinted

Starting(t, r) == [t |-> t, r |-> r]

Prints(p, t, r, n, ended, who) ==
    /\ p \in [0 .. n -> Printings] /\ p[0] = Starting(t, r)
    /\ \A i \in 1 .. n : p[i] = RowPrinted(p[i - 1], i, n, ended, who)
    /\ Printed(t, r, n, ended, who) = p[n].t

LEMMA PrintedRows ==
  ASSUME NEW t \in Terminals, NEW r \in Nat, NEW n \in Nat, NEW ended, NEW who \in Shown
  PROVE  \E p : Prints(p, t, r, n, ended, who)
<1> DEFINE F == [i \in 1 .. n |-> [s \in Printings |-> RowPrinted(s, i, n, ended, who)]]
           Turns(p) == p = [i \in 0 .. n |->
                                IF i = 0 THEN [t |-> t, r |-> r]
                                ELSE IF i < n \/ ended THEN NextRow(Marked(p[i - 1], who))
                                ELSE Marked(p[i - 1], who)]
           q == CHOOSE p : Turns(p)
<1>1. F \in [1 .. n -> [Printings -> Printings]]
  BY RowPrintedIs
<1>2. Starting(t, r) \in Printings
  BY DEF Printings, Starting
<1>3. \A i \in 1 .. n, s \in Printings : F[i][s] = RowPrinted(s, i, n, ended, who)
  OBVIOUS
<1> HIDE DEF F
<1>4. PICK w : Runs(w, n, Printings, Starting(t, r), F)
  BY <1>1, <1>2, Iterates
<1>5. w \in [0 .. n -> Printings] /\ w[0] = Starting(t, r) /\ \A i \in 1 .. n : w[i] = F[i][w[i - 1]]
  BY <1>4 DEF Runs
<1>6. \A i \in 1 .. n : w[i] = RowPrinted(w[i - 1], i, n, ended, who)
  <2>1. \A i \in 1 .. n : w[i - 1] \in Printings
    BY <1>5
  <2> QED
    BY <1>3, <1>5, <2>1
<1>7. Turns(w)
  <2>1. \A i \in 0 .. n : i = 0 \/ i \in 1 .. n
    OBVIOUS
  <2>2. w = [i \in 0 .. n |-> w[i]]
    BY <1>5
  <2> QED
    BY <1>5, <1>6, <2>1, <2>2 DEF Starting, RowPrinted
<1>8. Turns(q)
  BY <1>7
<1>9. Printed(t, r, n, ended, who) = q[n].t
  BY DEF Printed
<1> HIDE DEF q
<1>10. q[0] = Starting(t, r) /\ \A i \in 1 .. n : q[i] = RowPrinted(q[i - 1], i, n, ended, who)
  BY <1>8 DEF Starting, RowPrinted
<1>11. \A i \in 0 .. n : q[i] \in Printings
  <2> DEFINE S == {i \in 0 .. n : q[i] \in Printings}
  <2>1. 0 \in S
    BY <1>2, <1>10
  <2>2. \A i \in 1 .. n : i - 1 \in S => i \in S
    BY <1>10, RowPrintedIs
  <2>3. \A i \in 0 .. n : i \in S
    <3> HIDE DEF S
    <3> QED
      BY <2>1, <2>2, UpTo
  <2> QED
    BY <2>3
<1>12. q \in [0 .. n -> Printings]
  <2>1. q = [i \in 0 .. n |-> q[i]]
    BY <1>8
  <2> QED
    BY <1>11, <2>1
<1> QED
  BY <1>9, <1>10, <1>12 DEF Prints

(* A text leaves the line, and the cursor's row unless it scrolls.         *)
Stays(t, u) == SameLine(t, u) /\ SameHistory(t, u) /\ (u.row = t.row \/ u.row = ROWS - 1)

LEMMA RowPrintedStays ==
  ASSUME NEW s \in Printings, NEW who \in Shown, NEW i, NEW n, NEW ended
  PROVE  Stays(s.t, RowPrinted(s, i, n, ended, who).t)
<1> DEFINE m == Marked(s, who)
<1>1. m \in Printings /\ Stays(s.t, m.t)
  <2>1. s.t \in Terminals /\ s.r \in Nat /\ ROWS \in Nat
    BY Screens DEF Printings
  <2>2. OnScreen(s).t.row = s.t.row \/ OnScreen(s).t.row = ROWS - 1
    BY <2>1, OnScreenIs
  <2> QED
    BY <2>2, MarkedIs DEF Stays
<1> HIDE DEF m
<1>2. Stays(s.t, NextRow(m).t)
  <2>1. m.r \in Nat /\ ROWS \in Nat
    BY <1>1, Screens DEF Printings
  <2>2. NextRow(m).t.row = m.t.row \/ NextRow(m).t.row = ROWS - 1
    BY <1>1, <2>1, NextRowIs
  <2>3. SameLine(m.t, NextRow(m).t) /\ SameHistory(m.t, NextRow(m).t)
    BY <1>1, NextRowIs
  <2> QED
    BY <1>1, <2>2, <2>3 DEF Stays, SameLine, SameHistory
<1> QED
  BY <1>1, <1>2 DEF RowPrinted, m

LEMMA PrintedStays ==
  ASSUME NEW t \in Terminals, NEW r \in Nat, NEW n \in Nat, NEW ended, NEW who \in Shown
  PROVE  Printed(t, r, n, ended, who) \in Terminals /\ Stays(t, Printed(t, r, n, ended, who))
<1>1. PICK p : Prints(p, t, r, n, ended, who)
  BY PrintedRows
<1> DEFINE S == {i \in 0 .. n : Stays(t, p[i].t)}
<1>2. \A i \in 0 .. n : p[i] \in Printings
  BY <1>1 DEF Prints
<1>3. 0 \in S
  <2>1. p[0].t = t
    BY <1>1 DEF Prints, Starting
  <2> QED
    BY <2>1 DEF Stays, SameLine, SameHistory
<1>4. ASSUME NEW i \in 1 .. n, i - 1 \in S PROVE i \in S
  <2>1. p[i] = RowPrinted(p[i - 1], i, n, ended, who) /\ p[i - 1] \in Printings
    BY <1>1, <1>2 DEF Prints
  <2>2. Stays(p[i - 1].t, p[i].t)
    BY <2>1, RowPrintedStays
  <2>3. Stays(t, p[i - 1].t)
    BY <1>4
  <2>4. Stays(t, p[i].t)
    BY <2>2, <2>3 DEF Stays, SameLine, SameHistory
  <2> QED
    BY <2>4
<1>5. \A i \in 0 .. n : i \in S
  <2> HIDE DEF S
  <2> QED
    BY <1>3, <1>4, UpTo
<1>6. n \in 0 .. n
  OBVIOUS
<1> QED
  BY <1>1, <1>2, <1>5, <1>6 DEF Printings, Prints

(* One row that is on the screen, and does not end it. *)
LEMMA RowShown ==
  ASSUME NEW t \in Terminals, NEW r \in Rows, NEW who \in Shown
  PROVE  /\ Printed(t, r, 1, FALSE, who).row = t.row
         /\ Printed(t, r, 1, FALSE, who).screen[r + 1] = who
<1> DEFINE s == Starting(t, r)
<1>0. r \in Nat /\ r < ROWS /\ r + 1 \in 1 .. ROWS
  BY Screens DEF Rows
<1>1. PICK p : Prints(p, t, r, 1, FALSE, who)
  BY <1>0, PrintedRows
<1>2. p[1] = Marked(s, who)
  <2>1. 1 \in 1 .. 1 /\ ~ (1 < 1) /\ 1 - 1 = 0
    OBVIOUS
  <2> QED
    BY <1>1, <2>1 DEF Prints, RowPrinted
<1>3. s \in Printings /\ s.t = t /\ s.r = r
  BY <1>0 DEF Printings, Starting
<1> HIDE DEF s
<1>4. OnScreen(s) = s
  BY <1>0, <1>3, OnScreenIs
<1>5. Printed(t, r, 1, FALSE, who) = p[1].t
  BY <1>1 DEF Prints
<1>6. Marked(s, who).t.row = t.row /\ Marked(s, who).t.screen[r + 1] = who
  BY <1>0, <1>3, <1>4, MarkedIs
<1> QED
  BY <1>2, <1>5, <1>6

-----------------------------------------------------------------------------
(* Nothing printed by the last command is below the row after the next, or *)
(* the cursor is in the last row. *)
OutputNear(t) == t.row >= ROWS - 1 \/ \A i \in 1 .. ROWS : t.screen[i] = "output" => i <= t.row + 2

Within(s, i) == s.t.row >= ROWS - 1 \/ (s.r <= s.t.row + i /\ OutputNear(s.t))

LEMMA RowNear ==
  ASSUME NEW s \in Printings, NEW i \in 1 .. 2, NEW n, NEW ended, Within(s, i - 1)
  PROVE  Within(RowPrinted(s, i, n, ended, "output"), i)
<1> DEFINE m == Marked(s, "output")
<1>0. /\ s.t \in Terminals /\ s.r \in Nat /\ s.t.row \in Int
      /\ ROWS \in Nat /\ ROWS > 0 /\ "output" \in Shown
  BY Screens DEF Printings, Terminals
<1>1. /\ m \in Printings /\ m.r = OnScreen(s).r /\ m.t.row = OnScreen(s).t.row
      /\ \A j \in 1 .. ROWS : m.t.screen[j] = IF j = OnScreen(s).r + 1 THEN "output" ELSE OnScreen(s).t.screen[j]
  BY <1>0, MarkedIs
<1>2. m.t.row \in Int /\ m.r \in Nat
  BY <1>1 DEF Printings, Terminals
<1>3. CASE s.r >= ROWS \/ s.t.row >= ROWS - 1
  <2>1. m.t.row >= ROWS - 1
    BY <1>0, <1>1, <1>3, OnScreenIs
  <2> HIDE DEF m
  <2>2. NextRow(m).t.row >= ROWS - 1
    BY <1>0, <1>1, <1>2, <2>1, NextRowIs
  <2> QED
    BY <2>1, <2>2 DEF RowPrinted, Within, m
<1>4. CASE ~ (s.r >= ROWS \/ s.t.row >= ROWS - 1)
  <2>1. OnScreen(s) = s /\ s.r <= s.t.row + (i - 1) /\ OutputNear(s.t)
    BY <1>0, <1>4, OnScreenIs DEF Within
  <2>2. ASSUME NEW j \in 1 .. ROWS, m.t.screen[j] = "output" PROVE j <= m.t.row + 2
    <3>1. CASE j = s.r + 1
      BY <1>0, <1>1, <2>1, <3>1
    <3>2. CASE j # s.r + 1
      BY <1>0, <1>1, <1>4, <2>1, <2>2, <3>2 DEF OutputNear
    <3> QED
      BY <3>1, <3>2
  <2>3. OutputNear(m.t) /\ m.r <= m.t.row + (i - 1)
    BY <1>1, <2>1, <2>2 DEF OutputNear
  <2> HIDE DEF m
  <2>4. Within(m, i)
    BY <1>2, <2>3 DEF Within
  <2>5. Within(NextRow(m), i)
    <3>1. CASE m.r + 1 < ROWS
      <4>1. NextRow(m).t = m.t /\ NextRow(m).r = m.r + 1
        BY <1>1, <3>1, NextRowIs
      <4> QED
        BY <1>2, <2>3, <4>1 DEF Within
    <3>2. CASE ~ (m.r + 1 < ROWS)
      <4>1. NextRow(m).t.row = ROWS - 1
        BY <1>0, <1>1, <1>2, <3>2, NextRowIs
      <4> QED
        BY <1>0, <4>1 DEF Within
    <3> QED
      BY <3>1, <3>2
  <2> QED
    BY <2>4, <2>5 DEF RowPrinted, m
<1> QED
  BY <1>3, <1>4

LEMMA ShortTextNear ==
  ASSUME NEW t \in Terminals, t.row >= 0, OutputNear(t), NEW n \in 0 .. 2, NEW ended
  PROVE  OutputNear(Printed(t, t.row, n, ended, "output"))
<1>0. n \in Nat /\ t.row \in Nat /\ "output" \in Shown
  BY Screens DEF Terminals
<1>1. PICK p : Prints(p, t, t.row, n, ended, "output")
  BY <1>0, PrintedRows
<1> DEFINE S == {i \in 0 .. n : Within(p[i], i)}
<1>2. 0 \in S
  <2>1. p[0].t = t /\ p[0].r = t.row
    BY <1>1 DEF Prints, Starting
  <2>2. Within(p[0], 0)
    BY <1>0, <2>1 DEF Within
  <2> QED
    BY <2>2
<1>3. ASSUME NEW i \in 1 .. n, i - 1 \in S PROVE i \in S
  <2>1. p[i] = RowPrinted(p[i - 1], i, n, ended, "output") /\ p[i - 1] \in Printings /\ i \in 1 .. 2
    BY <1>1 DEF Prints
  <2>2. Within(p[i], i)
    BY <1>3, <2>1, RowNear
  <2> QED
    BY <2>2
<1>4. \A i \in 0 .. n : i \in S
  <2> HIDE DEF S
  <2> QED
    BY <1>0, <1>2, <1>3, UpTo
<1>5. Within(p[n], n)
  BY <1>4
<1> QED
  BY <1>1, <1>5 DEF Within, OutputNear, Prints

-----------------------------------------------------------------------------
(* What a command prints. *)
Printouts == [move : {"down", "text"}, rows : Nat, ended : BOOLEAN]

Cursors == {t \in Terminals : t.row >= 0}

(* Nothing short of a tall text puts output out of reach of the prompt.    *)
Reachable(t) == t.tallest > 2 \/ OutputNear(t)

SameButOutput(t, u) == SameLine(t, u) /\ u.covered = t.covered /\ (Reachable(t) => Reachable(u))

LEMMA PutIs ==
  ASSUME NEW t \in Cursors, NEW s \in Printouts
  PROVE  Put(t, s) \in Cursors /\ SameButOutput(t, Put(t, s))
<1>0. t \in Terminals /\ t.row \in Int /\ t.row >= 0 /\ t.tallest \in Nat
      /\ s.rows \in Nat /\ s.ended \in BOOLEAN /\ ROWS \in Nat /\ ROWS > 0 /\ "output" \in Shown
  BY Screens DEF Cursors, Terminals, Printouts
<1>1. CASE s.move = "down"
  <2> DEFINE u == [t EXCEPT !.row = @ + 1]
  <2>1. Put(t, s) = u
    BY <1>1 DEF Put
  <2>2. u \in Terminals
    BY <1>0 DEF Terminals
  <2>3. u.row = t.row + 1 /\ u.screen = t.screen /\ SameLine(t, u) /\ SameHistory(t, u)
    BY <1>0 DEF Terminals, SameLine, SameHistory
  <2> HIDE DEF u
  <2>4. OutputNear(t) => OutputNear(u)
    BY <1>0, <2>3 DEF OutputNear
  <2>5. u \in Cursors
    BY <1>0, <2>2, <2>3 DEF Cursors
  <2> QED
    BY <2>1, <2>3, <2>4, <2>5 DEF SameButOutput, Reachable, SameHistory
<1>2. CASE s.move # "down"
  <2> DEFINE v == Printed(t, t.row, s.rows, s.ended, "output")
             n == IF s.rows > v.tallest THEN s.rows ELSE v.tallest
             u == [v EXCEPT !.tallest = n]
  <2>1. Put(t, s) = u
    BY <1>2 DEF Put
  <2>2. v \in Terminals /\ Stays(t, v)
    BY <1>0, PrintedStays
  <2>3. s.rows \in 0 .. 2 /\ OutputNear(t) => OutputNear(v)
    BY <1>0, ShortTextNear
  <2> HIDE DEF v
  <2>4. n \in Nat /\ v.tallest = t.tallest /\ n >= t.tallest /\ n >= s.rows /\ v.row >= 0
    BY <1>0, <2>2 DEF Stays, SameHistory
  <2> HIDE DEF n
  <2>5. u \in Terminals /\ u.tallest = n /\ u.row = v.row /\ u.screen = v.screen /\ SameLine(v, u) /\ u.covered = v.covered
    BY <2>2, <2>4 DEF Terminals, SameLine
  <2> HIDE DEF u
  <2>6. Reachable(t) => Reachable(u)
    <3>1. CASE n > 2
      BY <2>5, <3>1 DEF Reachable
    <3>2. CASE ~ (n > 2)
      <4>1. s.rows \in 0 .. 2 /\ ~ (t.tallest > 2)
        BY <1>0, <2>4, <3>2
      <4>2. OutputNear(v) => OutputNear(u)
        BY <2>5 DEF OutputNear
      <4> QED
        BY <2>3, <4>1, <4>2 DEF Reachable
    <3> QED
      BY <3>1, <3>2
  <2>7. SameButOutput(t, u)
    BY <2>2, <2>5, <2>6 DEF SameButOutput, Stays, SameLine, SameHistory
  <2>8. u \in Cursors
    BY <2>4, <2>5 DEF Cursors
  <2> QED
    BY <2>1, <2>7, <2>8
<1> QED
  BY <1>1, <1>2

LEMMA OutputIs ==
  ASSUME NEW t \in Cursors, NEW steps \in Seq(Printouts)
  PROVE  Output(t, steps) \in Cursors /\ SameButOutput(t, Output(t, steps))
<1> DEFINE n == Len(steps)
           F == [i \in 1 .. n |-> [u \in Cursors |-> Put(u, steps[i])]]
           Turns(p) == p = [i \in 0 .. n |-> IF i = 0 THEN t ELSE Put(p[i - 1], steps[i])]
           q == CHOOSE p : Turns(p)
<1>1. n \in Nat /\ \A i \in 1 .. n : steps[i] \in Printouts
  OBVIOUS
<1>2. F \in [1 .. n -> [Cursors -> Cursors]]
  BY <1>1, PutIs
<1>3. \A i \in 1 .. n, u \in Cursors : F[i][u] = Put(u, steps[i])
  OBVIOUS
<1>4. Output(t, steps) = q[n]
  BY DEF Output
<1> HIDE DEF F, n
<1>5. PICK w : Runs(w, n, Cursors, t, F)
  BY <1>1, <1>2, Iterates
<1>6. w \in [0 .. n -> Cursors] /\ w[0] = t /\ \A i \in 1 .. n : w[i] = F[i][w[i - 1]]
  BY <1>5 DEF Runs
<1>7. Turns(w)
  <2>1. \A i \in 0 .. n : i = 0 \/ i \in 1 .. n
    BY <1>1
  <2>2. \A i \in 1 .. n : w[i - 1] \in Cursors
    BY <1>1, <1>6
  <2>3. \A i \in 1 .. n : w[i] = Put(w[i - 1], steps[i])
    BY <1>3, <1>6, <2>2
  <2>4. w = [i \in 0 .. n |-> w[i]]
    BY <1>6
  <2> QED
    BY <1>6, <2>1, <2>3, <2>4
<1>8. Turns(q)
  BY <1>7
<1> HIDE DEF q
<1>9. q[0] = t /\ \A i \in 1 .. n : q[i] = Put(q[i - 1], steps[i])
  BY <1>1, <1>8
<1> DEFINE S == {i \in 0 .. n : q[i] \in Cursors /\ SameButOutput(t, q[i])}
<1>10. 0 \in S
  BY <1>1, <1>9 DEF SameButOutput, SameLine
<1>11. ASSUME NEW i \in 1 .. n, i - 1 \in S PROVE i \in S
  <2>1. q[i] = Put(q[i - 1], steps[i]) /\ steps[i] \in Printouts /\ q[i - 1] \in Cursors
    BY <1>1, <1>9, <1>11
  <2>2. q[i] \in Cursors /\ SameButOutput(q[i - 1], q[i])
    BY <2>1, PutIs
  <2>3. SameButOutput(t, q[i])
    BY <1>11, <2>2 DEF SameButOutput, SameLine
  <2> QED
    BY <1>1, <2>2, <2>3
<1>12. \A i \in 0 .. n : i \in S
  <2> HIDE DEF S
  <2> QED
    BY <1>1, <1>10, <1>11, UpTo
<1>13. n \in 0 .. n
  BY <1>1
<1> QED
  BY <1>4, <1>12, <1>13

-----------------------------------------------------------------------------
(* The prompt. *)
LEMMA Quotients ==
  ASSUME NEW a \in Nat
  PROVE  /\ a \div COLUMNS \in Nat
         /\ a < COLUMNS => a \div COLUMNS = 0 /\ a % COLUMNS = a
<1>1. COLUMNS \in Nat /\ COLUMNS > 0
  BY Screens
<1>2. a \div COLUMNS \in Nat
  BY <1>1
<1>3. ASSUME a < COLUMNS PROVE a \div COLUMNS = 0 /\ a % COLUMNS = a
  BY <1>1, <1>3
<1> QED
  BY <1>2, <1>3

OnRow(t) == t \in Terminals /\ t.row \in Rows

LEMMA PrintedCellsIs ==
  ASSUME NEW t, OnRow(t), NEW c \in Nat, NEW n \in Nat, n > 0
  PROVE  /\ OnRow(PrintedCells(t, c, n))
         /\ SameLine(t, PrintedCells(t, c, n)) /\ SameHistory(t, PrintedCells(t, c, n))
         /\ c + n < COLUMNS => PrintedCells(t, c, n).screen[PrintedCells(t, c, n).row + 1] = "line"
<1> DEFINE u == PrintedCells(t, c, n)
<1>0. /\ t \in Terminals /\ t.row \in Nat /\ t.row \in Rows /\ COLUMNS \in Nat /\ COLUMNS > 6
      /\ ROWS \in Nat /\ ROWS > 0 /\ ROWS - 1 \in Rows /\ "line" \in Shown
  BY Screens DEF OnRow, Rows
<1>1. u \in Terminals /\ Stays(t, u)
  <2>1. CASE c >= COLUMNS
    <3> DEFINE s == Starting(t, t.row)
    <3>1. s \in Printings /\ s.t = t /\ s.r = t.row
      BY <1>0 DEF Printings, Starting
    <3>2. u = NextRow(s).t
      BY <2>1 DEF PrintedCells, Starting
    <3> HIDE DEF s, u
    <3>3. NextRow(s) \in Printings /\ SameLine(t, u) /\ SameHistory(t, u)
      BY <3>1, <3>2, NextRowIs
    <3>4. u.row = t.row \/ u.row = ROWS - 1
      BY <1>0, <3>1, <3>2, NextRowIs
    <3> QED
      BY <3>2, <3>3, <3>4 DEF Stays, Printings
  <2>2. CASE ~ (c >= COLUMNS)
    <3> DEFINE k == 1 + (c + n - 1) \div COLUMNS
               e == (c + n) % COLUMNS = 0
    <3>1. c + n - 1 \in Nat
      OBVIOUS
    <3>2. k \in Nat
      BY <3>1, Quotients
    <3>3. u = Printed(t, t.row, k, e, "line")
      BY <2>2 DEF PrintedCells
    <3> HIDE DEF k, e, u
    <3> QED
      BY <1>0, <3>2, <3>3, PrintedStays
  <2> QED
    BY <2>1, <2>2
<1>2. ASSUME c + n < COLUMNS PROVE u.screen[u.row + 1] = "line"
  <2>1. c + n - 1 \in Nat /\ c + n \in Nat /\ c + n - 1 < COLUMNS /\ c + n # 0 /\ ~ (c >= COLUMNS)
    BY <1>0, <1>2
  <2>2. (c + n - 1) \div COLUMNS = 0 /\ (c + n) % COLUMNS = c + n
    BY <1>2, <2>1, Quotients
  <2> DEFINE k == 1 + (c + n - 1) \div COLUMNS
             e == (c + n) % COLUMNS = 0
  <2>3. k = 1 /\ e = FALSE
    BY <2>1, <2>2
  <2>4. u = Printed(t, t.row, k, e, "line")
    BY <2>1 DEF PrintedCells
  <2> HIDE DEF u, k, e
  <2>5. u = Printed(t, t.row, 1, FALSE, "line")
    BY <2>3, <2>4
  <2>6. u.row = t.row /\ u.screen[t.row + 1] = "line"
    BY <1>0, <2>5, RowShown
  <2> QED
    BY <2>6
<1> QED
  BY <1>0, <1>1, <1>2 DEF OnRow, Stays

(* Where the next character goes. *)
Editor(t) == OnRow(t) /\ t.col \in 0 .. COLUMNS - 1

LEMMA CursorUpdatedIs ==
  ASSUME NEW t, OnRow(t), t.col \in Nat
  PROVE  /\ Editor(CursorUpdated(t))
         /\ CursorUpdated(t).len = t.len /\ SameHistory(t, CursorUpdated(t))
         /\ t.col < COLUMNS => CursorUpdated(t) = t
<1>0. /\ t \in Terminals /\ t.row \in Int /\ t.row \in Rows /\ t.row < ROWS /\ t.row >= 0
      /\ ROWS \in Nat /\ ROWS > 0 /\ COLUMNS \in Nat /\ COLUMNS > 6
  BY Screens DEF OnRow, Rows
<1> DEFINE v == [t EXCEPT !.col = 0, !.row = @ + 1]
<1>1. CursorUpdated(t) = IF t.col < COLUMNS THEN t ELSE IF v.row >= ROWS THEN Scrolled(v) ELSE v
  <2>1. ~ (t.row >= ROWS)
    BY <1>0
  <2> QED
    BY <2>1 DEF CursorUpdated
<1>2. v \in Terminals
  <2>1. t.row + 1 \in Int /\ 0 \in Int
    BY <1>0
  <2>2. \A r, c \in Int : [t EXCEPT !.col = c, !.row = r] \in Terminals
    BY <1>0 DEF Terminals
  <2> QED
    BY <2>1, <2>2
<1>3. v.row = t.row + 1 /\ v.col = 0 /\ v.len = t.len /\ SameHistory(t, v)
  BY <1>0 DEF Terminals, SameHistory
<1> HIDE DEF v
<1>4. CASE t.col < COLUMNS
  BY <1>0, <1>1, <1>4 DEF Editor, SameHistory, OnRow
<1>5. CASE ~ (t.col < COLUMNS) /\ v.row >= ROWS
  <2>1. CursorUpdated(t) = Scrolled(v)
    BY <1>1, <1>5
  <2>2. /\ Scrolled(v) \in Terminals /\ SameLine(v, Scrolled(v)) /\ SameHistory(v, Scrolled(v))
        /\ Scrolled(v).row = ROWS - 1
    BY <1>2, ScrolledIs
  <2>3. ROWS - 1 \in Rows /\ 0 \in 0 .. COLUMNS - 1
    BY <1>0 DEF Rows
  <2> QED
    BY <1>3, <1>5, <2>1, <2>2, <2>3 DEF Editor, SameHistory, SameLine, OnRow
<1>6. CASE ~ (t.col < COLUMNS) /\ ~ (v.row >= ROWS)
  <2>1. v.row \in Rows /\ 0 \in 0 .. COLUMNS - 1
    BY <1>0, <1>3, <1>6 DEF Rows
  <2> QED
    BY <1>1, <1>2, <1>3, <1>6, <2>1 DEF Editor, OnRow
<1> QED
  BY <1>4, <1>5, <1>6

(* How the prompt leaves the editor: after the prompt, on the prompt's row *)
(* if that has room; it covers output only on the second row after t's.    *)
Prompted(t, u, dir_length) ==
    /\ Editor(u) /\ u.len = t.len /\ u.tallest = t.tallest /\ u.covered \in BOOLEAN
    /\ u.covered => t.row + 1 < ROWS /\ t.screen[t.row + 2] = "output"
    /\ 6 + dir_length < COLUMNS => u.col = 6 + dir_length /\ u.screen[u.row + 1] = "line"

LEMMA PromptIs ==
  ASSUME NEW t \in Terminals, t.row >= -1, NEW dir_length \in Nat, dir_length > 0
  PROVE  Prompted(t, Prompt(t, dir_length), dir_length)
<1> DEFINE down == [t EXCEPT !.row = @ + 1]
           u    == IF down.row >= ROWS THEN Scrolled(down) ELSE down
           v0   == PrintedCells(u, 0, 5)
           v    == PrintedCells(v0, 5, dir_length)
           w    == PrintedCells(v, 5 + dir_length, 1)
           hid  == u.screen[u.row + 1] = "output"
           x    == [w EXCEPT !.col = 6 + dir_length, !.covered = hid]
<1>0. /\ t.row \in Int /\ ROWS \in Nat /\ ROWS > 0 /\ COLUMNS \in Nat /\ COLUMNS > 6
      /\ 5 + dir_length \in Nat /\ 6 + dir_length \in Nat /\ 0 + 5 \in Nat
  BY Screens DEF Terminals
<1>1. Prompt(t, dir_length) = CursorUpdated(x)
  BY DEF Prompt
<1>2. down \in Terminals /\ down.row = t.row + 1 /\ down.screen = t.screen /\ SameLine(t, down) /\ SameHistory(t, down)
  <2>1. \A r \in Int : [t EXCEPT !.row = r] \in Terminals
    BY DEF Terminals
  <2>2. t.row + 1 \in Int
    BY <1>0
  <2> QED
    BY <1>0, <2>1, <2>2 DEF Terminals, SameLine, SameHistory
<1> HIDE DEF down
<1>3. OnRow(u) /\ SameLine(t, u) /\ SameHistory(t, u) /\ (hid => t.row + 1 < ROWS /\ t.screen[t.row + 2] = "output")
  <2>1. CASE down.row >= ROWS
    <3>1. u = Scrolled(down)
      BY <2>1
    <3>2. /\ Scrolled(down) \in Terminals /\ SameLine(down, Scrolled(down)) /\ SameHistory(down, Scrolled(down))
          /\ Scrolled(down).row = ROWS - 1
          /\ \A i \in 1 .. ROWS : Scrolled(down).screen[i] = IF i < ROWS THEN down.screen[i + 1] ELSE "blank"
      BY <1>2, ScrolledIs
    <3>3. ROWS \in 1 .. ROWS /\ ROWS - 1 + 1 = ROWS /\ ~ (ROWS < ROWS) /\ ROWS - 1 \in Rows
      BY <1>0 DEF Rows
    <3>4. Scrolled(down).screen[ROWS] = "blank"
      BY <3>2, <3>3
    <3> QED
      BY <1>2, <3>1, <3>2, <3>3, <3>4 DEF OnRow, SameLine, SameHistory
  <2>2. CASE ~ (down.row >= ROWS)
    <3>1. u = down
      BY <2>2
    <3>2. down.row \in Rows /\ t.row + 1 < ROWS /\ down.row + 1 = t.row + 2
      BY <1>0, <1>2, <2>2 DEF Rows
    <3> QED
      BY <1>2, <3>1, <3>2 DEF OnRow
  <2> QED
    BY <2>1, <2>2
<1> HIDE DEF u
<1>4. OnRow(v0) /\ SameLine(u, v0) /\ SameHistory(u, v0)
  <2>1. 0 \in Nat /\ 5 \in Nat /\ 5 > 0 /\ OnRow(u)
    BY <1>3
  <2> HIDE DEF v, w, hid, x
  <2> QED
    BY <2>1, PrintedCellsIs
<1> HIDE DEF v0
<1>5. OnRow(v) /\ SameLine(v0, v) /\ SameHistory(v0, v)
  BY <1>0, <1>4, PrintedCellsIs
<1> HIDE DEF v
<1>6. OnRow(w) /\ SameLine(v, w) /\ SameHistory(v, w)
  BY <1>0, <1>5, PrintedCellsIs
<1>7. 6 + dir_length < COLUMNS => w.screen[w.row + 1] = "line"
  BY <1>0, <1>5, PrintedCellsIs
<1> HIDE DEF w
<1>8. hid \in BOOLEAN
  OBVIOUS
<1> HIDE DEF hid
<1>9. OnRow(x) /\ x.col = 6 + dir_length /\ x.len = t.len /\ x.tallest = t.tallest /\ x.covered = hid
      /\ x.row = w.row /\ x.screen = w.screen
  <2>1. w \in Terminals /\ w.len = t.len /\ w.tallest = t.tallest
    BY <1>3, <1>4, <1>5, <1>6 DEF OnRow, SameLine, SameHistory
  <2>2. \A c \in Int, b \in BOOLEAN : [w EXCEPT !.col = c, !.covered = b] \in Terminals
    BY <2>1 DEF Terminals
  <2>3. x \in Terminals
    <3> DEFINE c == 6 + dir_length
    <3>1. c \in Int
      BY <1>0
    <3>2. x = [w EXCEPT !.col = c, !.covered = hid]
      OBVIOUS
    <3> HIDE DEF c, x
    <3>3. [w EXCEPT !.col = c, !.covered = hid] \in Terminals
      BY <1>8, <2>2, <3>1
    <3> QED
      BY <3>2, <3>3
  <2>4. x.col = 6 + dir_length /\ x.covered = hid /\ x.len = w.len /\ x.tallest = w.tallest
        /\ x.row = w.row /\ x.screen = w.screen
    BY <2>1 DEF Terminals
  <2> QED
    BY <1>6, <2>1, <2>3, <2>4 DEF OnRow
<1> HIDE DEF x
<1>10. Editor(CursorUpdated(x)) /\ CursorUpdated(x).len = x.len /\ SameHistory(x, CursorUpdated(x))
       /\ (x.col < COLUMNS => CursorUpdated(x) = x)
  BY <1>0, <1>9, CursorUpdatedIs
<1> QED
  BY <1>1, <1>3, <1>7, <1>8, <1>9, <1>10 DEF Prompted, SameHistory

-----------------------------------------------------------------------------
(* The line editor. *)
EditorOK(t, dir_length) ==
    /\ Editor(t)
    /\ t.len \in 0 .. MAX_COMMAND_LENGTH - 1
    /\ t.covered => t.tallest > 2
    /\ 6 + dir_length < COLUMNS => t.col = 6 + dir_length + t.len /\ t.screen[t.row + 1] = "line"

LEMMA AgedIs ==
  ASSUME NEW t \in Terminals
  PROVE  /\ Aged(t) \in Terminals /\ Aged(t).row = t.row /\ Aged(t).len = t.len
         /\ \A i \in 1 .. ROWS : Aged(t).screen[i] # "output"
<1> DEFINE s == ReplaceAll(t.screen, "output", "old")
<1>0. ROWS \in Nat /\ "old" \in Shown
  BY Screens
<1>1. t.screen \in [1 .. ROWS -> Shown] /\ Len(t.screen) = ROWS
  BY <1>0 DEF Terminals, Pictures
<1>2. s = [i \in 1 .. ROWS |-> IF t.screen[i] = "output" THEN "old" ELSE t.screen[i]]
  BY <1>1 DEF ReplaceAll
<1>3. s \in Pictures /\ \A i \in 1 .. ROWS : s[i] # "output"
  BY <1>0, <1>1, <1>2 DEF Pictures
<1>4. Aged(t) = [t EXCEPT !.screen = s, !.tallest = 0]
  BY DEF Aged
<1> HIDE DEF s
<1>5. \A p \in Pictures : [t EXCEPT !.screen = p, !.tallest = 0] \in Terminals
  BY DEF Terminals
<1>6. Aged(t).screen = s /\ Aged(t).row = t.row /\ Aged(t).len = t.len
  BY <1>4 DEF Terminals
<1> QED
  BY <1>3, <1>4, <1>5, <1>6

LEMMA ClearedIs ==
  ASSUME NEW t \in Terminals
  PROVE  /\ Cleared(t) \in Terminals /\ Cleared(t).row = -2
         /\ \A i \in 1 .. ROWS : Cleared(t).screen[i] = "blank"
<1> DEFINE s == [i \in 1 .. ROWS |-> "blank"]
<1>1. s \in Pictures /\ \A i \in 1 .. ROWS : s[i] = "blank"
  BY Screens DEF Pictures
<1>2. Cleared(t) = [t EXCEPT !.screen = s, !.row = -2, !.col = 0]
  BY DEF Cleared
<1> HIDE DEF s
<1>3. Cleared(t) \in Terminals
  <2>1. [t EXCEPT !.screen = s, !.row = -2] \in Terminals
    <3>1. \A p \in Pictures, r \in Int : [t EXCEPT !.screen = p, !.row = r] \in Terminals
      BY DEF Terminals
    <3>2. -2 \in Int
      OBVIOUS
    <3> QED
      BY <1>1, <3>1, <3>2
  <2>2. \A u \in Terminals : [u EXCEPT !.col = 0] \in Terminals
    BY DEF Terminals
  <2>3. [[t EXCEPT !.screen = s, !.row = -2] EXCEPT !.col = 0] \in Terminals
    BY <2>1, <2>2
  <2>4. Cleared(t) = [[t EXCEPT !.screen = s, !.row = -2] EXCEPT !.col = 0]
    BY <1>2
  <2> QED
    BY <2>3, <2>4
<1>4. Cleared(t).screen = s /\ Cleared(t).row = -2
  BY <1>2 DEF Terminals
<1> QED
  BY <1>1, <1>2, <1>3, <1>4

LEMMA NextPromptIs ==
  ASSUME NEW t \in Terminals, t.row >= -2, Reachable(t), NEW dir_length \in Nat, dir_length > 0
  PROVE  EditorOK(NextPrompt(t, dir_length), dir_length)
<1> DEFINE v == [t EXCEPT !.row = @ + 1, !.col = 0, !.len = 0]
           u == NextPrompt(t, dir_length)
<1>0. t.row \in Int /\ t.tallest \in Nat /\ ROWS \in Nat /\ MAX_COMMAND_LENGTH \in Nat /\ MAX_COMMAND_LENGTH > 0
  BY Screens DEF Terminals
<1>1. v \in Terminals /\ v.row = t.row + 1 /\ v.len = 0 /\ v.screen = t.screen /\ v.tallest = t.tallest
  <2>1. [t EXCEPT !.row = t.row + 1, !.col = 0] \in Terminals
    <3>1. \A r, c \in Int : [t EXCEPT !.row = r, !.col = c] \in Terminals
      BY DEF Terminals
    <3>2. t.row + 1 \in Int /\ 0 \in Int
      BY <1>0
    <3> QED
      BY <3>1, <3>2
  <2>2. \A x \in Terminals : [x EXCEPT !.len = 0] \in Terminals
    BY DEF Terminals
  <2>3. [[t EXCEPT !.row = t.row + 1, !.col = 0] EXCEPT !.len = 0] \in Terminals
    BY <2>1, <2>2
  <2>4. v = [[t EXCEPT !.row = t.row + 1, !.col = 0] EXCEPT !.len = 0]
    OBVIOUS
  <2>5. v.row = t.row + 1 /\ v.len = 0 /\ v.screen = t.screen /\ v.tallest = t.tallest
    BY <1>0 DEF Terminals
  <2> QED
    BY <2>3, <2>4, <2>5
<1>2. u = Prompt(v, dir_length)
  BY DEF NextPrompt
<1> HIDE DEF v, u
<1>3. Prompted(v, u, dir_length)
  BY <1>0, <1>1, <1>2, PromptIs
<1>4. u.covered => u.tallest > 2
  <2> SUFFICES ASSUME u.covered PROVE t.tallest > 2
    BY <1>1, <1>3 DEF Prompted
  <2>1. t.row + 2 < ROWS /\ t.screen[t.row + 3] = "output"
    BY <1>0, <1>1, <1>3 DEF Prompted
  <2>2. t.row + 3 \in 1 .. ROWS /\ ~ (t.row + 3 <= t.row + 2) /\ ~ (t.row >= ROWS - 1)
    BY <1>0, <2>1
  <2> QED
    BY <2>1, <2>2 DEF Reachable, OutputNear
<1>5. u.len = 0 /\ u.len \in 0 .. MAX_COMMAND_LENGTH - 1
  BY <1>0, <1>1, <1>3 DEF Prompted
<1>6. 6 + dir_length + 0 = 6 + dir_length
  OBVIOUS
<1> QED
  BY <1>3, <1>4, <1>5, <1>6 DEF EditorOK, Prompted, u

LEMMA FirstPrompt ==
  ASSUME NEW dir_length \in Nat, dir_length > 0
  PROVE  EditorOK(Prompt(BootScreen, dir_length), dir_length)
<1> DEFINE t == BootScreen
           u == Prompt(t, dir_length)
<1>0. ShellRow \in Int /\ ShellRow >= 0 /\ ROWS \in Nat /\ MAX_COMMAND_LENGTH \in Nat /\ MAX_COMMAND_LENGTH > 0
  BY TerminalAssumption
<1>1. t.screen \in Pictures /\ \A i \in 1 .. ROWS : t.screen[i] # "output"
  BY Screens DEF BootScreen, Pictures
<1>2. t.row = ShellRow /\ t.len = 0 /\ t.tallest = 0
  BY DEF BootScreen
<1>3. t \in Terminals
  <2>1. \A p \in Pictures, r \in Int :
           [row |-> r, col |-> 0, len |-> 0, screen |-> p, covered |-> FALSE, tallest |-> 0] \in Terminals
    BY DEF Terminals
  <2>2. t = [row |-> ShellRow, col |-> 0, len |-> 0, screen |-> t.screen, covered |-> FALSE, tallest |-> 0]
    BY DEF BootScreen
  <2> QED
    BY <1>0, <1>1, <2>1, <2>2
<1> HIDE DEF t
<1>4. Prompted(t, u, dir_length)
  BY <1>0, <1>2, <1>3, PromptIs
<1> HIDE DEF u
<1>5. ~ u.covered
  <2> SUFFICES ASSUME u.covered PROVE FALSE
    OBVIOUS
  <2>1. t.row + 1 < ROWS /\ t.screen[t.row + 2] = "output"
    BY <1>4 DEF Prompted
  <2>2. t.row + 2 \in 1 .. ROWS
    BY <1>0, <1>2, <2>1
  <2> QED
    BY <1>1, <2>1, <2>2
<1>6. u.len = 0 /\ u.len \in 0 .. MAX_COMMAND_LENGTH - 1
  BY <1>0, <1>2, <1>4 DEF Prompted
<1>7. 6 + dir_length + 0 = 6 + dir_length
  OBVIOUS
<1> QED
  BY <1>4, <1>5, <1>6, <1>7 DEF EditorOK, Prompted, u, t

(* One more or one less: the cursor moves with the buffer. *)
LEMMA OneOver ==
  ASSUME NEW t, NEW dir_length \in Nat, EditorOK(t, dir_length), NEW d \in {-1, 1},
         t.len + d \in 0 .. MAX_COMMAND_LENGTH - 1, t.col + d \in 0 .. COLUMNS - 1
  PROVE  EditorOK(CursorUpdated([t EXCEPT !.len = t.len + d, !.col = t.col + d]), dir_length)
<1> DEFINE l == t.len + d
           c == t.col + d
           u == [t EXCEPT !.len = l, !.col = c]
<1>0. /\ t \in Terminals /\ t.len \in Int /\ t.col \in Int /\ COLUMNS \in Nat /\ OnRow(t)
      /\ l \in Int /\ c \in Int /\ c \in Nat /\ c < COLUMNS
  BY Screens DEF EditorOK, Editor, OnRow
<1>1. 6 + dir_length < COLUMNS => c = 6 + dir_length + l /\ t.screen[t.row + 1] = "line"
  BY <1>0 DEF EditorOK
<1>2. l \in 0 .. MAX_COMMAND_LENGTH - 1 /\ c \in 0 .. COLUMNS - 1
  OBVIOUS
<1> HIDE DEF l, c
<1>3. u \in Terminals
  <2>1. \A a, b \in Int : [t EXCEPT !.len = a, !.col = b] \in Terminals
    BY <1>0 DEF Terminals
  <2> QED
    BY <1>0, <2>1
<1>4. u.len = l /\ u.col = c /\ u.row = t.row /\ u.screen = t.screen /\ u.covered = t.covered /\ u.tallest = t.tallest
  BY <1>0 DEF Terminals
<1>5. u = [t EXCEPT !.len = t.len + d, !.col = t.col + d]
  BY DEF l, c
<1> HIDE DEF u
<1>6. OnRow(u)
  BY <1>0, <1>3, <1>4 DEF OnRow
<1>7. CursorUpdated(u) = u
  BY <1>0, <1>4, <1>6, CursorUpdatedIs
<1>8. EditorOK(u, dir_length)
  BY <1>1, <1>2, <1>4, <1>6 DEF EditorOK, Editor
<1> QED
  BY <1>5, <1>7, <1>8

LEMMA NotMoved ==
  ASSUME NEW t, NEW dir_length \in Nat, EditorOK(t, dir_length)
  PROVE  EditorOK(CursorUpdated(t), dir_length)
<1>1. OnRow(t) /\ t.col \in Nat /\ t.col < COLUMNS
  BY Screens DEF EditorOK, Editor
<1> QED
  BY <1>1, CursorUpdatedIs

LEMMA TypedIs ==
  ASSUME NEW t, NEW dir_length \in Nat, EditorOK(t, dir_length)
  PROVE  EditorOK(Typed(t), dir_length)
<1>0. /\ t.len \in Nat /\ t.col \in Nat /\ MAX_COMMAND_LENGTH \in Nat /\ COLUMNS \in Nat
  BY Screens DEF EditorOK, Editor
<1>1. CASE t.len < MAX_COMMAND_LENGTH - 1 /\ t.col < COLUMNS - 1
  <2>1. Typed(t) = CursorUpdated([t EXCEPT !.len = t.len + 1, !.col = t.col + 1])
    BY <1>1 DEF Typed
  <2>2. t.len + 1 \in 0 .. MAX_COMMAND_LENGTH - 1 /\ t.col + 1 \in 0 .. COLUMNS - 1 /\ 1 \in {-1, 1}
    BY <1>0, <1>1
  <2> QED
    BY <2>1, <2>2, OneOver
<1>2. CASE ~ (t.len < MAX_COMMAND_LENGTH - 1 /\ t.col < COLUMNS - 1)
  BY <1>2, NotMoved DEF Typed
<1> QED
  BY <1>1, <1>2

(* A backspace that is not ignored finds a character: where the prompt     *)
(* leaves no room the cursor is left of where one is taken. *)
LEMMA ErasedIs ==
  ASSUME NEW t, NEW dir_length \in Nat, EditorOK(t, dir_length)
  PROVE  EditorOK(Erased(t, dir_length), dir_length)
<1>0. /\ t.len \in Nat /\ t.len < MAX_COMMAND_LENGTH /\ t.col \in Nat /\ t.col < COLUMNS
      /\ MAX_COMMAND_LENGTH \in Nat /\ COLUMNS \in Nat
  BY Screens DEF EditorOK, Editor
<1>1. CASE t.col > PromptLength(dir_length) - 1
  <2>1. Erased(t, dir_length) = CursorUpdated([t EXCEPT !.len = t.len - 1, !.col = t.col - 1])
    BY <1>1 DEF Erased
  <2>2. t.col > 6 + dir_length + 1
    BY <1>0, <1>1 DEF PromptLength
  <2>3. t.col = 6 + dir_length + t.len
    BY <1>0, <2>2 DEF EditorOK
  <2>4. t.len + (-1) \in 0 .. MAX_COMMAND_LENGTH - 1 /\ t.col + (-1) \in 0 .. COLUMNS - 1 /\ -1 \in {-1, 1}
    BY <1>0, <2>2, <2>3
  <2>5. t.len + (-1) = t.len - 1 /\ t.col + (-1) = t.col - 1
    BY <1>0
  <2>6. EditorOK(CursorUpdated([t EXCEPT !.len = t.len + (-1), !.col = t.col + (-1)]), dir_length)
    BY <2>4, OneOver
  <2> QED
    BY <2>1, <2>5, <2>6
<1>2. CASE ~ (t.col > PromptLength(dir_length) - 1)
  BY <1>2, NotMoved DEF Erased
<1> QED
  BY <1>1, <1>2

-----------------------------------------------------------------------------
(* Paths as they are typed: parts of which some may be empty. *)
Typings == Seq(Names \cup {NoName})

Keep(x, part) == IF part = NoName THEN x ELSE Append(x, part)

Cleans(w, parts) ==
    /\ w \in [0 .. Len(parts) -> Seq(Names)] /\ w[0] = <<>>
    /\ \A i \in 1 .. Len(parts) : w[i] = Keep(w[i - 1], parts[i])
    /\ Clean(parts) = w[Len(parts)]

LEMMA KeepIs ==
  ASSUME NEW x \in Seq(Names), NEW part \in Names \cup {NoName}
  PROVE  Keep(x, part) \in Seq(Names)
  BY DEF Keep

LEMMA CleanSteps ==
  ASSUME NEW parts \in Typings
  PROVE  \E w : Cleans(w, parts)
<1> DEFINE n == Len(parts)
           X == Seq(Names)
           F == [i \in 1 .. n |-> [x \in X |-> Keep(x, parts[i])]]
           Turns(p) == p = [i \in 0 .. n |-> IF i = 0 THEN <<>>
                                             ELSE IF parts[i] = NoName THEN p[i - 1] ELSE Append(p[i - 1], parts[i])]
           q == CHOOSE p : Turns(p)
<1>1. n \in Nat /\ \A i \in 1 .. n : parts[i] \in Names \cup {NoName}
  BY DEF Typings
<1>2. F \in [1 .. n -> [X -> X]]
  BY <1>1, KeepIs
<1>3. \A i \in 1 .. n, x \in X : F[i][x] = Keep(x, parts[i])
  OBVIOUS
<1>4. Clean(parts) = q[n]
  BY DEF Clean
<1>5. <<>> \in X
  OBVIOUS
<1> HIDE DEF F, n, X
<1>6. PICK w : Runs(w, n, X, <<>>, F)
  BY <1>1, <1>2, <1>5, Iterates
<1>7. w \in [0 .. n -> X] /\ w[0] = <<>> /\ \A i \in 1 .. n : w[i] = F[i][w[i - 1]]
  BY <1>6 DEF Runs
<1>8. Turns(w)
  <2>1. \A i \in 0 .. n : i = 0 \/ i \in 1 .. n
    BY <1>1
  <2>2. \A i \in 1 .. n : w[i - 1] \in X
    BY <1>1, <1>7
  <2>3. \A i \in 1 .. n : w[i] = Keep(w[i - 1], parts[i])
    BY <1>3, <1>7, <2>2
  <2>4. w = [i \in 0 .. n |-> w[i]]
    BY <1>7
  <2> QED
    BY <1>7, <2>1, <2>3, <2>4 DEF Keep
<1>9. Turns(q)
  BY <1>8
<1> HIDE DEF q
<1>10. q[0] = <<>> /\ \A i \in 1 .. n : q[i] = Keep(q[i - 1], parts[i])
  <2>1. q = [i \in 0 .. n |-> IF i = 0 THEN <<>> ELSE Keep(q[i - 1], parts[i])]
    BY <1>9 DEF Keep
  <2> HIDE DEF Turns
  <2> QED
    BY <1>1, <2>1
<1> DEFINE S == {i \in 0 .. n : q[i] \in X}
<1>11. 0 \in S
  BY <1>1, <1>5, <1>10
<1>12. ASSUME NEW i \in 1 .. n, i - 1 \in S PROVE i \in S
  <2>1. q[i] = Keep(q[i - 1], parts[i]) /\ q[i - 1] \in X /\ parts[i] \in Names \cup {NoName}
    BY <1>1, <1>10, <1>12
  <2>2. q[i] \in X
    BY <2>1, KeepIs DEF X
  <2> QED
    BY <1>1, <2>2
<1>13. \A i \in 0 .. n : i \in S
  <2> HIDE DEF S
  <2> QED
    BY <1>1, <1>11, <1>12, UpTo
<1>14. q \in [0 .. n -> X]
  <2>1. q = [i \in 0 .. n |-> q[i]]
    BY <1>9
  <2> QED
    BY <1>13, <2>1
<1>15. Cleans(q, parts)
  BY <1>4, <1>10, <1>14 DEF Cleans, n, X
<1> QED
  BY <1>15

LEMMA CleanIs ==
  ASSUME NEW parts \in Typings
  PROVE  /\ Clean(parts) \in Seq(Names)
         /\ parts = <<>> => Clean(parts) = <<>>
<1>1. PICK w : Cleans(w, parts)
  BY CleanSteps
<1>2. Len(parts) \in Nat /\ (parts = <<>> => Len(parts) = 0)
  BY DEF Typings
<1> QED
  BY <1>1, <1>2 DEF Cleans

(* Cut at its last slash, a path loses its last part or an empty one.      *)
LEMMA CleanFront ==
  ASSUME NEW parts \in Typings, parts # <<>>
  PROVE  /\ Front(parts) \in Typings
         /\ Clean(Front(parts)) = Clean(parts)
            \/ (Clean(parts) # <<>> /\ Clean(Front(parts)) = Front(Clean(parts)))
<1> DEFINE n == Len(parts)
           cut == Front(parts)
<1>1. cut \in Typings /\ n \in Nat \ {0} /\ Len(cut) = n - 1 /\ \A i \in 1 .. n - 1 : cut[i] = parts[i]
  BY Parts DEF Typings
<1> HIDE DEF cut
<1>2. PICK w : Cleans(w, parts)
  BY CleanSteps
<1>3. PICK v : Cleans(v, cut)
  BY <1>1, CleanSteps
<1> DEFINE S == {i \in 0 .. n - 1 : v[i] = w[i]}
<1>4. 0 \in S
  BY <1>1, <1>2, <1>3 DEF Cleans
<1>5. ASSUME NEW i \in 1 .. n - 1, i - 1 \in S PROVE i \in S
  <2>1. v[i] = Keep(v[i - 1], cut[i]) /\ w[i] = Keep(w[i - 1], parts[i])
    BY <1>1, <1>2, <1>3 DEF Cleans
  <2>2. v[i - 1] = w[i - 1] /\ cut[i] = parts[i] /\ i \in 0 .. n - 1
    BY <1>1, <1>5
  <2> QED
    BY <2>1, <2>2
<1>6. \A i \in 0 .. n - 1 : i \in S
  <2>1. n - 1 \in Nat
    BY <1>1
  <2> HIDE DEF S, n
  <2> QED
    BY <1>4, <1>5, <2>1, UpTo
<1>7. Clean(cut) = w[n - 1] /\ w[n - 1] \in Seq(Names) /\ Clean(parts) = Keep(w[n - 1], parts[n])
  <2>1. n - 1 \in 0 .. n - 1 /\ n \in 1 .. n /\ n - 1 \in 0 .. n
    BY <1>1
  <2>2. v[n - 1] = w[n - 1]
    BY <1>6, <2>1
  <2>3. Clean(cut) = v[n - 1] /\ Clean(parts) = w[n] /\ w[n] = Keep(w[n - 1], parts[n]) /\ w[n - 1] \in Seq(Names)
    BY <1>1, <1>2, <1>3, <2>1 DEF Cleans
  <2> QED
    BY <2>2, <2>3
<1>8. parts[n] \in Names \cup {NoName}
  BY <1>1 DEF Typings
<1> DEFINE x == w[n - 1]
           e == parts[n]
<1> HIDE DEF x, e
<1>9. ASSUME e # NoName PROVE Append(x, e) # <<>> /\ Front(Append(x, e)) = x
  <2>1. x \in Seq(Names) /\ e \in Names
    BY <1>7, <1>8, <1>9 DEF x, e
  <2> DEFINE y == Append(x, e)
  <2>2. y \in Seq(Names) /\ Len(y) = Len(x) + 1 /\ Len(x) \in Nat /\ \A i \in 1 .. Len(x) : y[i] = x[i]
    BY <2>1
  <2> HIDE DEF y
  <2>3. y # <<>>
    BY <2>2
  <2>4. Front(y) \in Seq(Names) /\ Len(Front(y)) = Len(y) - 1 /\ \A i \in 1 .. Len(y) - 1 : Front(y)[i] = y[i]
    BY <2>2, <2>3, Parts
  <2>5. Len(Front(y)) = Len(x) /\ \A i \in 1 .. Len(x) : Front(y)[i] = x[i]
    BY <2>2, <2>4
  <2>6. Front(y) = x
    BY <2>1, <2>4, <2>5, SeqEqual
  <2> QED
    BY <2>3, <2>6 DEF y
<1>10. Clean(cut) = x /\ Clean(parts) = IF e = NoName THEN x ELSE Append(x, e)
  BY <1>7 DEF x, e, Keep
<1>11. Clean(cut) = Clean(parts) \/ (Clean(parts) # <<>> /\ Clean(cut) = Front(Clean(parts)))
  BY <1>9, <1>10
<1> QED
  BY <1>1, <1>11 DEF cut

LEMMA DirLengthIs ==
  ASSUME NEW d \in Typings
  PROVE  DirLength(d) \in Nat /\ DirLength(d) > 0
<1>1. CASE d = <<>>
  BY <1>1 DEF DirLength
<1>2. CASE d # <<>>
  <2> DEFINE S == {i \in DOMAIN d : d[i] # NoName}
  <2>1. Len(d) \in Nat \ {0} /\ DOMAIN d = 1 .. Len(d)
    BY <1>2 DEF Typings
  <2>2. IsFiniteSet(1 .. Len(d)) /\ S \subseteq 1 .. Len(d)
    BY <2>1, FS_Interval
  <2> HIDE DEF S
  <2>3. Cardinality(S) \in Nat
    BY <2>2, FS_Subset, FS_CardinalityType
  <2>4. DirLength(d) = Len(d) + Cardinality(S)
    BY <1>2 DEF DirLength, S
  <2> QED
    BY <2>1, <2>3, <2>4
<1> QED
  BY <1>1, <1>2

-----------------------------------------------------------------------------
(* The commands that change the filesystem: a directory that is still      *)
(* there is still a directory. *)
KeepsDirectories(f, g) ==
    \A q \in Seq(Names) : Have(f, q) /\ Have(g, q) /\ At(f, q).type = DIR => At(g, q).type = DIR

LEMMA KeptElsewhere ==
  ASSUME NEW f, NEW g, NEW path, Elsewhere(f, g, path),
         ~ Have(f, path) \/ ~ Have(g, path) \/ At(f, path).type # DIR
  PROVE  KeepsDirectories(f, g)
  BY DEF KeepsDirectories, Elsewhere, Same

LEMMA NoRootEntry ==
  ASSUME NEW f
  PROVE  ~ Have(f, <<>>)
<1>1. Find(f, <<>>) = ROOT
  BY DEF Find
<1> QED
  BY <1>1, Sizes DEF Have, ROOT

Changed(r) == Whole(r.fs) /\ KeepsDirectories(fs, r.fs)

LEMMA SameKept ==
  ASSUME NEW f, NEW g, AllSame(f, g)
  PROVE  KeepsDirectories(f, g)
  BY DEF KeepsDirectories, AllSame, Same

LEMMA MkdirChanges ==
  ASSUME Whole(fs), fs.file_count <= FS_MAX_FILES, NEW path \in Seq(Names)
  PROVE  Changed(Mkdir(fs, path))
<1> DEFINE r == Mkdir(fs, path)
<1>1. Whole(r.fs) /\ (r.fs = fs \/ (Elsewhere(fs, r.fs, path) /\ Addable(fs, path)))
  BY MkdirDoes
<1> HIDE DEF r
<1>2. KeepsDirectories(fs, r.fs)
  BY <1>1, KeptElsewhere, NoRootEntry DEF Addable, KeepsDirectories
<1> QED
  BY <1>1, <1>2 DEF Changed, r

LEMMA CreateChanges ==
  ASSUME Whole(fs), NEW path \in Seq(Names)
  PROVE  Changed(Create(fs, path, 0, TRUE))
<1> DEFINE r == Create(fs, path, 0, TRUE)
<1>1. Whole(r.fs) /\ (r.fs = fs \/ (Elsewhere(fs, r.fs, path) /\ Addable(fs, path)))
  BY CreateDoes, DataTyped
<1> HIDE DEF r
<1>2. KeepsDirectories(fs, r.fs)
  BY <1>1, KeptElsewhere, NoRootEntry DEF Addable, KeepsDirectories
<1> QED
  BY <1>1, <1>2 DEF Changed, r

LEMMA DeleteChanges ==
  ASSUME Whole(fs), NEW path \in Seq(Names)
  PROVE  Changed(Delete(fs, path))
<1> DEFINE r == Delete(fs, path)
<1>1. Whole(r.fs) /\ (r.fs = fs \/ (Elsewhere(fs, r.fs, path) /\ ~ Have(r.fs, path)))
  BY DeleteDoes
<1> HIDE DEF r
<1>2. KeepsDirectories(fs, r.fs)
  BY <1>1, KeptElsewhere DEF KeepsDirectories
<1> QED
  BY <1>1, <1>2 DEF Changed, r

LEMMA WriteChanges ==
  ASSUME Whole(fs), NEW path \in Seq(Names), NEW data \in Data, NEW ok
  PROVE  Changed(Write(fs, path, data, Len(data), ok))
<1> DEFINE r == Write(fs, path, data, Len(data), ok)
<1>1. Len(data) \in Size /\ Measures(data, Len(data))
  BY DEF Size, Measures
<1>2. Whole(r.fs) /\ (r.fs = fs \/ Loses(fs, r.fs, path) \/ Gives(fs, r.fs, path, data))
  BY <1>1, WriteDoes
<1> HIDE DEF r
<1>3. CASE r.fs = fs
  BY <1>2, <1>3 DEF Changed, KeepsDirectories, r
<1>4. CASE Loses(fs, r.fs, path) \/ Gives(fs, r.fs, path, data)
  <2>1. Have(fs, path) /\ Elsewhere(fs, r.fs, path) /\ See(fs, path) # Directory
    BY <1>4 DEF Loses, Gives
  <2>2. At(fs, path).type # DIR
    BY <2>1, Nodes
  <2>3. KeepsDirectories(fs, r.fs)
    BY <2>1, <2>2, KeptElsewhere
  <2> QED
    BY <1>2, <2>3 DEF Changed, r
<1> QED
  BY <1>2, <1>3, <1>4

LEMMA CopyChanges ==
  ASSUME Whole(fs), NEW src \in Seq(Names), NEW dest \in Seq(Names), NEW ok, NEW okTemp
  PROVE  Changed(Copy(fs, src, dest, ok, okTemp))
<1> DEFINE r == Copy(fs, src, dest, ok, okTemp)
<1>1. Whole(r.fs) /\ (AllSame(fs, r.fs) \/ Copied(fs, r.fs, src, dest))
  BY CopyDoes
<1> HIDE DEF r
<1>2. KeepsDirectories(fs, r.fs)
  BY <1>1, SameKept, KeptElsewhere DEF Copied
<1> QED
  BY <1>1, <1>2 DEF Changed, r

LEMMA MoveChanges ==
  ASSUME Whole(fs), NEW src \in Seq(Names), NEW dest \in Seq(Names), NEW ok, NEW okTemp
  PROVE  Changed(Move(fs, src, dest, ok, okTemp))
<1> DEFINE r == Move(fs, src, dest, ok, okTemp)
           g == r.fs
<1>1. Whole(g) /\ (AllSame(fs, g) \/ Moved(fs, g, src, dest))
  BY MoveDoes
<1> HIDE DEF r, g
<1>2. CASE AllSame(fs, g)
  BY <1>1, <1>2, SameKept DEF Changed, r, g
<1>3. CASE Moved(fs, g, src, dest)
  <2>1. PICK c : Copied(fs, c, src, dest) /\ Elsewhere(c, g, src) /\ ~ Have(g, src)
    BY <1>3 DEF Moved
  <2>2. KeepsDirectories(fs, c)
    BY <2>1, KeptElsewhere DEF Copied
  <2>3. ASSUME NEW q \in Seq(Names), Have(fs, q), Have(g, q), At(fs, q).type = DIR PROVE At(g, q).type = DIR
    <3>1. Same(c, g, q)
      BY <2>1, <2>3 DEF Elsewhere
    <3> QED
      BY <2>2, <2>3, <3>1 DEF KeepsDirectories, Same
  <2>4. KeepsDirectories(fs, g)
    BY <2>3 DEF KeepsDirectories
  <2> QED
    BY <1>1, <2>4 DEF Changed, r, g
<1> QED
  BY <1>1, <1>2, <1>3

-----------------------------------------------------------------------------
(* A command keeps the tables and the current path what they are, prints   *)
(* texts, and leaves the shell in a directory unless that one is removed.  *)
StaysIn(f, c, g, d) ==
    \/ IsDirectory(g, Clean(d))
    \/ d = c /\ (Vanished(g, c) \/ ~ IsDirectory(f, Clean(c)))
    \/ ~ IsDirectory(f, Clean(c)) /\ g = f /\ Clean(d) \in {Clean(c), Front(Clean(c))}

CommandOK(o) ==
    Whole(o.fs) /\ o.cwd \in Typings /\ o.out \in Seq(Printouts) /\ StaysIn(fs, cwd, o.fs, o.cwd)

LEMMA Lines ==
  /\ Down \in Printouts /\ Line \in Printouts /\ OneLine \in Seq(Printouts)
  /\ \A n \in Nat : Listing(n) \in Printouts
<1>1. Down \in Printouts /\ Line \in Printouts /\ \A n \in Nat : Listing(n) \in Printouts
  BY DEF Down, Line, Listing, Printouts
<1> QED
  BY <1>1 DEF OneLine

LEMMA SaysOK ==
  ASSUME Whole(fs), cwd \in Typings, NEW rows \in Seq(Printouts)
  PROVE  CommandOK(Says(rows))
<1>1. Says(rows).fs = fs /\ Says(rows).cwd = cwd /\ Says(rows).out = rows
  BY DEF Says, Ran
<1> QED
  BY <1>1 DEF CommandOK, StaysIn

LEMMA DidOK ==
  ASSUME Whole(fs), cwd \in Typings, NEW r, Changed(r)
  PROVE  CommandOK(Did(r))
<1>1. Did(r).fs = r.fs /\ Did(r).cwd = cwd /\ Did(r).out = OneLine
  BY DEF Did, Ran
<1> DEFINE q == Clean(cwd)
           g == r.fs
<1>2. ASSUME IsDirectory(fs, q) PROVE IsDirectory(g, q) \/ Find(g, q) = NOT_FOUND
  <2>1. CASE q = <<>>
    BY <2>1 DEF IsDirectory
  <2>2. CASE q # <<>>
    <3>1. q \in Seq(Names) /\ Shaped(fs) /\ WellListed(fs) /\ Shaped(g) /\ WellListed(g)
      BY CleanIs, SoundParts DEF Whole, Changed
    <3> HIDE DEF q, g
    <3>2. Have(fs, q) /\ At(fs, q).type = DIR
      BY <1>2, <2>2, <3>1, FindIs DEF IsDirectory, Have, At
    <3>3. Find(g, q) \in Entries \cup {NOT_FOUND} /\ (Find(g, q) \in Entries => Find(g, q) >= 0)
      BY <2>2, <3>1, FindIs
    <3>4. Find(g, q) \in Entries => At(g, q).type = DIR
      BY <3>1, <3>2 DEF Changed, KeepsDirectories, Have, g
    <3> QED
      BY <3>3, <3>4 DEF IsDirectory, At
  <2> QED
    BY <2>1, <2>2
<1>3. StaysIn(fs, cwd, r.fs, cwd)
  BY <1>2 DEF StaysIn, Vanished
<1> QED
  BY <1>1, <1>3, Lines DEF CommandOK, Changed

(* The commands, one by one. *)
ShellOK == Whole(fs) /\ cwd \in Typings

LEMMA InputTyped ==
  ASSUME NEW p \in Inputs
  PROVE  p.parts \in Typings /\ (cwd \in Typings => Joined(p) \in Typings)
<1>1. p.parts \in Typings
  BY ShellAssumption DEF Typings
<1>2. ASSUME cwd \in Typings PROVE cwd \o p.parts \in Typings
  BY <1>1, <1>2, ConcatProperties DEF Typings
<1> QED
  BY <1>1, <1>2 DEF Joined

LEMMA PathTyped ==
  ASSUME NEW p \in Inputs, cwd \in Typings, NEW command
  PROVE  PathFor(command, p) \in Seq(Names)
  BY InputTyped, CleanIs DEF PathFor

LEMMA ChangesOK ==
  ASSUME ShellOK, fs.file_count <= FS_MAX_FILES, NEW o \in Changes
  PROVE  CommandOK(o)
<1>0. Whole(fs) /\ cwd \in Typings
  BY DEF ShellOK
<1>1. \A command : \A p \in Inputs : PathFor(command, p) \in Seq(Names)
  BY <1>0, PathTyped
<1>2. ASSUME NEW p \in Inputs PROVE CommandOK(MkdirCommand(p))
  BY <1>0, <1>1, MkdirChanges, DidOK DEF MkdirCommand
<1>3. ASSUME NEW p \in Inputs PROVE CommandOK(Rm(p))
  BY <1>0, <1>1, DeleteChanges, DidOK DEF Rm
<1>4. ASSUME NEW p \in Inputs PROVE CommandOK(Touch(p))
  BY <1>0, <1>1, CreateChanges, DidOK DEF Touch
<1>5. ASSUME NEW p \in Inputs, NEW d \in Data, NEW ok \in BOOLEAN PROVE CommandOK(WriteCommand(p, d, ok))
  BY <1>0, <1>1, WriteChanges, DidOK DEF WriteCommand
<1>6. ASSUME NEW p \in Inputs, NEW q \in Inputs, NEW m \in Mallocs PROVE CommandOK(Cp(p, q, m))
  BY <1>0, <1>1, CopyChanges, DidOK DEF Cp
<1>7. ASSUME NEW p \in Inputs, NEW q \in Inputs, NEW m \in Mallocs PROVE CommandOK(Mv(p, q, m))
  BY <1>0, <1>1, MoveChanges, DidOK DEF Mv
<1> QED
  BY <1>2, <1>3, <1>4, <1>5, <1>6, <1>7 DEF Changes

(* What the commands that only look print. *)
LEMMA Texts ==
  ASSUME NEW n \in Nat
  PROVE  /\ <<Down, Listing(n)>> \in Seq(Printouts)
         /\ OneLine \o <<Down, Listing(n)>> \in Seq(Printouts)
         /\ OneLine \o <<Down>> \in Seq(Printouts) /\ <<Down>> \in Seq(Printouts)
         /\ OneLine \o OneLine \in Seq(Printouts)
         /\ OneLine \o OneLine \o OneLine \in Seq(Printouts)
         /\ OneLine \o OneLine \o OneLine \o OneLine \in Seq(Printouts)
<1>1. <<Down, Listing(n)>> \in Seq(Printouts) /\ <<Down>> \in Seq(Printouts)
  BY Lines
<1>2. \A s, t \in Seq(Printouts) : s \o t \in Seq(Printouts)
  BY ConcatProperties
<1> QED
  BY <1>1, <1>2, Lines

LEMMA SlotIs ==
  ASSUME Whole(fs), NEW path
  PROVE  SlotAt(path) \in Dirs \cup {NOT_FOUND}
<1> DEFINE i == Find(fs, path)
           s == SlotsNamed(fs, fs.files[i].name, fs.files[i].parent)
<1>1. s \subseteq Dirs
  <2>1. fs.dir_count \in 1 .. FS_MAX_DIRECTORIES
    BY SoundParts DEF Whole, Shaped, Tables
  <2>2. 0 .. fs.dir_count - 1 \subseteq Dirs
    BY <2>1, Sizes DEF Dirs
  <2> QED
    BY <2>2 DEF SlotsNamed
<1>2. SlotAt(path) = IF path = <<>> THEN 0
                     ELSE IF i < 0 \/ fs.files[i].type # DIR \/ s = {} THEN NOT_FOUND
                     ELSE Smallest(s)
  BY DEF SlotAt
<1> HIDE DEF s, i
<1>3. s # {} => Smallest(s) \in Dirs
  BY <1>1, Sizes, SmallestIn
<1> QED
  BY <1>2, <1>3, Sizes

LEMMA LsOK ==
  ASSUME ShellOK, NEW path
  PROVE  CommandOK(Ls(path))
<1>0. Whole(fs) /\ cwd \in Typings
  BY DEF ShellOK
<1>1. ListDir(path) > 0 => ListDir(path) \in Nat
  <2>1. CASE SlotAt(path) = NOT_FOUND
    BY <2>1 DEF ListDir, NOT_FOUND
  <2>2. CASE SlotAt(path) # NOT_FOUND
    <3>1. SlotAt(path) \in Dirs
      BY <1>0, <2>2, SlotIs
    <3>2. fs.dirs[SlotAt(path)].files \in Seq(Entries)
      BY <1>0, <3>1, SoundParts, ListsTyped DEF Whole
    <3> QED
      BY <2>2, <3>2 DEF ListDir
  <2> QED
    BY <2>1, <2>2
<1> DEFINE out == IF ListDir(path) > 0 THEN <<Down, Listing(ListDir(path))>> ELSE OneLine
<1>2. out \in Seq(Printouts)
  BY <1>1, Texts, Lines
<1>3. Ls(path) = Says(out)
  BY DEF Ls
<1> HIDE DEF out
<1> QED
  BY <1>0, <1>2, <1>3, SaysOK

LEMMA TreeOK ==
  ASSUME ShellOK, NEW path
  PROVE  CommandOK(TreeCommand(path))
<1>0. Whole(fs) /\ cwd \in Typings
  BY DEF ShellOK
<1>1. TreeRows(path) \in Nat
  <2> DEFINE S == UNION {ToSet(fs.dirs[s].files) : s \in Below(SlotAt(path))}
  <2>1. Below(SlotAt(path)) \subseteq Dirs
    <3>1. Used(fs) \subseteq Dirs
      BY <1>0, SoundParts, CountsTyped DEF Used, Whole, Dirs
    <3> QED
      BY <3>1 DEF Below
  <2>2. \A s \in Dirs : ToSet(fs.dirs[s].files) \subseteq Entries
    BY <1>0, SoundParts, ListsTyped DEF Whole, ToSet
  <2>3. S \subseteq Entries
    BY <2>1, <2>2
  <2>4. IsFiniteSet(Entries)
    BY Sizes, FS_Interval DEF Entries
  <2> HIDE DEF S
  <2>5. Cardinality(S) \in Nat
    BY <2>3, <2>4, FS_Subset, FS_CardinalityType
  <2>6. TreeRows(path) = IF SlotAt(path) = NOT_FOUND THEN 0 ELSE 1 + Cardinality(S)
    BY DEF TreeRows, S
  <2> QED
    BY <2>5, <2>6
<1> DEFINE out == OneLine \o IF TreeRows(path) = 0 THEN <<Down>> ELSE <<Down, Listing(TreeRows(path))>>
<1>2. out \in Seq(Printouts)
  BY <1>1, Texts
<1>3. TreeCommand(path) = Says(out)
  BY DEF TreeCommand
<1> HIDE DEF out
<1> QED
  BY <1>0, <1>2, <1>3, SaysOK

LEMMA FindOK ==
  ASSUME ShellOK, NEW name
  PROVE  CommandOK(FindCommand(name))
<1>0. Whole(fs) /\ cwd \in Typings
  BY DEF ShellOK
<1>1. FoundRows(name) \in Nat
  <2> DEFINE S == {i \in 0 .. fs.file_count - 1 : fs.files[i].name = name}
  <2>1. fs.file_count \in Nat
    BY <1>0, SoundParts, CountsTyped DEF Whole
  <2>2. IsFiniteSet(0 .. fs.file_count - 1)
    BY <2>1, FS_Interval
  <2>3. S \subseteq 0 .. fs.file_count - 1
    OBVIOUS
  <2>4. FoundRows(name) = IF S = {} THEN 1 ELSE Cardinality(S)
    BY DEF FoundRows
  <2> HIDE DEF S
  <2>5. Cardinality(S) \in Nat
    BY <2>2, <2>3, FS_Subset, FS_CardinalityType
  <2> QED
    BY <2>4, <2>5
<1>2. OneLine \o <<Down, Listing(FoundRows(name))>> \in Seq(Printouts)
  BY <1>1, Texts
<1> QED
  BY <1>0, <1>2, SaysOK DEF FindCommand

LEMMA LookOK ==
  ASSUME ShellOK, NEW p \in Inputs
  PROVE  CommandOK(Cat(p)) /\ \A path : CommandOK(Stat(path))
<1>0. Whole(fs) /\ cwd \in Typings /\ 0 \in Nat
  BY DEF ShellOK
<1>1. /\ OneLine \o OneLine \in Seq(Printouts) /\ OneLine \in Seq(Printouts)
      /\ OneLine \o OneLine \o OneLine \o OneLine \in Seq(Printouts)
  BY <1>0, Texts, Lines
<1> QED
  BY <1>0, <1>1, SaysOK DEF Cat, Stat

LEMMA HelpOK ==
  ASSUME ShellOK
  PROVE  CommandOK(Help)
<1>0. Whole(fs) /\ cwd \in Typings
  BY DEF ShellOK
<1> DEFINE lines == IF ROWS < 27 THEN ROWS + 1 ELSE 27
           out   == [i \in 1 .. 2 * lines |-> IF i % 2 = 1 THEN Down ELSE Line]
<1>1. lines \in Nat
  BY Screens
<1>2. Help = Says(out)
  BY DEF Help
<1> HIDE DEF lines
<1>3. 2 * lines \in Nat /\ \A i \in 1 .. 2 * lines : out[i] \in Printouts
  BY <1>1, Lines
<1>4. out \in Seq(Printouts)
  BY <1>3, IsASeq
<1> HIDE DEF out
<1> QED
  BY <1>0, <1>2, <1>4, SaysOK

LEMMA PwdOK ==
  ASSUME ShellOK
  PROVE  CommandOK(Pwd)
<1>0. Whole(fs) /\ cwd \in Typings
  BY DEF ShellOK
<1> DEFINE n == 19 + DirLength(cwd)
<1>1. n \in Nat
  BY <1>0, DirLengthIs
<1>2. Pwd = Says(<<Down, Cells(n)>>)
  BY DEF Pwd
<1> HIDE DEF n
<1>3. 1 + n \div COLUMNS \in Nat
  BY <1>1, Quotients
<1>4. Cells(n) \in Printouts
  BY <1>3 DEF Cells, Printouts
<1>5. <<Down, Cells(n)>> \in Seq(Printouts)
  BY <1>4, Lines
<1> QED
  BY <1>0, <1>2, <1>5, SaysOK

LEMMA UnknownOK ==
  ASSUME ShellOK, term.len \in Nat
  PROVE  CommandOK(Unknown)
<1>0. Whole(fs) /\ cwd \in Typings
  BY DEF ShellOK
<1> DEFINE n == 17 + term.len
<1>1. n \in Nat
  OBVIOUS
<1>2. Unknown = Says(<<Down, Cells(n)>>)
  BY DEF Unknown
<1> HIDE DEF n
<1>3. 1 + n \div COLUMNS \in Nat
  BY <1>1, Quotients
<1>4. Cells(n) \in Printouts
  BY <1>3 DEF Cells, Printouts
<1>5. <<Down, Cells(n)>> \in Seq(Printouts)
  BY <1>4, Lines
<1> QED
  BY <1>0, <1>2, <1>5, SaysOK

LEMMA ReportsOK ==
  ASSUME ShellOK
  PROVE  CommandOK(Version) /\ \A o \in EchoDebug \cup Reports : CommandOK(o)
<1>0. Whole(fs) /\ cwd \in Typings /\ 0 \in Nat
  BY DEF ShellOK
<1>1. /\ OneLine \o OneLine \in Seq(Printouts) /\ OneLine \in Seq(Printouts) /\ <<Down>> \in Seq(Printouts)
      /\ OneLine \o OneLine \o OneLine \in Seq(Printouts)
  BY <1>0, Texts, Lines
<1> QED
  BY <1>0, <1>1, SaysOK DEF Version, EchoDebug, Reports

LEMMA ChangeDirOK ==
  ASSUME ShellOK, NEW p \in Inputs
  PROVE  CommandOK(ChangeDir(p))
<1> DEFINE d == Joined(p)
           i == Find(fs, PathFor("cd", p))
<1>0. Whole(fs) /\ cwd \in Typings /\ d \in Typings /\ OneLine \in Seq(Printouts)
  BY InputTyped, Lines DEF ShellOK
<1>1. PathFor("cd", p) = Clean(d)
  BY DEF PathFor, Joins
<1>2. ChangeDir(p) = IF d = <<>> \/ (i >= 0 /\ fs.files[i].type = DIR) THEN Ran(fs, d, OneLine) ELSE Says(OneLine)
  BY DEF ChangeDir
<1>3. i = Find(fs, Clean(d))
  BY <1>1
<1> HIDE DEF d, i
<1>4. CASE d = <<>> \/ (i >= 0 /\ fs.files[i].type = DIR)
  <2> DEFINE o == Ran(fs, d, OneLine)
  <2>1. o.fs = fs /\ o.cwd = d /\ o.out = OneLine
    BY DEF Ran
  <2>2. ChangeDir(p) = o
    BY <1>2, <1>4
  <2> HIDE DEF o
  <2>3. IsDirectory(fs, Clean(d))
    BY <1>0, <1>3, <1>4, CleanIs DEF IsDirectory
  <2> QED
    BY <1>0, <2>1, <2>2, <2>3 DEF CommandOK, StaysIn
<1>5. CASE ~ (d = <<>> \/ (i >= 0 /\ fs.files[i].type = DIR))
  BY <1>0, <1>2, <1>5, SaysOK
<1> QED
  BY <1>4, <1>5

(* What leads to a directory leads through directories. *)
LEMMA ChangeDirUpOK ==
  ASSUME ShellOK
  PROVE  CommandOK(ChangeDirUp)
<1> DEFINE up == IF cwd = <<>> THEN <<>> ELSE Front(cwd)
           d == IF up = <<NoName>> THEN <<>> ELSE up
           o == Ran(fs, d, OneLine)
           q == Clean(cwd)
<1>0. Whole(fs) /\ cwd \in Typings /\ OneLine \in Seq(Printouts)
  BY Lines DEF ShellOK
<1>1. o.fs = fs /\ o.cwd = d /\ o.out = OneLine
  BY DEF Ran
<1>2. ChangeDirUp = o
  BY DEF ChangeDirUp
<1> HIDE DEF o
<1>3. up \in Typings /\ (Clean(up) = q \/ (q # <<>> /\ Clean(up) = Front(q)))
  <2>1. CASE cwd = <<>>
    BY <1>0, <2>1
  <2>2. CASE cwd # <<>>
    BY <1>0, <2>2, CleanFront
  <2> QED
    BY <2>1, <2>2
<1>4. CASE up = <<NoName>>
  <2>1. d = <<>> /\ d \in Typings
    BY <1>4 DEF Typings
  <2> HIDE DEF d
  <2>2. Clean(d) = <<>>
    BY <2>1, CleanIs
  <2>3. StaysIn(fs, cwd, fs, d)
    BY <2>2 DEF StaysIn, IsDirectory
  <2> QED
    BY <1>0, <1>1, <1>2, <2>1, <2>3 DEF CommandOK
<1>5. CASE up # <<NoName>>
  <2>1. q \in Seq(Names) /\ Sound(fs) /\ Shaped(fs) /\ WellListed(fs)
    BY <1>0, CleanIs, SoundParts DEF Whole
  <2>2. d = up
    BY <1>5
  <2>3. d \in Typings /\ (Clean(d) = q \/ (q # <<>> /\ Clean(d) = Front(q)))
    BY <1>3, <2>2
  <2> HIDE DEF d, q
  <2>4. ASSUME IsDirectory(fs, q) PROVE IsDirectory(fs, Clean(d))
    <3>1. CASE Clean(d) = q
      BY <2>4, <3>1
    <3>2. CASE q # <<>> /\ Clean(d) = Front(q)
      <4> DEFINE r == Front(q)
      <4>1. Find(fs, q) \in Entries /\ fs.files[Find(fs, q)].type = DIR
        BY <2>1, <2>4, <3>2, FindIs DEF IsDirectory
      <4>2. Reached(fs, q) # NOT_FOUND
        BY <2>1, <4>1, DirReached
      <4>3. r \in Seq(Names) /\ Reached(fs, r) \in Live(fs)
        BY <2>1, <3>2, <4>2, SlotReached
      <4> HIDE DEF r
      <4>4. Reached(fs, r) # NOT_FOUND
        BY <4>3, Sizes DEF Live
      <4>5. r = <<>> \/ (Find(fs, r) \in Entries /\ fs.files[Find(fs, r)].type = DIR)
        BY <2>1, <4>3, <4>4, DirReached
      <4>6. IsDirectory(fs, r)
        BY <2>1, <4>3, <4>5, FindIs DEF IsDirectory
      <4> QED
        BY <3>2, <4>6 DEF r
    <3> QED
      BY <2>3, <3>1, <3>2
  <2>5. StaysIn(fs, cwd, fs, d)
    BY <2>3, <2>4 DEF StaysIn, q
  <2> QED
    BY <1>0, <1>1, <1>2, <2>3, <2>5 DEF CommandOK
<1> QED
  BY <1>4, <1>5

LEMMA InOneOf ==
  ASSUME NEW A, NEW B, NEW C, NEW D, NEW E, NEW F, NEW S,
         S = A \cup B \cup C \cup D \cup E \cup UNION F, NEW o \in S
  PROVE  o \in A \/ o \in B \/ o \in C \/ o \in D \/ o \in E \/ \E f \in F : o \in f
  OBVIOUS

LEMMA CommandsOK ==
  ASSUME ShellOK, fs.file_count <= FS_MAX_FILES, term.len \in Nat, NEW o \in Commands
  PROVE  CommandOK(o)
<1>1. o \in Changes => CommandOK(o)
  BY ChangesOK
<1>2. CommandOK(Version) /\ (o \in EchoDebug => CommandOK(o)) /\ (o \in Reports => CommandOK(o))
  BY ReportsOK
<1>3. CommandOK(Unknown) /\ CommandOK(Help) /\ CommandOK(Pwd) /\ CommandOK(ChangeDirUp)
  BY UnknownOK, HelpOK, PwdOK, ChangeDirUpOK
<1>4. \A path : CommandOK(Ls(path)) /\ CommandOK(TreeCommand(path))
  BY LsOK, TreeOK
<1>5. \A p \in Inputs : CommandOK(Cat(p)) /\ CommandOK(Stat(PathFor("stat", p))) /\ CommandOK(ChangeDir(p))
  BY LookOK, ChangeDirOK
<1>6. \A n : CommandOK(FindCommand(n))
  BY FindOK
<1> DEFINE Look(p) == {Cat(p), Ls(PathFor("ls", p)), TreeCommand(PathFor("tree", p)), Stat(PathFor("stat", p)), ChangeDir(p)}
<1>7. ASSUME NEW p \in Inputs, o \in Look(p) PROVE CommandOK(o)
  BY <1>4, <1>5, <1>7
<1>8. \/ o \in Changes \/ o \in EchoDebug \/ o \in Reports
      \/ o \in {Version, Unknown, Help, Pwd, ChangeDirUp, Ls(Clean(cwd)), TreeCommand(<<>>)}
      \/ \E p \in Inputs : o \in Look(p)
      \/ \E n \in Names : o = FindCommand(n)
  <2> DEFINE Some == {Version, Unknown, Help, Pwd, ChangeDirUp, Ls(Clean(cwd)), TreeCommand(<<>>)}
             Searches == {FindCommand(n) : n \in Names}
             Each == {Look(p) : p \in Inputs}
  <2>1. Commands = Changes \cup EchoDebug \cup Reports \cup Some \cup Searches \cup UNION Each
    BY DEF Commands
  <2> HIDE DEF Look
  <2>2. o \in Searches => \E n \in Names : o = FindCommand(n)
    OBVIOUS
  <2>3. \A e \in Each : o \in e => \E p \in Inputs : o \in Look(p)
    OBVIOUS
  <2> HIDE DEF Searches, Each, Some
  <2>4. o \in Changes \/ o \in EchoDebug \/ o \in Reports \/ o \in Some \/ o \in Searches \/ \E e \in Each : o \in e
    BY <2>1, InOneOf
  <2> QED
    BY <2>2, <2>3, <2>4 DEF Some
<1> HIDE DEF Look
<1>9. ASSUME o \in {Version, Unknown, Help, Pwd, ChangeDirUp, Ls(Clean(cwd)), TreeCommand(<<>>)} PROVE CommandOK(o)
  BY <1>2, <1>3, <1>4, <1>9
<1> QED
  BY <1>1, <1>2, <1>6, <1>7, <1>8, <1>9

-----------------------------------------------------------------------------
(* The inductive invariant: the tables are sound and every file's size is  *)
(* its content's, and the editor's cursor and buffer agree. *)
ShellIInv == /\ Whole(fs) /\ AnswerOK(reply) /\ cwd \in Typings
             /\ EditorOK(term, DirLength(cwd))

LEMMA ShellStarts ==
  ShellInit => ShellIInv
<1> SUFFICES ASSUME ShellInit PROVE ShellIInv
  OBVIOUS
<1>1. Whole(fs) /\ AnswerOK(reply)
  BY WholeInit, FsInit DEF ShellInit, FsIInv
<1>2. cwd = <<>> /\ cwd \in Typings
  BY DEF ShellInit, Typings
<1>3. EditorOK(term, DirLength(cwd))
  BY <1>2, DirLengthIs, FirstPrompt DEF ShellInit
<1> QED
  BY <1>1, <1>2, <1>3 DEF ShellIInv

LEMMA EditedKeeps ==
  ASSUME ShellIInv, NEW t, Edited(t), EditorOK(t, DirLength(cwd))
  PROVE  ShellIInv' /\ StaysIn(fs, cwd, fs', cwd')
<1>1. term' = t /\ fs' = fs /\ reply' = reply /\ cwd' = cwd
  BY DEF Edited
<1>2. ShellIInv'
  BY <1>1 DEF ShellIInv
<1> QED
  BY <1>1, <1>2 DEF StaysIn

LEMMA CommandKeeps ==
  ASSUME ShellIInv, fs.file_count <= FS_MAX_FILES, EnterCommand
  PROVE  ShellIInv' /\ StaysIn(fs, cwd, fs', cwd')
<1>0. Whole(fs) /\ AnswerOK(reply) /\ cwd \in Typings /\ term \in Terminals /\ term.row \in Rows
  BY DEF ShellIInv, EditorOK, Editor, OnRow
<1>1. PICK o \in Commands : /\ fs' = o.fs /\ cwd' = o.cwd /\ reply' = reply
                            /\ term' = NextPrompt(Output(Aged(term), o.out), DirLength(o.cwd))
  BY DEF EnterCommand
<1>2. Whole(o.fs) /\ o.cwd \in Typings /\ o.out \in Seq(Printouts) /\ StaysIn(fs, cwd, o.fs, o.cwd)
  <2>1. term.len \in Nat
    BY DEF ShellIInv, EditorOK
  <2> QED
    BY <1>0, <2>1, CommandsOK DEF CommandOK, ShellOK
<1> DEFINE t == Aged(term)
           u == Output(t, o.out)
<1>3. t \in Terminals /\ t.row = term.row /\ \A i \in 1 .. ROWS : t.screen[i] # "output"
  BY <1>0, AgedIs
<1> HIDE DEF t
<1>4. t \in Cursors /\ Reachable(t)
  BY <1>0, <1>3 DEF Cursors, Reachable, OutputNear, Rows
<1>5. u \in Cursors /\ Reachable(u)
  BY <1>2, <1>4, OutputIs DEF SameButOutput
<1>6. term' = NextPrompt(u, DirLength(o.cwd))
  BY <1>1 DEF t
<1> HIDE DEF u
<1>7. u \in Terminals /\ u.row >= -2
  BY <1>5 DEF Cursors, Terminals
<1>8. EditorOK(term', DirLength(o.cwd))
  BY <1>2, <1>5, <1>6, <1>7, DirLengthIs, NextPromptIs
<1>9. ShellIInv'
  BY <1>0, <1>1, <1>2, <1>8 DEF ShellIInv
<1> QED
  BY <1>1, <1>2, <1>9

LEMMA ShellStep ==
  ASSUME ShellIInv, [ShellNext]_shellVars
  PROVE  ShellIInv' /\ StaysIn(fs, cwd, fs', cwd')
<1> DEFINE n == DirLength(cwd)
           t == Aged(term)
<1>0. /\ cwd \in Typings /\ EditorOK(term, n) /\ term \in Terminals /\ term.row \in Rows
      /\ n \in Nat /\ n > 0
  BY DirLengthIs DEF ShellIInv, EditorOK, Editor, OnRow
<1>1. CASE Type
  BY <1>0, <1>1, TypedIs, EditedKeeps DEF Type
<1>2. CASE Backspace
  BY <1>0, <1>2, ErasedIs, EditedKeeps DEF Backspace
<1>3. t \in Terminals /\ t.row = term.row /\ \A i \in 1 .. ROWS : t.screen[i] # "output"
  BY <1>0, AgedIs
<1>4. CASE EnterNothing
  <2>1. Edited(NextPrompt(t, n))
    BY <1>4 DEF EnterNothing
  <2> HIDE DEF t
  <2>2. t.row >= -2 /\ Reachable(t)
    BY <1>0, <1>3 DEF Reachable, OutputNear, Rows
  <2>3. EditorOK(NextPrompt(t, n), n)
    BY <1>0, <1>3, <2>2, NextPromptIs
  <2> QED
    BY <2>1, <2>3, EditedKeeps
<1>5. CASE EnterClear
  <2> DEFINE u == Cleared(t)
  <2>1. Edited(NextPrompt(u, n))
    BY <1>5 DEF EnterClear
  <2>2. u \in Terminals /\ u.row = -2 /\ \A i \in 1 .. ROWS : u.screen[i] = "blank"
    BY <1>3, ClearedIs
  <2> HIDE DEF t, u
  <2>3. Reachable(u) /\ u.row >= -2
    BY <2>2 DEF Reachable, OutputNear
  <2>4. EditorOK(NextPrompt(u, n), n)
    BY <1>0, <2>2, <2>3, NextPromptIs
  <2> QED
    BY <2>1, <2>4, EditedKeeps
<1>6. CASE fs.file_count <= FS_MAX_FILES /\ EnterCommand
  BY <1>6, CommandKeeps
<1>7. CASE UNCHANGED shellVars
  <2>1. fs' = fs /\ reply' = reply /\ cwd' = cwd /\ term' = term
    BY <1>7 DEF shellVars
  <2> QED
    BY <2>1 DEF ShellIInv, StaysIn
<1> QED
  BY <1>1, <1>2, <1>4, <1>5, <1>6, <1>7 DEF ShellNext

LEMMA ShellInvariant ==
  ShellSpec => []ShellIInv
<1>1. ShellIInv /\ [ShellNext]_shellVars => ShellIInv'
  BY ShellStep
<1> QED
  BY <1>1, ShellStarts, PTL DEF ShellSpec

-----------------------------------------------------------------------------
(* Whatever a command prints and however long the path in the prompt gets, *)
(* on a screen of any size the cursor is left on it: print_shell_prompt    *)
(* and update_cursor scroll for every row the commands moved down.         *)
THEOREM CursorAlwaysOnScreen ==
  ShellSpec => []CursorOnScreen
<1>1. ShellIInv => CursorOnScreen
  BY DEF ShellIInv, EditorOK, Editor, OnRow, CursorOnScreen
<1> QED
  BY <1>1, ShellInvariant, PTL

(* What stands after the prompt is as long as what Enter will run, for     *)
(* every screen, buffer and tree: typing and erasing move the cursor and   *)
(* the buffer's end together, and the prompt of a directory just entered   *)
(* starts both anew.  The two cells PromptLength counts too many only keep *)
(* backspace further from the prompt. *)
THEOREM LineAlwaysBuffer ==
  ShellSpec => []LineIsBuffer
<1>1. ShellIInv => LineIsBuffer
  <2> SUFFICES ASSUME ShellIInv PROVE LineIsBuffer
    OBVIOUS
  <2>1. TypeOK
    BY SoundTyped DEF ShellIInv, FsIInv, Whole
  <2>2. term.screen \in [1 .. ROWS -> Shown] /\ term.covered \in BOOLEAN /\ term.tallest \in Nat
        /\ term.len \in 0 .. MAX_COMMAND_LENGTH - 1
    BY DEF ShellIInv, EditorOK, Editor, OnRow, Terminals, Pictures
  <2>3. ShellTypeOK
    BY <2>1, <2>2 DEF ShellTypeOK, ShellIInv, Typings
  <2> QED
    BY <2>3 DEF LineIsBuffer, ShellIInv, EditorOK
<1> QED
  BY <1>1, ShellInvariant, PTL

(* A prompt covers output of the command just run only if that printed a   *)
(* text of three rows or more: shorter ones end where the two rows a       *)
(* command and its prompt move down begin, or have scrolled the screen.    *)
THEOREM ShortOutputAlwaysKept ==
  ShellSpec => []ShortOutputKept
<1>1. ShellIInv => ShortOutputKept
  BY DEF ShellIInv, EditorOK, ShortOutputKept
<1> QED
  BY <1>1, ShellInvariant, PTL

(* No command takes the shell out of a directory: cd checks what it enters,*)
(* what leads to a directory leads through directories, so that cutting    *)
(* the path at its last slash needs no check, and mkdir, rm, touch, write, *)
(* cp and mv never make a file of a directory.  Where the directory has    *)
(* gone, only a cd that checks or the cut takes the shell anywhere else.   *)
THEOREM AlwaysStaysInDirectory ==
  ShellSpec => StaysInDirectory
<1> DEFINE
      InPlace == \/ IsDirectory(fs', Clean(cwd)')
                 \/ cwd' = cwd /\ (Vanished(fs', cwd) \/ ~ IsDirectory(fs, Clean(cwd)))
                 \/ /\ ~ IsDirectory(fs, Clean(cwd)) /\ fs' = fs
                    /\ Clean(cwd)' \in {Clean(cwd), Front(Clean(cwd))}
<1>1. ShellIInv /\ [ShellNext]_shellVars => [InPlace]_shellVars
  <2> SUFFICES ASSUME ShellIInv, [ShellNext]_shellVars PROVE InPlace
    OBVIOUS
  <2>1. StaysIn(fs, cwd, fs', cwd')
    BY ShellStep
  <2>2. Clean(cwd)' = Clean(cwd')
    BY DEF Clean
  <2> QED
    BY <2>1, <2>2 DEF StaysIn
<1> QED
  BY <1>1, ShellInvariant, PTL DEF ShellSpec, StaysInDirectory
=============================================================================
