-------------------------- MODULE LineEditorProof --------------------------
(***************************************************************************)
(* The line that runs is the line on the screen, for every size of the     *)
(* screen, any type-ahead and any number of nested launches.               *)
(***************************************************************************)
EXTENDS LineEditor, Recursion, SequenceTheorems

(***************************************************************************)
(* Offsets, rows and columns                                               *)
(***************************************************************************)
LEMMA Numbers ==
  /\ MAX_COLS \in Nat /\ MAX_COLS >= 5 /\ MAX_ROWS \in Nat /\ MAX_ROWS >= 2 /\ MaxAhead \in Nat
  /\ MAX_ROWS * MAX_COLS \in Nat /\ MAX_ROWS * MAX_COLS >= 2 * MAX_COLS
  /\ 0 \in Cells /\ MAX_ROWS * MAX_COLS - 1 \in Cells
<1>1. MAX_COLS \in Nat /\ MAX_COLS >= 5 /\ MAX_ROWS \in Nat /\ MAX_ROWS >= 2 /\ MaxAhead \in Nat
  BY LineEditorAssumption
<1>2. MAX_ROWS * MAX_COLS \in Nat /\ MAX_ROWS * MAX_COLS >= 2 * MAX_COLS
  BY <1>1
<1> QED  BY <1>1, <1>2 DEF Cells

LEMMA RowOf ==
  ASSUME NEW r \in Nat
  PROVE  /\ r * MAX_COLS \in Nat /\ (r + 1) * MAX_COLS = r * MAX_COLS + MAX_COLS
         /\ r < MAX_ROWS => r * MAX_COLS + MAX_COLS <= MAX_ROWS * MAX_COLS
         /\ r >= MAX_ROWS => r * MAX_COLS >= MAX_ROWS * MAX_COLS
BY Numbers

(* The offset of column k in row r. *)
LEMMA PlaceIs ==
  ASSUME NEW r \in Nat, NEW k \in Columns
  PROVE  /\ get_offset_row(r * MAX_COLS + k) = r /\ get_offset_col(r * MAX_COLS + k) = k
         /\ r * MAX_COLS + k \in Nat
         /\ r * MAX_COLS + k \in Cells <=> r < MAX_ROWS
<1>1. k \in Nat /\ k < MAX_COLS /\ r * MAX_COLS \in Nat
  BY Numbers, RowOf DEF Columns
<1>2. (r * MAX_COLS + k) \div MAX_COLS = r /\ (r * MAX_COLS + k) % MAX_COLS = k
  BY <1>1, Numbers
<1> QED  BY <1>1, <1>2, Numbers, RowOf DEF Cells, get_offset_row, get_offset_col

LEMMA CellIs ==
  ASSUME NEW o \in Cells
  PROVE  /\ o \in Nat /\ get_offset_col(o) \in Columns
         /\ get_offset_row(o) \in Nat /\ get_offset_row(o) < MAX_ROWS
         /\ o = get_offset_row(o) * MAX_COLS + get_offset_col(o)
<1>1. o \in Nat /\ o < MAX_ROWS * MAX_COLS
  BY Numbers DEF Cells
<1> DEFINE r == o \div MAX_COLS
           k == o % MAX_COLS
<1>2. r \in Nat /\ k \in 0..(MAX_COLS - 1) /\ o = MAX_COLS * r + k
  BY <1>1, Numbers
<1>3. get_offset_row(o) = r /\ get_offset_col(o) = k
  BY <1>1 DEF get_offset_row, get_offset_col
<1> HIDE DEF r, k
<1>4. MAX_COLS * r = r * MAX_COLS
  BY <1>2, Numbers
<1>5. o = r * MAX_COLS + k
  BY <1>2, <1>4
<1>6. r < MAX_ROWS
  BY <1>1, <1>2, <1>5, Numbers, RowOf
<1> QED  BY <1>1, <1>2, <1>3, <1>5, <1>6 DEF Columns

(* The cell to the right of one that is not the last of its row. *)
LEMMA RightIs ==
  ASSUME NEW o \in Cells, get_offset_col(o) < MAX_COLS - 1
  PROVE  /\ o + 1 \in Cells /\ get_offset_col(o + 1) = get_offset_col(o) + 1
         /\ get_offset_row(o + 1) = get_offset_row(o)
<1> DEFINE r == get_offset_row(o)
           k == get_offset_col(o)
<1>1. r \in Nat /\ r < MAX_ROWS /\ k \in Columns /\ o = r * MAX_COLS + k
  BY CellIs
<1>2. k + 1 \in Columns
  BY <1>1, Numbers DEF Columns
<1> HIDE DEF r, k
<1>3. o + 1 = r * MAX_COLS + (k + 1)
  BY <1>1, RowOf DEF Columns
<1> QED  BY <1>1, <1>2, <1>3, PlaceIs DEF r, k

(* The cell to the left of one that is not the first of its row. *)
LEMMA LeftIs ==
  ASSUME NEW o \in Cells, get_offset_col(o) # 0
  PROVE  /\ o - 1 \in Cells /\ get_offset_col(o - 1) = get_offset_col(o) - 1
         /\ get_offset_row(o - 1) = get_offset_row(o)
<1> DEFINE r == get_offset_row(o)
           k == get_offset_col(o)
<1>1. r \in Nat /\ r < MAX_ROWS /\ k \in Columns /\ o = r * MAX_COLS + k
  BY CellIs
<1>2. k - 1 \in Columns
  BY <1>1, Numbers DEF Columns
<1> HIDE DEF r, k
<1>3. o - 1 = r * MAX_COLS + (k - 1)
  BY <1>1, RowOf DEF Columns
<1> QED  BY <1>1, <1>2, <1>3, PlaceIs DEF r, k

(***************************************************************************)
(* Printing                                                                *)
(***************************************************************************)
Vidmems == [Cells -> Chars]
Screens == [vidmem : Vidmems, cursor : Cells]

LEMMA AdvancedIs ==
  ASSUME NEW o \in Cells, NEW c
  PROVE  /\ Advanced(c, o) \in Cells
         /\ c = NL => get_offset_col(Advanced(c, o)) = 0
         /\ c # NL /\ get_offset_col(o) < MAX_COLS - 1 =>
              Next_offset(c, o) \in Cells /\ Advanced(c, o) = o + 1
<1> DEFINE r == get_offset_row(o)
<1>1. r \in Nat /\ r < MAX_ROWS /\ o \in Nat /\ o < MAX_ROWS * MAX_COLS
  BY CellIs, Numbers DEF Cells
<1> HIDE DEF r
<1>2. CASE c = NL
  <2>1. Next_offset(c, o) = (r + 1) * MAX_COLS + 0 /\ 0 \in Columns /\ r + 1 \in Nat
    BY <1>1, <1>2, RowOf, Numbers DEF Next_offset, r, Columns
  <2>2. CASE r + 1 < MAX_ROWS
    BY <1>2, <2>1, <2>2, PlaceIs DEF Advanced
  <2>3. CASE ~(r + 1 < MAX_ROWS)
    <3>1. Next_offset(c, o) \notin Cells
      BY <2>1, <2>3, PlaceIs
    <3>2. Next_offset(c, o) - MAX_COLS = r * MAX_COLS + 0
      BY <1>1, <2>1, RowOf, Numbers
    <3> QED  BY <1>1, <1>2, <2>1, <3>1, <3>2, PlaceIs DEF Advanced
  <2> QED  BY <2>2, <2>3
<1>3. CASE c # NL
  <2>1. Next_offset(c, o) = o + 1
    BY <1>3 DEF Next_offset
  <2>2. o + 1 \notin Cells => (o + 1) - MAX_COLS \in Cells
    BY <1>1, Numbers DEF Cells
  <2> QED  BY <1>3, <2>1, <2>2, RightIs DEF Advanced
<1> QED  BY <1>2, <1>3

LEMMA StoredIs ==
  ASSUME NEW v \in Vidmems, NEW c \in Chars \cup {NL}, NEW o \in Cells
  PROVE  /\ Stored(v, c, o) \in Vidmems
         /\ c # NL /\ Next_offset(c, o) \in Cells =>
              /\ Stored(v, c, o)[o] = c
              /\ \A x \in Cells : x # o => Stored(v, c, o)[x] = v[x]
<1> DEFINE put == IF c = NL THEN v ELSE [v EXCEPT ![o] = c]
<1>1. c # NL => c \in Chars
  OBVIOUS
<1>2. put \in Vidmems /\ (c # NL => put[o] = c /\ \A x \in Cells : x # o => put[x] = v[x])
  BY <1>1 DEF Vidmems
<1>3. Stored(v, c, o) = IF Next_offset(c, o) \in Cells THEN put ELSE Scrolled(put)
  BY DEF Stored
<1> HIDE DEF put
<1>4. Scrolled(put) \in Vidmems
  BY <1>2 DEF Scrolled, Vidmems, Chars
<1> QED  BY <1>2, <1>3, <1>4

LEMMA PrintedIs ==
  ASSUME NEW scr \in Screens, NEW c \in Chars \cup {NL}
  PROVE  /\ print_char(scr, c) \in Screens
         /\ print_char(scr, c).vidmem = Stored(scr.vidmem, c, scr.cursor)
         /\ print_char(scr, c).cursor = Advanced(c, scr.cursor)
BY AdvancedIs, StoredIs DEF print_char, Screens


(* The screens between the characters of a text. *)
Texts == Seq(Chars \cup {NL})
Prints(f, scr, text) ==
  /\ f[0] = scr /\ kprint(scr, text) = f[Len(text)]
  /\ \A n \in 0..Len(text) : f[n] \in Screens
  /\ \A n \in 1..Len(text) : f[n] = print_char(f[n - 1], text[n])

LEMMA KprintIs ==
  ASSUME NEW scr \in Screens, NEW text \in Texts
  PROVE  \E f : Prints(f, scr, text)
<1> DEFINE N == Len(text)
           char(n) == IF n \in 1..N THEN text[n] ELSE NL
           g == [s \in Nat \X Screens |-> print_char(s[2], char(s[1] + 1))]
           after(h) == [n \in 0..N |-> IF n = 0 THEN scr ELSE print_char(h[n - 1], text[n])]
           a == CHOOSE h : h = after(h)
<1>1. N \in Nat /\ \A n \in 1..N : text[n] \in Chars \cup {NL}
  BY DEF Texts
<1>2. PICK f : f \in Iterations(Screens, scr, g)
  <2>1. \A n \in Nat : char(n) \in Chars \cup {NL}
    BY <1>1
  <2> HIDE DEF char
  <2>2. g \in StepsOn(Screens)
    BY <2>1, PrintedIs DEF StepsOn
  <2> HIDE DEF g
  <2> QED  BY <2>2, Iteration
<1>3. f[0] = scr /\ \A n \in Nat : f[n] \in Screens /\ f[n + 1] = print_char(f[n], char(n + 1))
  BY <1>2 DEF Iterations
<1> DEFINE l == [n \in 0..N |-> f[n]]
<1>4. \A n \in 1..N : n - 1 \in Nat /\ n - 1 \in 0..N /\ (n - 1) + 1 = n /\ char(n) = text[n]
  BY <1>1
<1>5. \A n \in 1..N : f[n] = print_char(f[n - 1], text[n])
  <2> HIDE DEF char
  <2> QED  BY <1>3, <1>4
<1> HIDE DEF char
<1>6. l = after(l)
  <2>1. ASSUME NEW n \in 0..N
        PROVE  f[n] = IF n = 0 THEN scr ELSE print_char(l[n - 1], text[n])
    <3>1. n # 0 => n \in 1..N
      BY <1>1
    <3> QED  BY <1>3, <1>4, <1>5, <3>1
  <2> QED  BY <2>1
<1>7. a = after(a)
  <2> HIDE DEF after, l
  <2> QED  BY <1>6, Zenon
<1>8. kprint(scr, text) = a[N]
  BY DEF kprint
<1> HIDE DEF a
<1>9. \A n \in 0..N : a[n] = f[n]
  <2> DEFINE T == {n \in Nat : n <= N => a[n] = f[n]}
  <2>1. 0 \in T
    BY <1>1, <1>3, <1>7
  <2>2. ASSUME NEW n \in Nat, n \in T
        PROVE  n + 1 \in T
    <3>1. SUFFICES ASSUME n + 1 <= N PROVE a[n + 1] = f[n + 1]
          OBVIOUS
    <3>2. n + 1 \in 1..N /\ n + 1 \in 0..N /\ (n + 1) - 1 = n /\ n + 1 # 0
      BY <1>1, <3>1
    <3>3. a[n + 1] = print_char(a[n], text[n + 1])
      BY <1>7, <3>2
    <3>4. a[n] = f[n]
      BY <1>1, <2>2, <3>1
    <3> QED  BY <1>5, <3>2, <3>3, <3>4
  <2>3. Nat \subseteq T
    <3> HIDE DEF T
    <3> QED  BY <2>1, <2>2, SetInduction
  <2> QED  BY <1>1, <2>3
<1>10. kprint(scr, text) = f[N]
  BY <1>1, <1>8, <1>9
<1>11. \A n \in 0..N : f[n] \in Screens
  BY <1>1, <1>3
<1> QED  BY <1>3, <1>5, <1>10, <1>11 DEF Prints

LEMMA KprintTypes ==
  ASSUME NEW scr \in Screens, NEW text \in Texts
  PROVE  kprint(scr, text) \in Screens
<1>1. PICK f : Prints(f, scr, text)
  BY KprintIs
<1>2. Len(text) \in 0..Len(text)
  BY DEF Texts
<1> QED  BY <1>1, <1>2 DEF Prints

(* A new line with a prompt, which the cursor is behind. *)
Ready(v, c) ==
  /\ c \in Cells /\ get_offset_col(c) = 2
  /\ v[c - 2] = ">" /\ v[c - 1] = Blank
Ends(text) ==
  /\ text \in Texts /\ Len(text) >= 3
  /\ text[Len(text) - 2] = NL /\ text[Len(text) - 1] = ">" /\ text[Len(text)] = Blank

LEMMA PromptIsReady ==
  ASSUME NEW scr \in Screens, NEW text, Ends(text)
  PROVE  Ready(kprint(scr, text).vidmem, kprint(scr, text).cursor)
<1> DEFINE N == Len(text)
<1>1. N \in Nat /\ N >= 3 /\ text \in Texts
      /\ text[N - 2] = NL /\ text[N - 1] = ">" /\ text[N] = Blank
  BY DEF Ends, Texts
<1> HIDE DEF N
<1>2. PICK f : Prints(f, scr, text)
  BY <1>1, KprintIs
<1>3. /\ f[N - 3] \in Screens /\ f[N - 2] \in Screens /\ f[N - 1] \in Screens /\ f[N] \in Screens
      /\ f[N - 2] = print_char(f[N - 3], NL)
      /\ f[N - 1] = print_char(f[N - 2], ">")
      /\ f[N] = print_char(f[N - 1], Blank)
  <2>1. /\ N - 3 \in 0..N /\ N - 2 \in 0..N /\ N - 1 \in 0..N /\ N \in 0..N
        /\ N - 2 \in 1..N /\ N - 1 \in 1..N /\ N \in 1..N
        /\ (N - 2) - 1 = N - 3 /\ (N - 1) - 1 = N - 2
    BY <1>1
  <2> QED  BY <1>1, <1>2, <2>1 DEF Prints, N
<1> DEFINE a == f[N - 2]
           b == f[N - 1]
<1>4. ">" \in Chars /\ Blank \in Chars /\ NL \in Chars \cup {NL} /\ ">" # NL /\ Blank # NL
  BY DEF Chars, Blank, NL
<1>5. a.cursor \in Cells /\ get_offset_col(a.cursor) = 0
  <2>1. a.cursor = Advanced(NL, f[N - 3].cursor) /\ f[N - 3].cursor \in Cells
    BY <1>3, <1>4, PrintedIs DEF Screens
  <2> QED  BY <2>1, AdvancedIs
<1>6. /\ b.cursor = a.cursor + 1 /\ b.cursor \in Cells /\ get_offset_col(b.cursor) = 1
      /\ b.vidmem \in Vidmems /\ b.vidmem[a.cursor] = ">"
  <2>1. b.cursor = Advanced(">", a.cursor) /\ b.vidmem = Stored(a.vidmem, ">", a.cursor)
        /\ a.vidmem \in Vidmems /\ b \in Screens
    BY <1>3, <1>4, PrintedIs DEF Screens
  <2>2. 0 < MAX_COLS - 1
    BY Numbers
  <2> HIDE DEF a, b
  <2> QED  BY <1>4, <1>5, <2>1, <2>2, AdvancedIs, StoredIs, RightIs DEF Screens
<1>7. /\ f[N].cursor = b.cursor + 1 /\ f[N].cursor \in Cells /\ get_offset_col(f[N].cursor) = 2
      /\ f[N].vidmem[b.cursor] = Blank /\ f[N].vidmem[a.cursor] = ">"
  <2>1. f[N].cursor = Advanced(Blank, b.cursor) /\ f[N].vidmem = Stored(b.vidmem, Blank, b.cursor)
        /\ b.vidmem \in Vidmems
    BY <1>3, <1>4, PrintedIs DEF Screens
  <2>2. 1 < MAX_COLS - 1 /\ a.cursor # b.cursor
    BY <1>5, <1>6, Numbers DEF Cells
  <2> HIDE DEF a, b
  <2>3. Next_offset(Blank, b.cursor) \in Cells /\ Advanced(Blank, b.cursor) = b.cursor + 1
    BY <1>4, <1>6, <2>2, AdvancedIs
  <2>4. b.cursor + 1 \in Cells /\ get_offset_col(b.cursor + 1) = 2
    BY <1>6, <2>2, RightIs
  <2>5. Stored(b.vidmem, Blank, b.cursor)[b.cursor] = Blank
        /\ Stored(b.vidmem, Blank, b.cursor)[a.cursor] = b.vidmem[a.cursor]
    BY <1>4, <1>5, <1>6, <2>1, <2>2, <2>3, StoredIs
  <2> QED  BY <1>6, <2>1, <2>3, <2>4, <2>5
<1>8. a.cursor \in Nat
  BY <1>5, CellIs
<1>9. f[N].cursor - 2 = a.cursor /\ f[N].cursor - 1 = b.cursor
  <2> HIDE DEF a, b
  <2> QED  BY <1>6, <1>7, <1>8
<1>10. kprint(scr, text) = f[N]
  BY <1>2 DEF Prints, N
<1> QED  BY <1>7, <1>9, <1>10 DEF Ready


(***************************************************************************)
(* What the two programs still have to do, by what is left of them         *)
(***************************************************************************)
LEMMA OpsAre ==
  /\ Clear \in Ops /\ Begin \in Ops /\ Move \in Ops
  /\ \A c \in {"B", ">", Blank, NL} : Put(c) \in Ops
  /\ \A i \in Columns : Wipe(i) \in Ops
BY DEF Ops

(* A text of two or three characters as the steps that print it. *)
LEMMA PrintingIs ==
  ASSUME NEW a, NEW b, NEW c
  PROVE  /\ Printing(<<a, b>>) = <<Begin, Put(a), Move, Put(b), Move>>
         /\ Printing(<<a, b, c>>) = <<Begin, Put(a), Move, Put(b), Move, Put(c), Move>>
<1>1. Printing(<<a, b>>) = <<Begin, Put(a), Move, Put(b), Move>>
  <2> DEFINE op(i) == IF i = 1 THEN Begin ELSE IF i % 2 = 0 THEN Put(<<a, b>>[i \div 2]) ELSE Move
  <2>1. Printing(<<a, b>>) = [i \in 1..5 |-> op(i)]
    BY DEF Printing
  <2>2. op(1) = Begin /\ op(2) = Put(a) /\ op(3) = Move /\ op(4) = Put(b) /\ op(5) = Move
    OBVIOUS
  <2> HIDE DEF op
  <2>3. \A i \in 1..5 : i = 1 \/ i = 2 \/ i = 3 \/ i = 4 \/ i = 5
    OBVIOUS
  <2> QED  BY <2>1, <2>2, <2>3
<1>2. Printing(<<a, b, c>>) = <<Begin, Put(a), Move, Put(b), Move, Put(c), Move>>
  <2> DEFINE op(i) == IF i = 1 THEN Begin ELSE IF i % 2 = 0 THEN Put(<<a, b, c>>[i \div 2]) ELSE Move
  <2>1. Printing(<<a, b, c>>) = [i \in 1..7 |-> op(i)]
    BY DEF Printing
  <2>2. /\ op(1) = Begin /\ op(2) = Put(a) /\ op(3) = Move /\ op(4) = Put(b) /\ op(5) = Move
        /\ op(6) = Put(c) /\ op(7) = Move
    OBVIOUS
  <2> HIDE DEF op
  <2>3. \A i \in 1..7 : i = 1 \/ i = 2 \/ i = 3 \/ i = 4 \/ i = 5 \/ i = 6 \/ i = 7
    OBVIOUS
  <2> QED  BY <2>1, <2>2, <2>3
<1> QED  BY <1>1, <1>2

LEMMA Joined ==
  ASSUME NEW s \in Seq(Ops), NEW t \in Seq(Ops)
  PROVE  /\ s \o t \in Seq(Ops) /\ Len(s \o t) = Len(s) + Len(t)
         /\ \A i \in 1..(Len(s) + Len(t)) :
              (s \o t)[i] = IF i <= Len(s) THEN s[i] ELSE t[i - Len(s)]
BY ConcatProperties

LEMMA BootIs ==
  /\ Boot \in Seq(Ops) /\ Len(Boot) = 11
  /\ Boot[5] = Put(NL) /\ Boot[6] = Move /\ Boot[7] = Begin
  /\ Boot[8] = Put(">") /\ Boot[9] = Move /\ Boot[10] = Put(Blank) /\ Boot[11] = Move
<1> DEFINE clear == <<Clear>>
           banner == <<Begin, Put("B"), Move, Put(NL), Move>>
           prompt == <<Begin, Put(">"), Move, Put(Blank), Move>>
           one == clear \o banner
<1>1. Boot = one \o prompt
  BY PrintingIs DEF Boot
<1>2. banner \in Seq(Ops) /\ Len(banner) = 5 /\ banner[4] = Put(NL) /\ banner[5] = Move
  BY OpsAre
<1>3. /\ prompt \in Seq(Ops) /\ Len(prompt) = 5 /\ prompt[1] = Begin /\ prompt[2] = Put(">")
      /\ prompt[3] = Move /\ prompt[4] = Put(Blank) /\ prompt[5] = Move
  BY OpsAre
<1>4. clear \in Seq(Ops) /\ Len(clear) = 1
  BY OpsAre
<1> HIDE DEF clear, banner, prompt
<1>5. one \in Seq(Ops) /\ Len(one) = 1 + 5
      /\ \A i \in 1..(1 + 5) : one[i] = IF i <= 1 THEN clear[i] ELSE banner[i - 1]
  <2>1. /\ one \in Seq(Ops) /\ Len(one) = Len(clear) + Len(banner)
        /\ \A i \in 1..(Len(clear) + Len(banner)) :
             one[i] = IF i <= Len(clear) THEN clear[i] ELSE banner[i - Len(clear)]
    BY <1>2, <1>4, Joined, Zenon
  <2> HIDE DEF one
  <2> QED  BY <1>2, <1>4, <2>1
<1>6. one[5] = Put(NL) /\ one[6] = Move
  <2> HIDE DEF one
  <2> QED  BY <1>2, <1>5
<1> HIDE DEF one
<1>7. Boot \in Seq(Ops) /\ Len(Boot) = 6 + 5
      /\ \A i \in 1..(6 + 5) : Boot[i] = IF i <= 6 THEN one[i] ELSE prompt[i - 6]
  <2>1. /\ Boot \in Seq(Ops) /\ Len(Boot) = Len(one) + Len(prompt)
        /\ \A i \in 1..(Len(one) + Len(prompt)) :
             Boot[i] = IF i <= Len(one) THEN one[i] ELSE prompt[i - Len(one)]
    BY <1>1, <1>3, <1>5, Joined, Zenon
  <2> QED  BY <1>3, <1>5, <2>1
<1> QED  BY <1>3, <1>6, <1>7

LEMMA LaunchIs ==
  LET T == Tail_of_launch
      W == MAX_COLS
  IN  /\ T \in Seq(Ops) /\ Len(T) = W + 15
      /\ \A i \in Columns : T[9 + i] = Wipe(i)
      /\ T[W + 9] = Begin /\ T[W + 10] = Put(NL) /\ T[W + 11] = Move
      /\ T[W + 12] = Put(">") /\ T[W + 13] = Move /\ T[W + 14] = Put(Blank) /\ T[W + 15] = Move
<1> DEFINE T == Tail_of_launch
           W == MAX_COLS
           top == <<Begin, Put("B"), Move, Put(">"), Move, Put(Blank), Move>>
           prompt == <<Begin, Put(NL), Move, Put(">"), Move, Put(Blank), Move>>
           clear == <<Clear>>
           one == clear \o top
           two == one \o Wiping
<1>1. T = two \o prompt
  BY PrintingIs DEF Tail_of_launch
<1>2. top \in Seq(Ops) /\ Len(top) = 7
  BY OpsAre
<1>3. /\ prompt \in Seq(Ops) /\ Len(prompt) = 7 /\ prompt[1] = Begin /\ prompt[2] = Put(NL)
      /\ prompt[3] = Move /\ prompt[4] = Put(">") /\ prompt[5] = Move
      /\ prompt[6] = Put(Blank) /\ prompt[7] = Move
  BY OpsAre
<1>4. clear \in Seq(Ops) /\ Len(clear) = 1
  BY OpsAre
<1> HIDE DEF clear, top, prompt
<1>5. one \in Seq(Ops) /\ Len(one) = 8
  <2>1. one \in Seq(Ops) /\ Len(one) = Len(clear) + Len(top)
    BY <1>2, <1>4, Joined, Zenon
  <2> HIDE DEF one
  <2> QED  BY <1>2, <1>4, <2>1
<1> HIDE DEF one
<1>6. Wiping \in Seq(Ops) /\ Len(Wiping) = W /\ \A i \in Columns : Wiping[i + 1] = Wipe(i)
  <2>1. \A i \in 1..W : i - 1 \in Columns
    BY Numbers DEF Columns
  <2>2. \A i \in Columns : i + 1 \in 1..W /\ (i + 1) - 1 = i
    BY Numbers DEF Columns
  <2> QED  BY <2>1, <2>2, OpsAre, Numbers DEF Wiping
<1>7. W \in Nat
  BY Numbers
<1> HIDE DEF T, W
<1>8. two \in Seq(Ops) /\ Len(two) = 8 + W
      /\ \A j \in 1..(8 + W) : two[j] = IF j <= 8 THEN one[j] ELSE Wiping[j - 8]
  <2>1. /\ two \in Seq(Ops) /\ Len(two) = Len(one) + Len(Wiping)
        /\ \A i \in 1..(Len(one) + Len(Wiping)) :
             two[i] = IF i <= Len(one) THEN one[i] ELSE Wiping[i - Len(one)]
    BY <1>5, <1>6, Joined, Zenon
  <2> HIDE DEF two
  <2> QED  BY <1>5, <1>6, <2>1
<1> HIDE DEF two
<1>9. T \in Seq(Ops) /\ Len(T) = (8 + W) + 7
      /\ \A j \in 1..((8 + W) + 7) : T[j] = IF j <= 8 + W THEN two[j] ELSE prompt[j - (8 + W)]
  <2>1. /\ T \in Seq(Ops) /\ Len(T) = Len(two) + Len(prompt)
        /\ \A i \in 1..(Len(two) + Len(prompt)) :
             T[i] = IF i <= Len(two) THEN two[i] ELSE prompt[i - Len(two)]
    BY <1>1, <1>3, <1>8, Joined, Zenon
  <2> QED  BY <1>3, <1>8, <2>1
<1>10. \A i \in Columns : T[9 + i] = Wipe(i)
  <2>1. ASSUME NEW i \in Columns
        PROVE  /\ 9 + i \in 1..((8 + W) + 7) /\ 9 + i <= 8 + W
               /\ 9 + i \in 1..(8 + W) /\ ~(9 + i <= 8) /\ (9 + i) - 8 = i + 1
    BY <1>7 DEF Columns, W
  <2> QED  BY <1>6, <1>8, <1>9, <2>1
<1>11. /\ T[W + 9] = prompt[1] /\ T[W + 10] = prompt[2] /\ T[W + 11] = prompt[3]
       /\ T[W + 12] = prompt[4] /\ T[W + 13] = prompt[5] /\ T[W + 14] = prompt[6]
       /\ T[W + 15] = prompt[7]
  <2>1. \A k \in 1..7 : T[(W + 8) + k] = prompt[k]
    <3>1. \A k \in 1..7 : /\ (W + 8) + k \in 1..((8 + W) + 7) /\ ~((W + 8) + k <= 8 + W)
                          /\ ((W + 8) + k) - (8 + W) = k
      BY <1>7
    <3> QED  BY <1>9, <3>1
  <2>2. /\ T[(W + 8) + 1] = prompt[1] /\ T[(W + 8) + 2] = prompt[2] /\ T[(W + 8) + 3] = prompt[3]
        /\ T[(W + 8) + 4] = prompt[4] /\ T[(W + 8) + 5] = prompt[5] /\ T[(W + 8) + 6] = prompt[6]
        /\ T[(W + 8) + 7] = prompt[7]
    BY <2>1
  <2>3. /\ (W + 8) + 1 = W + 9 /\ (W + 8) + 2 = W + 10 /\ (W + 8) + 3 = W + 11
        /\ (W + 8) + 4 = W + 12 /\ (W + 8) + 5 = W + 13 /\ (W + 8) + 6 = W + 14
        /\ (W + 8) + 7 = W + 15
    BY <1>7
  <2> QED  BY <2>2, <2>3
<1>12. Len(T) = W + 15
  BY <1>7, <1>9
<1> QED  BY <1>3, <1>9, <1>10, <1>11, <1>12 DEF T, W


(***************************************************************************)
(* The invariant                                                           *)
(*                                                                         *)
(* A program has a rest of its script to do.  In the tail of a launch the  *)
(* column of each step of the last prompt is known whatever was typed,     *)
(* since its newline starts a row; kernel_main, and what is on the screen  *)
(* and in the buffer, are known as long as nothing was typed.              *)
(***************************************************************************)
Script(by) == IF by = "boot" THEN Boot ELSE Tail_of_launch
Programs == [by : {"boot", "launch"}, todo : Seq(Ops), offset : Cells]
Rest(todo, script) ==
  /\ Len(todo) \in 1..Len(script)
  /\ \A j \in 1..Len(todo) : todo[j] = script[(Len(script) - Len(todo)) + j]

InColumn(p, left, col) == Len(p.todo) \in left => get_offset_col(p.offset) = col
InPlace(p) ==
  /\ InColumn(p, IF p.by = "boot" THEN {4} ELSE {4, 5}, 0)
  /\ InColumn(p, {2, 3}, 1) /\ InColumn(p, {1}, 2)

Scheduled(ps) ==
  /\ ps \in Seq(Programs)
  /\ \A i \in 1..Len(ps) : /\ Rest(ps[i].todo, Script(ps[i].by))
                           /\ ps[i].by = "launch" => InPlace(ps[i])

Undisturbed(p, v, c, b) ==
  /\ InPlace(p)
  /\ Len(p.todo) \in {2, 3} => v[p.offset - 1] = ">"
  /\ Len(p.todo) = 1 => v[p.offset - 2] = ">" /\ v[p.offset - 1] = Blank
  /\ p.by = "boot" =>
       /\ b = EmptyBuffer
       /\ InColumn(p, {6}, 0)
       /\ Len(p.todo) = 5 => get_offset_col(c) = 0
  /\ p.by = "launch" => \A i \in Columns : i < (MAX_COLS + 7) - Len(p.todo) => b[i] = NUL

(* The line: what the buffer has of it (Follows), and that it has nothing else
   and stands behind a prompt (Synced). *)
StartOf(c) == get_offset_row(c - 1) * MAX_COLS + 2
Follows(v, c, b) ==
  /\ StartOf(c) <= c
  /\ \A i \in Columns : StartOf(c) + i < c => b[i] = v[StartOf(c) + i] /\ b[i] \in Typed
Synced(v, c, b) ==
  /\ StartOf(c) <= c /\ v[StartOf(c) - 2] = ">" /\ v[StartOf(c) - 1] = Blank
  /\ \A i \in Columns : b[i] = IF StartOf(c) + i < c THEN v[StartOf(c) + i] ELSE NUL

Buffers == {b \in [Columns -> Typed \cup {NUL}] : b[MAX_COLS - 1] = NUL}
Counts == [{"boot", "launch"} -> 0..MaxAhead]

IInv ==
  /\ vidmem \in Vidmems /\ cursor \in Cells /\ key_buffer \in Buffers
  /\ ahead \in Counts /\ wrapped \in BOOLEAN
  /\ Scheduled(programs)
  /\ ~Idle /\ programs[1].by = "boot" => ahead.launch = 0
  /\ ~Idle /\ ahead = InTime =>
       Len(programs) = 1 /\ Undisturbed(programs[1], vidmem, cursor, key_buffer)
  /\ Idle /\ ahead.boot = 0 /\ ~wrapped => Follows(vidmem, cursor, key_buffer)
  /\ Idle /\ ahead = InTime /\ ~wrapped => Synced(vidmem, cursor, key_buffer)

(***************************************************************************)
(* Steps of a program                                                      *)
(***************************************************************************)
LEMMA ScriptIs ==
  ASSUME NEW by
  PROVE  Script(by) \in Seq(Ops) /\ Len(Script(by)) \in Nat
BY BootIs, LaunchIs DEF Script

(* The next step by what is left to do. *)
LEMMA NextOp ==
  ASSUME NEW p \in Programs, Rest(p.todo, Script(p.by))
  PROVE  LET m == Len(p.todo)
             do == Head(p.todo)
         IN  /\ m \in Nat /\ m # 0 /\ do \in Ops
             /\ m = 1 \/ m = 3 => do = Move
             /\ m = 2 => do = Put(Blank)
             /\ m = 4 => do = Put(">")
             /\ p.by = "boot" => /\ m = 5 => do = Begin
                                 /\ m = 6 => do = Move
                                 /\ m = 7 => do = Put(NL)
             /\ p.by = "launch" => /\ m = 5 => do = Move
                                   /\ m = 6 => do = Put(NL)
                                   /\ m = 7 => do = Begin
                                   /\ \A i \in Columns : m = (MAX_COLS + 7) - i => do = Wipe(i)
<1> DEFINE m == Len(p.todo)
           do == Head(p.todo)
           S == Script(p.by)
<1>1. p.todo \in Seq(Ops) /\ p.by \in {"boot", "launch"}
  BY DEF Programs
<1>2. m \in Nat /\ m # 0 /\ m <= Len(S) /\ do = p.todo[1] /\ 1 \in 1..m
      /\ do = S[(Len(S) - m) + 1]
  <2>1. Len(S) \in Nat /\ m \in 1..Len(S) /\ \A j \in 1..m : p.todo[j] = S[(Len(S) - m) + j]
    BY ScriptIs DEF Rest
  <2> HIDE DEF S, m
  <2>2. m \in Nat /\ m # 0 /\ m <= Len(S) /\ 1 \in 1..m
    BY <2>1
  <2>3. do = p.todo[1]
    BY <1>1, <2>2 DEF m
  <2> QED  BY <2>1, <2>2, <2>3
<1>3. do \in Ops
  BY <1>1, <1>2
<1> HIDE DEF m, do, S
<1>4. CASE p.by = "boot"
  <2>1. do = Boot[(11 - m) + 1]
    BY <1>2, <1>4, BootIs DEF S, Script
  <2>2. /\ m = 1 => (11 - m) + 1 = 11
        /\ m = 2 => (11 - m) + 1 = 10
        /\ m = 3 => (11 - m) + 1 = 9
        /\ m = 4 => (11 - m) + 1 = 8
        /\ m = 5 => (11 - m) + 1 = 7
        /\ m = 6 => (11 - m) + 1 = 6
        /\ m = 7 => (11 - m) + 1 = 5
    BY <1>2
  <2>3. /\ m = 1 \/ m = 3 => do = Move
        /\ m = 2 => do = Put(Blank)
        /\ m = 4 => do = Put(">")
        /\ m = 5 => do = Begin
        /\ m = 6 => do = Move
        /\ m = 7 => do = Put(NL)
    BY <2>1, <2>2, BootIs
  <2> QED  BY <1>2, <1>3, <1>4, <2>3 DEF m, do
<1>5. CASE p.by = "launch"
  <2> DEFINE W == MAX_COLS
  <2>1. do = Tail_of_launch[((W + 15) - m) + 1]
    BY <1>2, <1>5, LaunchIs DEF S, Script
  <2>2. W \in Nat
    BY Numbers
  <2>3. \A i \in Columns : m = (W + 7) - i => ((W + 15) - m) + 1 = 9 + i
    BY <1>2, <2>2 DEF Columns
  <2>4. \A i \in Columns : m = (W + 7) - i => do = Wipe(i)
    BY <2>1, <2>3, LaunchIs
  <2> HIDE DEF W
  <2>5. /\ m = 1 => ((W + 15) - m) + 1 = W + 15
        /\ m = 2 => ((W + 15) - m) + 1 = W + 14
        /\ m = 3 => ((W + 15) - m) + 1 = W + 13
        /\ m = 4 => ((W + 15) - m) + 1 = W + 12
        /\ m = 5 => ((W + 15) - m) + 1 = W + 11
        /\ m = 6 => ((W + 15) - m) + 1 = W + 10
        /\ m = 7 => ((W + 15) - m) + 1 = W + 9
    BY <1>2, <2>2
  <2>6. /\ m = 1 \/ m = 3 => do = Move
        /\ m = 2 => do = Put(Blank)
        /\ m = 4 => do = Put(">")
        /\ m = 5 => do = Move
        /\ m = 6 => do = Put(NL)
        /\ m = 7 => do = Begin
    BY <2>1, <2>5, LaunchIs DEF W
  <2> QED  BY <1>2, <1>3, <1>5, <2>4, <2>6 DEF m, do, W
<1> QED  BY <1>1, <1>4, <1>5

(* The program after a step that is not its last, the cursor having been c. *)
After(do, at, c) ==
  IF do.op = "begin" THEN c ELSE IF do.op = "put" THEN Advanced(do.char, at) ELSE at
Gone(p, q, c) ==
  /\ q \in Programs /\ q.by = p.by /\ q.todo = Tail(p.todo)
  /\ q.offset = After(Head(p.todo), p.offset, c)

LEMMA RestGoes ==
  ASSUME NEW p \in Programs, NEW q \in Programs, NEW script, Rest(p.todo, script),
         Len(p.todo) # 1, q.todo = Tail(p.todo), Len(script) \in Nat
  PROVE  Rest(q.todo, script) /\ Len(q.todo) = Len(p.todo) - 1
<1> DEFINE m == Len(p.todo)
<1>1. p.todo \in Seq(Ops) /\ m \in 1..Len(script) /\ p.todo # <<>>
  BY DEF Programs, Rest
<1>2. Len(q.todo) = m - 1 /\ \A j \in 1..(m - 1) : q.todo[j] = p.todo[j + 1]
  BY <1>1
<1>3. \A j \in 1..(m - 1) : /\ j + 1 \in 1..m
                            /\ (Len(script) - m) + (j + 1) = (Len(script) - (m - 1)) + j
  BY <1>1
<1>4. m # 1 /\ \A j \in 1..m : p.todo[j] = script[(Len(script) - m) + j]
  BY Zenon DEF Rest
<1> HIDE DEF m
<1>5. m - 1 \in 1..Len(script)
  BY <1>1, <1>4
<1>6. \A j \in 1..(m - 1) : q.todo[j] = script[(Len(script) - (m - 1)) + j]
  BY <1>2, <1>3, <1>4
<1> QED  BY <1>2, <1>5, <1>6 DEF Rest, m

LEMMA PlaceKept ==
  ASSUME NEW p \in Programs, NEW q, NEW c \in Cells, Gone(p, q, c),
         Rest(p.todo, Script(p.by)), Len(q.todo) = Len(p.todo) - 1, InPlace(p),
         p.by = "boot" /\ Len(p.todo) = 5 => get_offset_col(c) = 0
  PROVE  /\ InPlace(q)
         /\ Len(q.todo) \in {1, 3} =>
              /\ q.offset = p.offset + 1
              /\ Next_offset(Head(p.todo).char, p.offset) \in Cells
<1> DEFINE m == Len(p.todo)
           do == Head(p.todo)
           o == p.offset
           x == q.offset
<1>1. /\ m \in Nat /\ m # 0
      /\ m = 1 \/ m = 3 => do = Move
      /\ m = 2 => do = Put(Blank)
      /\ m = 4 => do = Put(">")
      /\ p.by = "boot" => (m = 5 => do = Begin)
      /\ p.by = "launch" => (m = 5 => do = Move) /\ (m = 6 => do = Put(NL))
  BY NextOp
<1>2. o \in Cells /\ p.by \in {"boot", "launch"} /\ x = After(do, o, c) /\ q.by = p.by
  BY DEF Gone, Programs
<1>3. /\ m = 4 => get_offset_col(o) = 0
      /\ p.by = "launch" /\ m = 5 => get_offset_col(o) = 0
      /\ m \in {2, 3} => get_offset_col(o) = 1
  BY <1>2 DEF InPlace, InColumn
<1> HIDE DEF m, do, o, x
<1>4. \A k : Put(k).op = "put" /\ Put(k).char = k
  BY DEF Put
<1>5. Begin.op = "begin" /\ Move.op = "move"
  BY DEF Begin, Move
<1>6. ">" # NL /\ Blank # NL /\ 0 < MAX_COLS - 1 /\ 1 < MAX_COLS - 1
  BY Numbers DEF NL, Blank
<1>7. m = 6 /\ p.by = "launch" => get_offset_col(x) = 0
  BY <1>1, <1>2, <1>4, AdvancedIs DEF After
<1>8. m = 5 => get_offset_col(x) = 0
  BY <1>1, <1>2, <1>3, <1>5 DEF After, m
<1>9. m = 4 => get_offset_col(x) = 1 /\ x = o + 1 /\ Next_offset(do.char, o) \in Cells
  <2> SUFFICES ASSUME m = 4
               PROVE  get_offset_col(x) = 1 /\ x = o + 1 /\ Next_offset(do.char, o) \in Cells
    OBVIOUS
  <2>1. do.char = ">" /\ x = Advanced(">", o) /\ get_offset_col(o) = 0
    BY <1>1, <1>2, <1>3, <1>4 DEF After
  <2> QED  BY <1>2, <1>6, <2>1, AdvancedIs, RightIs
<1>10. m = 3 => get_offset_col(x) = 1
  BY <1>1, <1>2, <1>3, <1>5 DEF After
<1>11. m = 2 => get_offset_col(x) = 2 /\ x = o + 1 /\ Next_offset(do.char, o) \in Cells
  <2> SUFFICES ASSUME m = 2
               PROVE  get_offset_col(x) = 2 /\ x = o + 1 /\ Next_offset(do.char, o) \in Cells
    OBVIOUS
  <2>1. do.char = Blank /\ x = Advanced(Blank, o) /\ get_offset_col(o) = 1
    BY <1>1, <1>2, <1>3, <1>4 DEF After
  <2> QED  BY <1>2, <1>6, <2>1, AdvancedIs, RightIs
<1> DEFINE n == Len(q.todo)
<1>12. n = m - 1
  BY DEF m
<1> HIDE DEF n
<1>13. InColumn(q, IF q.by = "boot" THEN {4} ELSE {4, 5}, 0)
  <2>1. n = 4 => get_offset_col(x) = 0
    BY <1>1, <1>8, <1>12
  <2>2. n = 5 /\ q.by # "boot" => get_offset_col(x) = 0
    BY <1>1, <1>2, <1>7, <1>12
  <2> QED  BY <2>1, <2>2 DEF InColumn, x, n
<1>14. InColumn(q, {2, 3}, 1) /\ InColumn(q, {1}, 2)
  <2>1. /\ n = 3 \/ n = 2 => get_offset_col(x) = 1
        /\ n = 1 => get_offset_col(x) = 2
    BY <1>1, <1>9, <1>10, <1>11, <1>12
  <2> QED  BY <2>1 DEF InColumn, x, n
<1>15. n = 1 \/ n = 3 => x = o + 1 /\ Next_offset(do.char, o) \in Cells
  BY <1>1, <1>9, <1>11, <1>12
<1> QED  BY <1>13, <1>14, <1>15 DEF InPlace, x, o, do, n

(* A step's effect on the screen, the cursor and the buffer. *)
Effect(do, at, v, c, b, v2, c2, b2) ==
  \/ do.op = "clear" /\ v2 = Cleared.vidmem /\ c2 = 0 /\ b2 = b
  \/ do.op = "begin" /\ v2 = v /\ c2 = c /\ b2 = b
  \/ do.op = "put" /\ v2 = Stored(v, do.char, at) /\ c2 = c /\ b2 = b
  \/ do.op = "move" /\ v2 = v /\ c2 = at /\ b2 = b
  \/ do.op = "wipe" /\ v2 = v /\ c2 = c /\ b2 = [b EXCEPT ![do.index] = NUL]

LEMMA OpIs ==
  ASSUME NEW do \in Ops
  PROVE  \/ do = Clear /\ do.op = "clear"
         \/ do = Begin /\ do.op = "begin"
         \/ do = Move /\ do.op = "move"
         \/ do.op = "put" /\ do.char \in Chars \cup {NL}
         \/ do.op = "wipe" /\ do.index \in Columns
<1>1. CASE do \in {Clear, Begin, Move}
  BY <1>1 DEF Clear, Begin, Move
<1>2. CASE \E k \in {"B", ">", Blank, NL} : do = Put(k)
  BY <1>2 DEF Put, Chars
<1>3. CASE \E i \in Columns : do = Wipe(i)
  BY <1>3 DEF Wipe
<1> QED  BY <1>1, <1>2, <1>3 DEF Ops

LEMMA EffectTypes ==
  ASSUME NEW do \in Ops, NEW at \in Cells,
         NEW v \in Vidmems, NEW c \in Cells, NEW b \in Buffers, NEW v2, NEW c2, NEW b2,
         Effect(do, at, v, c, b, v2, c2, b2)
  PROVE  /\ v2 \in Vidmems /\ c2 \in Cells /\ b2 \in Buffers /\ After(do, at, c) \in Cells
         /\ \A i \in Columns : b2[i] = b[i] \/ b2[i] = NUL
<1>1. Cleared.vidmem \in Vidmems
  BY DEF Cleared, Vidmems, Chars
<1>2. do.op = "put" => Stored(v, do.char, at) \in Vidmems /\ Advanced(do.char, at) \in Cells
  <2>1. do.op = "put" => do.char \in Chars \cup {NL}
    BY OpIs DEF Clear, Begin, Move
  <2> QED  BY <2>1, StoredIs, AdvancedIs
<1>3. ASSUME NEW k, NEW d, d = [b EXCEPT ![k] = NUL]
      PROVE  d \in Buffers /\ \A i \in Columns : d[i] = b[i] \/ d[i] = NUL
  <2>1. b \in [Columns -> Typed \cup {NUL}] /\ b[MAX_COLS - 1] = NUL /\ MAX_COLS - 1 \in Columns
    BY Numbers DEF Buffers, Columns
  <2>2. d \in [Columns -> Typed \cup {NUL}]
    BY <1>3, <2>1
  <2>3. \A i \in Columns : d[i] = b[i] \/ d[i] = NUL
    BY <1>3, <2>1
  <2> QED  BY <2>1, <2>2, <2>3 DEF Buffers
<1>4. v2 \in Vidmems
  BY <1>1, <1>2 DEF Effect
<1>5. c2 \in Cells
  BY Numbers DEF Effect
<1>6. b2 \in Buffers /\ \A i \in Columns : b2[i] = b[i] \/ b2[i] = NUL
  BY <1>3 DEF Effect
<1>7. After(do, at, c) \in Cells
  BY <1>2 DEF After
<1> QED  BY <1>4, <1>5, <1>6, <1>7

LEMMA UndisturbedKept ==
  ASSUME NEW p \in Programs, NEW q, NEW v \in Vidmems, NEW c \in Cells, NEW b \in Buffers,
         NEW v2, NEW c2, NEW b2,
         Gone(p, q, c), Effect(Head(p.todo), p.offset, v, c, b, v2, c2, b2),
         Rest(p.todo, Script(p.by)), Len(q.todo) = Len(p.todo) - 1, Undisturbed(p, v, c, b)
  PROVE  Undisturbed(q, v2, c2, b2)
<1> DEFINE m == Len(p.todo)
           n == Len(q.todo)
           do == Head(p.todo)
           o == p.offset
           x == q.offset
<1>1. /\ m \in Nat /\ m # 0 /\ do \in Ops
      /\ m = 1 \/ m = 3 => do = Move
      /\ m = 2 => do = Put(Blank)
      /\ m = 4 => do = Put(">")
      /\ p.by = "boot" => (m = 6 => do = Move) /\ (m = 7 => do = Put(NL))
      /\ p.by = "launch" => \A i \in Columns : m = (MAX_COLS + 7) - i => do = Wipe(i)
  BY NextOp
<1>2. o \in Cells /\ p.by \in {"boot", "launch"} /\ x = After(do, o, c) /\ q.by = p.by
  BY DEF Gone, Programs
<1>3. InPlace(p) /\ (p.by = "boot" => (m = 5 => get_offset_col(c) = 0))
  BY Zenon DEF Undisturbed
<1>4. InPlace(q) /\ (n = 1 \/ n = 3 => x = o + 1 /\ Next_offset(do.char, o) \in Cells)
  BY <1>3, PlaceKept
<1>5. /\ m \in {2, 3} => v[o - 1] = ">"
      /\ p.by = "boot" => b = EmptyBuffer /\ (m = 6 => get_offset_col(o) = 0)
      /\ p.by = "launch" => \A i \in Columns : i < (MAX_COLS + 7) - m => b[i] = NUL
      /\ m \in {2, 3} => get_offset_col(o) = 1
  BY DEF Undisturbed, InPlace, InColumn
<1>6. Effect(do, o, v, c, b, v2, c2, b2)
  OBVIOUS
<1>7. n = m - 1
  OBVIOUS
<1> HIDE DEF m, n, do, o, x
<1>8. \A k : Put(k).op = "put" /\ Put(k).char = k
  BY DEF Put
<1>9. Move.op = "move" /\ \A i : Wipe(i).op = "wipe" /\ Wipe(i).index = i
  BY DEF Move, Wipe
<1>10. n = 3 => v2[x - 1] = ">"
  <2> SUFFICES ASSUME n = 3 PROVE v2[x - 1] = ">"
    OBVIOUS
  <2>1. do = Put(">") /\ x = o + 1 /\ Next_offset(do.char, o) \in Cells
    BY <1>1, <1>4, <1>7
  <2>2. do.op = "put" /\ do.char = ">" /\ ">" # NL /\ ">" \in Chars
    BY <1>8, <2>1 DEF NL, Chars
  <2>3. v2 = Stored(v, ">", o)
    BY <1>6, <2>2 DEF Effect
  <2>4. v2[o] = ">"
    BY <1>2, <2>1, <2>2, <2>3, StoredIs
  <2>5. x - 1 = o
    BY <1>2, <2>1, CellIs
  <2> QED  BY <2>4, <2>5
<1>11. n = 2 => v2[x - 1] = ">"
  <2> SUFFICES ASSUME n = 2 PROVE v2[x - 1] = ">"
    OBVIOUS
  <2>1. m = 3 /\ do.op = "move" /\ v[o - 1] = ">"
    BY <1>1, <1>5, <1>7, <1>9
  <2>2. v2 = v /\ x = o
    BY <1>2, <1>6, <2>1 DEF Effect, After
  <2> QED  BY <2>1, <2>2
<1>12. n = 1 => v2[x - 2] = ">" /\ v2[x - 1] = Blank
  <2> SUFFICES ASSUME n = 1 PROVE v2[x - 2] = ">" /\ v2[x - 1] = Blank
    OBVIOUS
  <2>1. m = 2 /\ do = Put(Blank) /\ x = o + 1 /\ Next_offset(do.char, o) \in Cells
        /\ v[o - 1] = ">" /\ get_offset_col(o) = 1
    BY <1>1, <1>4, <1>5, <1>7
  <2>2. do.op = "put" /\ do.char = Blank /\ Blank # NL /\ Blank \in Chars
    BY <1>8, <2>1 DEF NL, Blank, Chars
  <2>3. v2 = Stored(v, Blank, o)
    BY <1>6, <2>2 DEF Effect
  <2>4. o - 1 \in Cells /\ o \in Nat
    BY <1>2, <2>1, LeftIs, CellIs
  <2>5. v2[o] = Blank /\ v2[o - 1] = v[o - 1]
    BY <1>2, <2>1, <2>2, <2>3, <2>4, StoredIs
  <2>6. x - 1 = o /\ x - 2 = o - 1
    BY <2>1, <2>4
  <2> QED  BY <2>1, <2>5, <2>6
<1>13. p.by = "boot" => b2 = EmptyBuffer
  <2>1. \A i : [EmptyBuffer EXCEPT ![i] = NUL] = EmptyBuffer
    BY DEF EmptyBuffer
  <2> QED  BY <1>5, <1>6, <2>1 DEF Effect
<1>14. p.by = "boot" => (n = 6 => get_offset_col(x) = 0)
  <2> SUFFICES ASSUME p.by = "boot", n = 6 PROVE get_offset_col(x) = 0
    OBVIOUS
  <2>1. do = Put(NL)
    BY <1>1, <1>7
  <2>2. x = Advanced(NL, o)
    BY <1>2, <1>8, <2>1 DEF After
  <2> QED  BY <1>2, <2>2, AdvancedIs
<1>15. p.by = "boot" => (n = 5 => get_offset_col(c2) = 0)
  <2> SUFFICES ASSUME p.by = "boot", n = 5 PROVE get_offset_col(c2) = 0
    OBVIOUS
  <2>1. m = 6 /\ do.op = "move" /\ get_offset_col(o) = 0
    BY <1>1, <1>5, <1>7, <1>9
  <2>2. c2 = o
    BY <1>6, <2>1 DEF Effect
  <2> QED  BY <2>1, <2>2
<1>16. p.by = "launch" => \A i \in Columns : i < (MAX_COLS + 7) - n => b2[i] = NUL
  <2> SUFFICES ASSUME p.by = "launch", NEW i \in Columns, i < (MAX_COLS + 7) - n
               PROVE  b2[i] = NUL
    OBVIOUS
  <2>1. b2[i] = b[i] \/ b2[i] = NUL
    BY <1>1, <1>2, <1>6, EffectTypes
  <2>2. i < (MAX_COLS + 7) - m \/ m = (MAX_COLS + 7) - i
    BY <1>1, <1>7, Numbers DEF Columns
  <2>3. CASE i < (MAX_COLS + 7) - m
    BY <1>5, <2>1, <2>3
  <2>4. CASE m = (MAX_COLS + 7) - i
    <3>1. do = Wipe(i)
      BY <1>1, <2>4
    <3>2. do.op = "wipe" /\ do.index = i
      BY <1>9, <3>1
    <3>3. b2 = [b EXCEPT ![i] = NUL]
      BY <1>6, <3>2 DEF Effect
    <3> QED  BY <3>3 DEF Buffers
  <2> QED  BY <2>2, <2>3, <2>4
<1>17. n \in {2, 3} => v2[x - 1] = ">"
  BY <1>10, <1>11
<1> QED
  BY <1>2, <1>4, <1>12, <1>13, <1>14, <1>15, <1>16, <1>17, Zenon
  DEF Undisturbed, InColumn, n, x

(* The last program of a list after a step: done, or with one step less. *)
Continues(ps, ps2, x) ==
  ps2 = IF Len(ps[Len(ps)].todo) = 1 THEN Front(ps)
        ELSE [ps EXCEPT ![Len(ps)].todo = Tail(@), ![Len(ps)].offset = x]

Later(p, t, x) == [[p EXCEPT !.todo = t] EXCEPT !.offset = x]
LEMMA LaterIs ==
  ASSUME NEW p \in Programs, NEW t \in Seq(Ops), NEW x \in Cells
  PROVE  Later(p, t, x) = [by |-> p.by, todo |-> t, offset |-> x]
<1> DEFINE one == [p EXCEPT !.todo = t]
           two == [one EXCEPT !.offset = x]
           TodoSet == Seq(Ops)
<1>1. p \in [by : {"boot", "launch"}, todo : TodoSet, offset : Cells] /\ t \in TodoSet
  BY DEF Programs
<1> HIDE DEF TodoSet
<1>2. one \in [by : {"boot", "launch"}, todo : TodoSet, offset : Cells] /\ one.by = p.by /\ one.todo = t
  BY <1>1
<1> HIDE DEF one
<1>3. two = [by |-> one.by, todo |-> one.todo, offset |-> x]
  BY <1>2
<1> QED  BY <1>2, <1>3 DEF Later, one

LEMMA Shortened ==
  ASSUME NEW S, NEW s \in Seq(S), NEW n \in Nat, n <= Len(s)
  PROVE  Len(SubSeq(s, 1, n)) = n /\ \A i \in 1..n : SubSeq(s, 1, n)[i] = s[i]
OBVIOUS

LEMMA ContinueIs ==
  ASSUME NEW ps, Scheduled(ps), ps # <<>>, NEW ps2, NEW c \in Cells, NEW x \in Cells,
         x = After(Head(ps[Len(ps)].todo), ps[Len(ps)].offset, c), Continues(ps, ps2, x)
  PROVE  LET N == Len(ps)
             p == ps[N]
             left == IF Len(p.todo) = 1 THEN N - 1 ELSE N
         IN  /\ N \in Nat /\ N # 0 /\ p \in Programs
             /\ ps2 \in Seq(Programs) /\ Len(ps2) = left
             /\ \A i \in 1..(N - 1) : ps2[i] = ps[i]
             /\ Len(p.todo) # 1 => Gone(p, ps2[N], c) /\ Len(ps2[N].todo) = Len(p.todo) - 1
                                   /\ Rest(ps2[N].todo, Script(p.by))
<1> DEFINE N == Len(ps)
           p == ps[N]
           r == [by |-> p.by, todo |-> Tail(p.todo), offset |-> x]
<1>1. ps \in Seq(Programs) /\ N \in Nat /\ N # 0 /\ p \in Programs /\ N \in 1..N
      /\ Rest(p.todo, Script(p.by))
  <2>1. ps \in Seq(Programs)
    BY DEF Scheduled
  <2>2. N \in Nat /\ N # 0
    BY <2>1
  <2>3. N \in 1..N
    BY <2>2
  <2> QED  BY <2>1, <2>2, <2>3 DEF Scheduled
<1>2. p.todo \in Seq(Ops) /\ p.todo # <<>> /\ Len(p.todo) \in Nat /\ p.by \in {"boot", "launch"}
  BY <1>1 DEF Programs, Rest
<1>3. CASE Len(p.todo) = 1
  <2>1. ps2 = SubSeq(ps, 1, N - 1)
    BY <1>3 DEF Continues, Front
  <2>2. ps2 \in Seq(Programs) /\ Len(ps2) = N - 1 /\ \A i \in 1..(N - 1) : ps2[i] = ps[i]
    <3> HIDE DEF N, p, r
    <3>1. N - 1 \in Nat /\ 1..(N - 1) \subseteq 1..N
      BY <1>1
    <3>2. SubSeq(ps, 1, N - 1) \in Seq(Programs)
      BY <1>1, <3>1 DEF N
    <3>3. Len(SubSeq(ps, 1, N - 1)) = N - 1
          /\ \A i \in 1..(N - 1) : SubSeq(ps, 1, N - 1)[i] = ps[i]
      <4>1. N - 1 <= Len(ps)
        BY <1>1 DEF N
      <4> QED  BY <1>1, <3>1, <4>1, Shortened
    <3> QED  BY <2>1, <3>2, <3>3
  <2> QED  BY <1>1, <1>3, <2>2
<1>4. CASE Len(p.todo) # 1
  <2>1. r \in Programs
    BY <1>2 DEF Programs
  <2>2. ps2 = [ps EXCEPT ![N].todo = Tail(@), ![N].offset = x]
    BY <1>4 DEF Continues
  <2>3. Later(p, Tail(p.todo), x) = r
    <3>1. Tail(p.todo) \in Seq(Ops)
      BY <1>2
    <3> QED  BY <1>1, <3>1, LaterIs
  <2>4. [[p EXCEPT !.todo = Tail(@)] EXCEPT !.offset = x] = r
    BY <2>3 DEF Later
  <2>5. ps2 = [ps EXCEPT ![N] = r]
    BY <1>1, <2>2, <2>4
  <2> HIDE DEF r
  <2>6. ps2 \in Seq(Programs) /\ Len(ps2) = N /\ ps2[N] = r /\ \A i \in 1..(N - 1) : ps2[i] = ps[i]
    BY <1>1, <2>1, <2>5
  <2>7. r.by = p.by /\ r.todo = Tail(p.todo) /\ r.offset = x
    BY DEF r
  <2>8. Gone(p, r, c)
    BY <2>1, <2>7 DEF Gone
  <2>9. Rest(r.todo, Script(p.by)) /\ Len(r.todo) = Len(p.todo) - 1
    BY <1>1, <1>4, <2>1, <2>7, ScriptIs, RestGoes
  <2> QED  BY <1>1, <1>4, <2>6, <2>8, <2>9
<1> QED  BY <1>3, <1>4

LEMMA ScheduledKept ==
  ASSUME NEW ps, Scheduled(ps), ps # <<>>, NEW ps2, NEW c \in Cells, NEW x \in Cells,
         x = After(Head(ps[Len(ps)].todo), ps[Len(ps)].offset, c), Continues(ps, ps2, x)
  PROVE  Scheduled(ps2)
<1> DEFINE N == Len(ps)
           p == ps[N]
           left == IF Len(p.todo) = 1 THEN N - 1 ELSE N
<1>1. /\ N \in Nat /\ N # 0 /\ p \in Programs
      /\ ps2 \in Seq(Programs) /\ Len(ps2) = left
      /\ \A i \in 1..(N - 1) : ps2[i] = ps[i]
      /\ Len(p.todo) # 1 => Gone(p, ps2[N], c) /\ Len(ps2[N].todo) = Len(p.todo) - 1
                            /\ Rest(ps2[N].todo, Script(p.by))
  BY ContinueIs
<1>2. \A i \in 1..N : Rest(ps[i].todo, Script(ps[i].by)) /\ (ps[i].by = "launch" => InPlace(ps[i]))
  BY DEF Scheduled
<1> HIDE DEF N
<1>3. N \in 1..N /\ 1..(N - 1) \subseteq 1..N
  BY <1>1
<1>4. Len(p.todo) # 1 => /\ Rest(ps2[N].todo, Script(ps2[N].by))
                         /\ ps2[N].by = "launch" => InPlace(ps2[N])
  <2> SUFFICES ASSUME Len(p.todo) # 1
               PROVE  /\ Rest(ps2[N].todo, Script(ps2[N].by))
                      /\ ps2[N].by = "launch" => InPlace(ps2[N])
    OBVIOUS
  <2>1. ps2[N].by = p.by
    BY <1>1 DEF Gone
  <2>2. p.by = "launch" => p.by # "boot" /\ InPlace(p)
    BY <1>2, <1>3
  <2> HIDE DEF p
  <2>3. p.by = "launch" => InPlace(ps2[N])
    BY <1>1, <1>2, <1>3, <2>2, PlaceKept DEF p
  <2> QED  BY <1>1, <2>1, <2>3
<1>5. ASSUME NEW i \in 1..left
      PROVE  Rest(ps2[i].todo, Script(ps2[i].by)) /\ (ps2[i].by = "launch" => InPlace(ps2[i]))
  <2>1. i \in 1..(N - 1) \/ (i = N /\ Len(p.todo) # 1)
    BY <1>1, <1>5
  <2>2. CASE i \in 1..(N - 1)
    BY <1>1, <1>2, <1>3, <2>2
  <2> QED  BY <1>4, <2>1, <2>2
<1> HIDE DEF p, left
<1> QED  BY <1>1, <1>5 DEF Scheduled

(* Where the line starts, by the column of the cursor. *)
LEMMA StartIs ==
  ASSUME NEW c \in Cells, get_offset_col(c) # 0
  PROVE  StartOf(c) = (c - get_offset_col(c)) + 2
<1> DEFINE r == get_offset_row(c)
           k == get_offset_col(c)
<1>1. get_offset_row(c - 1) = r /\ c = r * MAX_COLS + k /\ r \in Nat /\ k \in Columns
  BY LeftIs, CellIs
<1>2. StartOf(c) = r * MAX_COLS + 2
  BY <1>1 DEF StartOf
<1> HIDE DEF r, k
<1>3. r * MAX_COLS \in Nat
  BY <1>1, RowOf
<1> QED  BY <1>1, <1>2, <1>3 DEF Columns, k

LEMMA InTimeIs ==
  ASSUME NEW a \in Counts
  PROVE  a = InTime <=> a.boot = 0 /\ a.launch = 0
<1>1. InTime.boot = 0 /\ InTime.launch = 0 /\ DOMAIN InTime = {"boot", "launch"}
  BY DEF InTime
<1>2. a.boot = 0 /\ a.launch = 0 => a = [s \in {"boot", "launch"} |-> 0]
  BY DEF Counts
<1>3. InTime = [s \in {"boot", "launch"} |-> 0]
  BY DEF InTime
<1> QED  BY <1>1, <1>2, <1>3

(* Behind a new prompt the line is empty. *)
LEMMA NewLineIs ==
  ASSUME NEW v, NEW c \in Cells, NEW b, get_offset_col(c) = 2
  PROVE  /\ Follows(v, c, b)
         /\ v[c - 2] = ">" /\ v[c - 1] = Blank /\ (\A i \in Columns : b[i] = NUL) => Synced(v, c, b)
<1>1. StartOf(c) = c /\ c \in Int
  <2>1. StartOf(c) = (c - 2) + 2 /\ c \in Nat
    BY StartIs, CellIs
  <2> QED  BY <2>1
<1>2. \A i \in Columns : ~(c + i < c)
  BY <1>1, Numbers DEF Columns
<1> QED  BY <1>1, <1>2 DEF Follows, Synced

LEMMA StepIs ==
  ASSUME Step
  PROVE  LET p == programs[Len(programs)]
             do == Head(p.todo)
         IN  /\ programs # <<>> /\ ahead' = ahead /\ wrapped' = wrapped
             /\ Effect(do, p.offset, vidmem, cursor, key_buffer, vidmem', cursor', key_buffer')
             /\ Continues(programs, programs', After(do, p.offset, cursor))
<1> DEFINE p == programs[Len(programs)]
           do == Head(p.todo)
           o == p.offset
<1>1. programs # <<>> /\ ahead' = ahead /\ wrapped' = wrapped
  BY DEF Step, Idle, history
<1>2. \A x : Continue(x) <=> Continues(programs, programs', x)
  BY DEF Continue, Continues, Running
<1>3. \/ /\ do.op = "clear" /\ Shows(Cleared) /\ Continue(o) /\ key_buffer' = key_buffer
      \/ /\ do.op = "begin" /\ Continue(cursor) /\ UNCHANGED <<display, key_buffer>>
      \/ /\ do.op = "put" /\ vidmem' = Stored(vidmem, do.char, o)
         /\ Continue(Advanced(do.char, o)) /\ UNCHANGED <<cursor, key_buffer>>
      \/ /\ do.op = "move" /\ cursor' = o /\ Continue(o) /\ UNCHANGED <<vidmem, key_buffer>>
      \/ /\ do.op = "wipe" /\ key_buffer' = [key_buffer EXCEPT ![do.index] = NUL]
         /\ Continue(o) /\ UNCHANGED display
  BY DEF Step, Running
<1>4. Shows(Cleared) => vidmem' = Cleared.vidmem /\ cursor' = 0
  BY DEF Shows, Cleared
<1> HIDE DEF p, do, o
<1>5. Continue(After(do, o, cursor))
  BY <1>3 DEF After
<1>6. Effect(do, o, vidmem, cursor, key_buffer, vidmem', cursor', key_buffer')
  BY <1>3, <1>4 DEF Effect, display
<1> QED  BY <1>1, <1>2, <1>5, <1>6 DEF p, do, o

LEMMA StepKeeps ==
  ASSUME IInv, Step
  PROVE  IInv'
<1> DEFINE N == Len(programs)
           p == programs[N]
           do == Head(p.todo)
           at == p.offset
           left == IF Len(p.todo) = 1 THEN N - 1 ELSE N
<1>1. /\ programs # <<>> /\ ahead' = ahead /\ wrapped' = wrapped
      /\ Effect(do, at, vidmem, cursor, key_buffer, vidmem', cursor', key_buffer')
      /\ Continues(programs, programs', After(do, at, cursor))
  BY StepIs
<1>2. /\ vidmem \in Vidmems /\ cursor \in Cells /\ key_buffer \in Buffers
      /\ ahead \in Counts /\ wrapped \in BOOLEAN /\ Scheduled(programs)
      /\ programs[1].by = "boot" => ahead.launch = 0
      /\ ahead = InTime => N = 1 /\ Undisturbed(programs[1], vidmem, cursor, key_buffer)
  BY <1>1, Zenon DEF IInv, Idle
<1>3. N \in Nat /\ N # 0 /\ p \in Programs /\ Rest(p.todo, Script(p.by))
      /\ (p.by = "launch" => InPlace(p))
  <2>1. N \in Nat /\ N # 0 /\ programs \in Seq(Programs)
    BY <1>1, <1>2 DEF Scheduled
  <2>2. N \in 1..N
    BY <2>1
  <2> QED  BY <1>2, <2>1, <2>2 DEF Scheduled
<1>4. do \in Ops /\ at \in Cells /\ p.by \in {"boot", "launch"} /\ (Len(p.todo) = 1 => do = Move)
  BY <1>3, NextOp DEF Programs
<1> HIDE DEF do, at
<1>5. /\ vidmem' \in Vidmems /\ cursor' \in Cells /\ key_buffer' \in Buffers
      /\ After(do, at, cursor) \in Cells
  BY <1>1, <1>2, <1>4, EffectTypes
<1>6. Scheduled(programs')
  BY <1>1, <1>2, <1>5, ScheduledKept DEF do, at
<1>7. /\ Len(programs') = left
      /\ \A i \in 1..(N - 1) : programs'[i] = programs[i]
      /\ Len(p.todo) # 1 => Gone(p, programs'[N], cursor) /\ Len(programs'[N].todo) = Len(p.todo) - 1
  BY <1>1, <1>2, <1>5, ContinueIs DEF do, at
<1> HIDE DEF N
<1>8. programs' # <<>> => programs'[1].by = programs[1].by /\ (N = 1 => Len(p.todo) # 1)
  <2>1. programs' # <<>> => left # 0
    BY <1>6, <1>7 DEF Scheduled
  <2>2. N # 1 => 1 \in 1..(N - 1)
    BY <1>3
  <2>3. N = 1 /\ Len(p.todo) # 1 => programs'[1].by = programs[1].by
    BY <1>7 DEF Gone
  <2> QED  BY <1>7, <2>1, <2>2, <2>3
<1>9. programs' # <<>> /\ ahead = InTime =>
        Len(programs') = 1 /\ Undisturbed(programs'[1], vidmem', cursor', key_buffer')
  <2> SUFFICES ASSUME programs' # <<>>, ahead = InTime
               PROVE  Len(programs') = 1 /\ Undisturbed(programs'[1], vidmem', cursor', key_buffer')
    OBVIOUS
  <2>1. N = 1 /\ Undisturbed(p, vidmem, cursor, key_buffer) /\ Len(p.todo) # 1
    BY <1>2, <1>8
  <2>2. Gone(p, programs'[1], cursor) /\ Len(programs'[1].todo) = Len(p.todo) - 1
    BY <1>7, <2>1
  <2>3. Undisturbed(programs'[1], vidmem', cursor', key_buffer')
    <3> HIDE DEF p
    <3> QED  BY <1>1, <1>2, <1>3, <2>1, <2>2, UndisturbedKept DEF do, at
  <2> QED  BY <1>7, <2>1, <2>3
<1>10. programs' = <<>> =>
         /\ N = 1 /\ p = programs[1] /\ Len(p.todo) = 1
         /\ cursor' = at /\ vidmem' = vidmem /\ key_buffer' = key_buffer
  <2> SUFFICES ASSUME programs' = <<>>
               PROVE  /\ N = 1 /\ Len(p.todo) = 1
                      /\ cursor' = at /\ vidmem' = vidmem /\ key_buffer' = key_buffer
    OBVIOUS
  <2>1. left = 0
    BY <1>7
  <2>2. N = 1 /\ Len(p.todo) = 1
    BY <1>3, <2>1
  <2>3. do.op = "move"
    BY <1>4, <2>2 DEF Move
  <2> QED  BY <1>1, <2>2, <2>3 DEF Effect
<1>11. programs' = <<>> /\ ahead.boot = 0 => get_offset_col(at) = 2
  <2> SUFFICES ASSUME programs' = <<>>, ahead.boot = 0
               PROVE  get_offset_col(at) = 2
    OBVIOUS
  <2>1. p.by = "boot" => ahead = InTime
    BY <1>2, <1>10, InTimeIs
  <2>2. InPlace(p)
    BY <1>2, <1>3, <1>4, <1>10, <2>1 DEF Undisturbed
  <2> QED  BY <1>10, <2>2 DEF InPlace, InColumn, at
<1>12. programs' = <<>> /\ ahead.boot = 0 => Follows(vidmem', cursor', key_buffer')
  BY <1>4, <1>10, <1>11, NewLineIs
<1>13. programs' = <<>> /\ ahead = InTime => Synced(vidmem', cursor', key_buffer')
  <2> SUFFICES ASSUME programs' = <<>>, ahead = InTime
               PROVE  Synced(vidmem', cursor', key_buffer')
    OBVIOUS
  <2>1. Undisturbed(p, vidmem, cursor, key_buffer) /\ Len(p.todo) = 1
    BY <1>2, <1>10
  <2>2. vidmem[at - 2] = ">" /\ vidmem[at - 1] = Blank
    BY <2>1 DEF Undisturbed, at
  <2>3. \A i \in Columns : key_buffer[i] = NUL
    <3>1. p.by = "boot" => \A i \in Columns : key_buffer[i] = NUL
      BY <2>1 DEF Undisturbed, EmptyBuffer
    <3>2. \A i \in Columns : i < (MAX_COLS + 7) - 1
      BY Numbers DEF Columns
    <3>3. p.by = "launch" => \A i \in Columns : key_buffer[i] = NUL
      BY <2>1, <3>2 DEF Undisturbed
    <3> QED  BY <1>4, <3>1, <3>3
  <2>4. get_offset_col(at) = 2
    BY <1>2, <1>11, InTimeIs
  <2> QED  BY <1>4, <1>10, <2>2, <2>3, <2>4, NewLineIs
<1>14. ahead.boot' = ahead.boot /\ ahead.launch' = ahead.launch
  BY <1>1
<1> HIDE DEF p, left
<1> QED
  BY <1>1, <1>2, <1>5, <1>6, <1>8, <1>9, <1>12, <1>13, <1>14, Zenon DEF IInv, Idle

(***************************************************************************)
(* Keys                                                                    *)
(***************************************************************************)
KeptIn(b, i, ch) == IF i \in Columns THEN [b EXCEPT ![i] = ch] ELSE b

LEMMA KeptIs ==
  ASSUME NEW b \in Buffers, NEW i \in Int, NEW ch \in Typed \cup {NUL}, i < MAX_COLS - 1 \/ ch = NUL
  PROVE  /\ KeptIn(b, i, ch) \in Buffers
         /\ \A j \in Columns : KeptIn(b, i, ch)[j] = IF j = i THEN ch ELSE b[j]
<1> DEFINE d == KeptIn(b, i, ch)
<1>1. b \in [Columns -> Typed \cup {NUL}] /\ b[MAX_COLS - 1] = NUL /\ MAX_COLS - 1 \in Columns
  BY Numbers DEF Buffers, Columns
<1>2. d \in [Columns -> Typed \cup {NUL}]
  BY <1>1 DEF KeptIn
<1>3. \A j \in Columns : d[j] = IF j = i THEN ch ELSE b[j]
  BY <1>1 DEF KeptIn
<1>4. d[MAX_COLS - 1] = NUL
  BY <1>1, <1>3
<1> HIDE DEF d
<1> QED  BY <1>2, <1>3, <1>4 DEF Buffers, d

(* The column the handler computes. *)
LEMMA ColIs ==
  ASSUME NEW c \in Cells
  PROVE  /\ get_offset_col(c - 1) \in Int /\ get_offset_col(c - 1) <= MAX_COLS - 1
         /\ c # 0 => c - 1 \in Cells /\ get_offset_col(c - 1) \in Columns
         /\ c = 0 => get_offset_col(c - 1) = -1 /\ StartOf(c) = 2
<1>1. c \in Nat
  BY CellIs
<1>2. c # 0 => c - 1 \in Cells
  BY <1>1, Numbers DEF Cells
<1>3. c # 0 => get_offset_col(c - 1) \in Columns
  BY <1>2, CellIs
<1>4. c = 0 => get_offset_col(c - 1) = -1 /\ StartOf(c) = 2
  BY Numbers DEF get_offset_col, get_offset_row, StartOf
<1> QED  BY <1>2, <1>3, <1>4, Numbers DEF Columns

LEMMA TypedIs ==
  ASSUME NEW ch \in Typed
  PROVE  ch \in Chars /\ ch # NL /\ ch # NUL
BY LineEditorAssumption DEF Chars, NL, NUL

(* A character typed behind the prompt: at the end of the screen the line moves
   up with it. *)
LEMMA LineShifts ==
  ASSUME NEW v \in Vidmems, NEW c \in Cells, NEW ch \in Typed, get_offset_col(c) # 0
  PROVE  \E d \in {0, MAX_COLS} :
           /\ Advanced(ch, c) = (c + 1) - d
           /\ StartOf(Advanced(ch, c)) = StartOf(c) - d
           /\ \A o \in Cells : StartOf(c) - 2 <= o /\ o <= c =>
                Stored(v, ch, c)[o - d] = IF o = c THEN ch ELSE v[o]
<1> DEFINE r == get_offset_row(c)
           k == get_offset_col(c)
           put == [v EXCEPT ![c] = ch]
<1>1. c \in Nat /\ r \in Nat /\ r < MAX_ROWS /\ k \in Columns /\ k # 0 /\ c = r * MAX_COLS + k
  BY CellIs
<1>2. StartOf(c) = (c - k) + 2
  BY StartIs
<1>3. ch # NL /\ Next_offset(ch, c) = c + 1
  BY TypedIs DEF Next_offset
<1>4. \A o \in Cells : put[o] = IF o = c THEN ch ELSE v[o]
  BY DEF Vidmems
<1>5. Stored(v, ch, c) = IF c + 1 \in Cells THEN put ELSE Scrolled(put)
  BY <1>3 DEF Stored
<1>6. Advanced(ch, c) = IF c + 1 \in Cells THEN c + 1 ELSE (c + 1) - MAX_COLS
  BY <1>3 DEF Advanced
<1> HIDE DEF r, k, put
<1>7. r * MAX_COLS \in Nat /\ StartOf(c) = r * MAX_COLS + 2
  BY <1>1, <1>2, RowOf DEF Columns
<1>8. CASE c + 1 \in Cells
  <2>1. StartOf(c + 1) = StartOf(c)
    <3>1. (c + 1) - 1 = c
      BY <1>1
    <3> QED  BY <1>7, <3>1 DEF StartOf, r
  <2>2. \A o \in Cells : o - 0 = o
    BY DEF Cells
  <2>3. StartOf(c) - 0 = StartOf(c) /\ (c + 1) - 0 = c + 1
    BY <1>1, <1>7
  <2> WITNESS 0 \in {0, MAX_COLS}
  <2> QED  BY <1>4, <1>5, <1>6, <1>8, <2>1, <2>2, <2>3
<1>9. CASE c + 1 \notin Cells
  <2>1. c = MAX_ROWS * MAX_COLS - 1
    BY <1>1, <1>9, Numbers DEF Cells
  <2>2. r \in Nat \ {0}
    <3>1. r = 0 => c < MAX_COLS
      BY <1>1, Numbers DEF Columns
    <3> QED  BY <1>1, <2>1, <3>1, Numbers
  <2>3. r - 1 \in Nat /\ (r - 1) + 1 = r
    BY <2>2
  <2>4. r * MAX_COLS = (r - 1) * MAX_COLS + MAX_COLS /\ (r - 1) * MAX_COLS \in Nat
    BY <2>3, RowOf
  <2>5. ((c + 1) - MAX_COLS) - 1 = (r - 1) * MAX_COLS + k
    BY <1>1, <2>4, Numbers DEF Columns
  <2>6. get_offset_row(((c + 1) - MAX_COLS) - 1) = r - 1
    BY <1>1, <2>3, <2>5, PlaceIs
  <2>7. StartOf((c + 1) - MAX_COLS) = StartOf(c) - MAX_COLS
    BY <1>7, <2>4, <2>6, Numbers DEF StartOf
  <2>8. ASSUME NEW o \in Cells, StartOf(c) - 2 <= o
        PROVE  Scrolled(put)[o - MAX_COLS] = put[o]
    <3>1. o \in Nat /\ o < MAX_ROWS * MAX_COLS /\ o >= r * MAX_COLS
      BY <1>7, <2>8, Numbers DEF Cells
    <3>2. o - MAX_COLS \in Cells /\ (o - MAX_COLS) + MAX_COLS = o
      BY <2>4, <3>1, Numbers DEF Cells
    <3> QED  BY <3>2 DEF Scrolled
  <2> WITNESS MAX_COLS \in {0, MAX_COLS}
  <2> QED  BY <1>4, <1>5, <1>6, <1>9, <2>7, <2>8
<1> QED  BY <1>8, <1>9

(* Typing keeps the line in step with the screen. *)
LEMMA TypingFollows ==
  ASSUME NEW v \in Vidmems, NEW c \in Cells, NEW b \in Buffers, NEW ch \in Typed,
         get_offset_col(c) # 0, NEW v2, v2 = Stored(v, ch, c), NEW c2, c2 = Advanced(ch, c),
         NEW b2, b2 = KeptIn(b, get_offset_col(c - 1) - 1, ch)
  PROVE  /\ Follows(v, c, b) => Follows(v2, c2, b2)
         /\ Synced(v, c, b) => Synced(v2, c2, b2)
<1> DEFINE k == get_offset_col(c)
           s == StartOf(c)
<1>1. c \in Nat /\ k \in Nat /\ k < MAX_COLS /\ k # 0 /\ k <= c /\ s = (c - k) + 2
  <2>1. c \in Nat /\ k \in Columns /\ s = (c - k) + 2
    BY CellIs, StartIs
  <2>2. get_offset_row(c) * MAX_COLS \in Nat /\ c = get_offset_row(c) * MAX_COLS + k
    BY CellIs, RowOf
  <2> HIDE DEF k, s
  <2> QED  BY <2>1, <2>2, Numbers DEF Columns, k
<1>2. get_offset_col(c - 1) = k - 1
  BY LeftIs
<1>3. PICK d \in {0, MAX_COLS} :
        /\ c2 = (c + 1) - d /\ StartOf(c2) = s - d
        /\ \A o \in Cells : s - 2 <= o /\ o <= c => v2[o - d] = IF o = c THEN ch ELSE v[o]
  BY LineShifts
<1>4. d \in Nat
  BY Numbers
<1>5. \A o : o \in Nat /\ o <= c => o \in Cells
  BY <1>1, Numbers DEF Cells
<1> HIDE DEF k, s
<1>6. \A j \in Columns : b2[j] = IF j = k - 2 THEN ch ELSE b[j]
  <2>1. k - 2 \in Int /\ k - 2 < MAX_COLS - 1 /\ (k - 1) - 1 = k - 2
    BY <1>1, Numbers
  <2> QED  BY <1>2, <2>1, KeptIs
<1>7. \A i \in Columns : i \in Nat /\ (s + i < c <=> i < k - 2)
                         /\ (s - d) + i = (s + i) - d
                         /\ ((s - d) + i < c2 <=> i < k - 2 \/ i = k - 2)
  BY <1>1, <1>3, <1>4 DEF Columns
<1>8. s <= c <=> k >= 2
  BY <1>1
<1>9. s <= c => StartOf(c2) <= c2
  BY <1>1, <1>3, <1>4
<1>10. ASSUME NEW i \in Columns, s <= c, i < k - 2 \/ i = k - 2
       PROVE  v2[StartOf(c2) + i] = IF i = k - 2 THEN ch ELSE v[s + i]
  <2>1. s + i \in Nat /\ s + i <= c /\ s - 2 <= s + i /\ (s + i = c <=> i = k - 2)
    BY <1>1, <1>7, <1>10
  <2>2. StartOf(c2) + i = (s + i) - d
    BY <1>3, <1>7
  <2> QED  BY <1>3, <1>5, <2>1, <2>2
<1>11. Follows(v, c, b) => Follows(v2, c2, b2)
  <2> SUFFICES ASSUME Follows(v, c, b) PROVE Follows(v2, c2, b2)
    OBVIOUS
  <2>1. s <= c /\ \A i \in Columns : s + i < c => b[i] = v[s + i] /\ b[i] \in Typed
    BY DEF Follows, s
  <2>2. ASSUME NEW i \in Columns, StartOf(c2) + i < c2
        PROVE  b2[i] = v2[StartOf(c2) + i] /\ b2[i] \in Typed
    <3>1. i < k - 2 \/ i = k - 2
      BY <1>3, <1>7, <2>2
    <3>2. v2[StartOf(c2) + i] = IF i = k - 2 THEN ch ELSE v[s + i]
      BY <1>10, <2>1, <3>1
    <3>3. i # k - 2 => b[i] = v[s + i] /\ b[i] \in Typed
      BY <1>7, <2>1, <3>1
    <3> QED  BY <1>6, <3>2, <3>3
  <2> QED  BY <1>9, <2>1, <2>2 DEF Follows
<1>12. Synced(v, c, b) => Synced(v2, c2, b2)
  <2> SUFFICES ASSUME Synced(v, c, b) PROVE Synced(v2, c2, b2)
    OBVIOUS
  <2>1. /\ s <= c /\ v[s - 2] = ">" /\ v[s - 1] = Blank
        /\ \A i \in Columns : b[i] = IF s + i < c THEN v[s + i] ELSE NUL
    BY DEF Synced, s
  <2>2. s - 2 \in Nat /\ s - 1 \in Nat /\ s - 2 < c /\ s - 1 < c /\ s - 2 <= s - 1
    BY <1>1, <2>1
  <2>3. /\ (s - 2) - d = (s - d) - 2
        /\ (s - 1) - d = (s - d) - 1
    BY <1>1, <1>4
  <2>4. s - 2 <= c /\ s - 1 <= c /\ s - 2 # c /\ s - 1 # c /\ s - 2 <= s - 2
    BY <1>1, <2>2
  <2>5. v2[StartOf(c2) - 2] = ">" /\ v2[StartOf(c2) - 1] = Blank
    BY <1>3, <1>5, <2>1, <2>2, <2>3, <2>4
  <2>6. ASSUME NEW i \in Columns
        PROVE  b2[i] = IF StartOf(c2) + i < c2 THEN v2[StartOf(c2) + i] ELSE NUL
    <3>1. StartOf(c2) + i < c2 <=> i < k - 2 \/ i = k - 2
      BY <1>3, <1>7
    <3>2. i < k - 2 \/ i = k - 2 => v2[StartOf(c2) + i] = IF i = k - 2 THEN ch ELSE v[s + i]
      BY <1>10, <2>1
    <3>3. b[i] = IF i < k - 2 THEN v[s + i] ELSE NUL
      BY <1>7, <2>1
    <3> QED  BY <1>6, <3>1, <3>2, <3>3
  <2> QED  BY <1>9, <2>1, <2>5, <2>6 DEF Synced
<1> QED  BY <1>11, <1>12

(* So does taking a character back; at the prompt nothing is taken. *)
LEMMA TakingBackFollows ==
  ASSUME NEW v \in Vidmems, NEW c \in Cells, NEW b \in Buffers, NEW scr, NEW scr2,
         scr = [vidmem |-> v, cursor |-> c], scr2 = kprint_backspace(scr),
         NEW b2, b2 = KeptIn(b, get_offset_col(c - 1) - 2, NUL)
  PROVE  /\ scr2.vidmem \in Vidmems /\ scr2.cursor \in Cells /\ b2 \in Buffers
         /\ Follows(v, c, b) => Follows(scr2.vidmem, scr2.cursor, b2)
         /\ Synced(v, c, b) => Synced(scr2.vidmem, scr2.cursor, b2)
<1> DEFINE j == get_offset_col(c - 1)
           s == StartOf(c)
<1>1. c \in Nat /\ j \in Int /\ j <= MAX_COLS - 1
  BY CellIs, ColIs
<1>2. scr.vidmem = v /\ scr.cursor = c
  OBVIOUS
<1>3. b2 \in Buffers /\ \A i \in Columns : b2[i] = IF i = j - 2 THEN NUL ELSE b[i]
  <2>1. j - 2 \in Int
    BY <1>1
  <2> HIDE DEF j
  <2> QED  BY <2>1, KeptIs DEF j
<1>4. CASE j > 1
  <2>1. c # 0 /\ c - 1 \in Cells /\ j # 0
    BY <1>1, <1>4, ColIs
  <2>2. s = ((c - 1) - j) + 2 /\ StartOf(c - 1) = ((c - 1) - j) + 2
    <3>1. StartOf(c - 1) = ((c - 1) - j) + 2
      BY <2>1, StartIs
    <3>2. get_offset_row((c - 1) - 1) = get_offset_row(c - 1)
      BY <2>1, LeftIs
    <3> QED  BY <3>1, <3>2 DEF StartOf
  <2>3. scr2.vidmem = [v EXCEPT ![c - 1] = Blank] /\ scr2.cursor = c - 1
    BY <1>2, <1>4 DEF kprint_backspace
  <2>4. scr2.vidmem \in Vidmems /\ \A o \in Cells : o # c - 1 => scr2.vidmem[o] = v[o]
    BY <2>1, <2>3 DEF Vidmems, Chars
  <2>5. (c - 1) - j \in Nat
    <3>1. get_offset_row(c - 1) * MAX_COLS \in Nat /\ c - 1 = get_offset_row(c - 1) * MAX_COLS + j
      BY <2>1, CellIs, RowOf
    <3> HIDE DEF j
    <3> QED  BY <1>1, <3>1
  <2> HIDE DEF j, s
  <2>6. s <= c - 1 /\ s <= c /\ StartOf(c - 1) = s /\ s \in Nat /\ s - 2 \in Nat
    BY <1>1, <1>4, <2>2, <2>5
  <2>7. \A o : o \in Nat /\ o < c - 1 => o \in Cells /\ o # c - 1
    BY <1>1, <2>1, Numbers DEF Cells
  <2>8. \A i \in Columns : /\ i \in Nat /\ s + i \in Nat
                           /\ s + i < c - 1 <=> i < j - 2
                           /\ s + i < c <=> i < j - 2 \/ i = j - 2
    BY <1>1, <2>2, <2>6 DEF Columns
  <2>9. \A i \in Columns : i < j - 2 => scr2.vidmem[s + i] = v[s + i] /\ b2[i] = b[i]
    BY <1>1, <1>3, <2>4, <2>7, <2>8
  <2>10. Follows(v, c, b) => Follows(scr2.vidmem, scr2.cursor, b2)
    <3> SUFFICES ASSUME Follows(v, c, b) PROVE Follows(scr2.vidmem, c - 1, b2)
      BY <2>3
    <3>1. \A i \in Columns : i < j - 2 => b[i] = v[s + i] /\ b[i] \in Typed
      BY <2>8 DEF Follows, s
    <3>2. \A i \in Columns : s + i < c - 1 => b2[i] = scr2.vidmem[s + i] /\ b2[i] \in Typed
      BY <2>8, <2>9, <3>1
    <3> QED  BY <2>6, <3>2 DEF Follows
  <2>11. Synced(v, c, b) => Synced(scr2.vidmem, scr2.cursor, b2)
    <3> SUFFICES ASSUME Synced(v, c, b) PROVE Synced(scr2.vidmem, c - 1, b2)
      BY <2>3
    <3>1. /\ v[s - 2] = ">" /\ v[s - 1] = Blank
          /\ \A i \in Columns : b[i] = IF s + i < c THEN v[s + i] ELSE NUL
      BY DEF Synced, s
    <3>2. s - 2 \in Nat /\ s - 1 \in Nat /\ s - 2 < c - 1 /\ s - 1 < c - 1
      BY <1>1, <2>6
    <3>3. scr2.vidmem[s - 2] = ">" /\ scr2.vidmem[s - 1] = Blank
      BY <2>4, <2>7, <3>1, <3>2
    <3>4. \A i \in Columns : b2[i] = IF s + i < c - 1 THEN scr2.vidmem[s + i] ELSE NUL
      <4> TAKE i \in Columns
      <4>1. CASE i < j - 2
        BY <2>8, <2>9, <3>1, <4>1
      <4>2. CASE ~(i < j - 2)
        BY <1>3, <2>8, <3>1, <4>2
      <4> QED  BY <4>1, <4>2
    <3> QED  BY <2>6, <3>3, <3>4 DEF Synced
  <2> QED  BY <1>3, <2>1, <2>3, <2>4, <2>10, <2>11
<1>5. CASE ~(j > 1)
  <2>1. scr2 = scr
    BY <1>2, <1>5 DEF kprint_backspace
  <2>2. s <= c => j = 1
    <3>1. c # 0 => /\ c = (s - 2) + (j + 1) /\ s \in Nat
      <4>1. c # 0 => /\ c - 1 = get_offset_row(c - 1) * MAX_COLS + j
                     /\ get_offset_row(c - 1) * MAX_COLS \in Nat
        BY ColIs, CellIs, RowOf
      <4> HIDE DEF j
      <4> QED  BY <1>1, <4>1 DEF StartOf
    <3>2. c = 0 => s = 2
      BY ColIs
    <3> HIDE DEF j, s
    <3> QED  BY <1>1, <1>5, <3>1, <3>2
  <2>3. j = 1 => b2 = b
    BY DEF KeptIn, Columns
  <2> HIDE DEF j, s
  <2>4. Follows(v, c, b) => Follows(v, c, b2)
    BY <2>2, <2>3 DEF Follows, s
  <2>5. Synced(v, c, b) => Synced(v, c, b2)
    BY <2>2, <2>3 DEF Synced, s
  <2> QED  BY <1>2, <1>3, <2>1, <2>4, <2>5
<1> QED  BY <1>1, <1>4, <1>5

LEMMA StruckIs ==
  ASSUME IInv, NEW idle \in Counts, Struck(idle)
  PROVE  /\ ahead' \in Counts
         /\ Idle => ahead' = idle
         /\ ~Idle => /\ ahead' # InTime
                     /\ programs[1].by = "boot" => ahead'.launch = 0
<1>1. CASE Idle
  BY <1>1 DEF Struck
<1>2. CASE ~Idle
  <2> DEFINE w == programs[1].by
  <2>1. ahead \in Counts /\ ahead[w] < MaxAhead /\ ahead' = [ahead EXCEPT ![w] = ahead[w] + 1]
    BY <1>2 DEF IInv, Struck
  <2>2. w \in {"boot", "launch"}
    <3>1. programs \in Seq(Programs) /\ programs # <<>>
      BY <1>2 DEF IInv, Scheduled, Idle
    <3>2. programs[1] \in Programs
      BY <3>1
    <3> QED  BY <3>2 DEF Programs
  <2>3. w = "boot" => ahead.launch = 0
    BY <1>2 DEF IInv
  <2> HIDE DEF w
  <2>4. ahead[w] \in 0..MaxAhead /\ ahead[w] + 1 \in 0..MaxAhead /\ ahead[w] + 1 # 0
    BY <2>1, <2>2, Numbers DEF Counts
  <2>5. ahead' \in Counts /\ ahead'[w] # 0 /\ (w = "boot" => ahead'["launch"] = ahead["launch"])
    BY <2>1, <2>2, <2>4 DEF Counts
  <2>6. ahead' # InTime
    BY <2>2, <2>5 DEF InTime
  <2> QED  BY <1>2, <2>3, <2>5, <2>6 DEF w
<1> QED  BY <1>1, <1>2

(* A key whose handler leaves the programs alone. *)
LEMMA KeyKeeps ==
  ASSUME IInv, NEW idle \in Counts, Struck(idle), programs' = programs, wrapped' \in BOOLEAN,
         vidmem' \in Vidmems, cursor' \in Cells, key_buffer' \in Buffers,
         Idle /\ idle.boot = 0 /\ ~wrapped' => Follows(vidmem', cursor', key_buffer'),
         Idle /\ idle = InTime /\ ~wrapped' => Synced(vidmem', cursor', key_buffer')
  PROVE  IInv'
<1>1. /\ ahead' \in Counts
      /\ Idle => ahead' = idle
      /\ ~Idle => /\ ahead' # InTime
                  /\ programs[1].by = "boot" => ahead'.launch = 0
  BY StruckIs
<1>2. Scheduled(programs) /\ (Idle <=> programs = <<>>)
  BY DEF IInv, Idle
<1>3. Idle /\ ahead'.boot = 0 /\ ~wrapped' => Follows(vidmem', cursor', key_buffer')
  BY <1>1
<1>4. Idle /\ ahead' = InTime /\ ~wrapped' => Synced(vidmem', cursor', key_buffer')
  BY <1>1
<1> QED  BY <1>1, <1>2, <1>3, <1>4, Zenon DEF IInv, Idle

LEMMA NowIs ==
  ASSUME IInv
  PROVE  /\ Screen \in Screens /\ Screen.vidmem = vidmem /\ Screen.cursor = cursor
         /\ Cleared \in Screens /\ InTime \in Counts
         /\ \A i, c : Kept(i, c) = KeptIn(key_buffer, i, c)
<1>1. Screen \in Screens /\ Screen.vidmem = vidmem /\ Screen.cursor = cursor
  BY DEF IInv, Screen, Screens
<1>2. Cleared \in Screens
  BY Numbers DEF Cleared, Screens, Vidmems, Chars
<1>3. InTime \in Counts
  BY Numbers DEF InTime, Counts
<1> QED  BY <1>1, <1>2, <1>3 DEF Kept, KeptIn

LEMMA TypeKeyKeeps ==
  ASSUME IInv, NEW c \in Typed, TypeKey(c)
  PROVE  IInv'
<1>1. /\ vidmem \in Vidmems /\ cursor \in Cells /\ key_buffer \in Buffers /\ ahead \in Counts
      /\ wrapped \in BOOLEAN
      /\ Idle /\ ahead.boot = 0 /\ ~wrapped => Follows(vidmem, cursor, key_buffer)
      /\ Idle /\ ahead = InTime /\ ~wrapped => Synced(vidmem, cursor, key_buffer)
  BY DEF IInv
<1>2. /\ Struck(ahead) /\ programs' = programs
      /\ wrapped' = (wrapped \/ (Idle /\ get_offset_col(cursor) = 0))
      /\ vidmem' = print_char(Screen, c).vidmem /\ cursor' = print_char(Screen, c).cursor
      /\ key_buffer' = Kept(Col - 1, c)
  BY DEF TypeKey, Shows
<1>3. c \in Chars \cup {NL}
  BY TypedIs
<1>4. /\ vidmem' = Stored(vidmem, c, cursor) /\ cursor' = Advanced(c, cursor)
      /\ vidmem' \in Vidmems /\ cursor' \in Cells
  BY <1>1, <1>2, <1>3, NowIs, PrintedIs, StoredIs, AdvancedIs
<1>5. key_buffer' = KeptIn(key_buffer, get_offset_col(cursor - 1) - 1, c) /\ key_buffer' \in Buffers
  <2> DEFINE j == get_offset_col(cursor - 1)
  <2>1. key_buffer' = KeptIn(key_buffer, j - 1, c)
    BY <1>2, NowIs DEF Col
  <2>2. j \in Int /\ j <= MAX_COLS - 1
    BY <1>1, ColIs
  <2> HIDE DEF j
  <2>3. j - 1 \in Int /\ j - 1 < MAX_COLS - 1
    BY <2>2, Numbers
  <2>4. KeptIn(key_buffer, j - 1, c) \in Buffers
    BY <1>1, <2>3, KeptIs
  <2> QED  BY <2>1, <2>4 DEF j
<1>6. wrapped' \in BOOLEAN
  BY <1>2, Zenon
<1>7. Idle /\ ~wrapped' => ~wrapped /\ get_offset_col(cursor) # 0
  BY <1>2, Zenon
<1>8. Idle /\ ahead.boot = 0 /\ ~wrapped' => Follows(vidmem', cursor', key_buffer')
  BY <1>1, <1>4, <1>5, <1>7, TypingFollows
<1>9. Idle /\ ahead = InTime /\ ~wrapped' => Synced(vidmem', cursor', key_buffer')
  BY <1>1, <1>4, <1>5, <1>7, TypingFollows
<1> QED  BY <1>1, <1>2, <1>4, <1>5, <1>6, <1>8, <1>9, KeyKeeps

LEMMA BackspaceKeeps ==
  ASSUME IInv, Backspace
  PROVE  IInv'
<1>1. /\ vidmem \in Vidmems /\ cursor \in Cells /\ key_buffer \in Buffers /\ ahead \in Counts
      /\ wrapped \in BOOLEAN
      /\ Idle /\ ahead.boot = 0 /\ ~wrapped => Follows(vidmem, cursor, key_buffer)
      /\ Idle /\ ahead = InTime /\ ~wrapped => Synced(vidmem, cursor, key_buffer)
  BY DEF IInv
<1>2. /\ Struck(ahead) /\ programs' = programs /\ wrapped' = wrapped
      /\ vidmem' = kprint_backspace(Screen).vidmem /\ cursor' = kprint_backspace(Screen).cursor
      /\ key_buffer' = KeptIn(key_buffer, get_offset_col(cursor - 1) - 2, NUL)
  BY NowIs DEF Backspace, Shows, Col
<1>3. /\ vidmem' \in Vidmems /\ cursor' \in Cells /\ key_buffer' \in Buffers
      /\ Follows(vidmem, cursor, key_buffer) => Follows(vidmem', cursor', key_buffer')
      /\ Synced(vidmem, cursor, key_buffer) => Synced(vidmem', cursor', key_buffer')
  BY <1>1, <1>2, TakingBackFollows DEF Screen
<1> QED  BY <1>1, <1>2, <1>3, KeyKeeps

(* A new prompt, with nothing in the buffer. *)
LEMMA PromptedKeeps ==
  ASSUME IInv, Fresh, programs' = programs, key_buffer' = EmptyBuffer,
         NEW scr \in Screens, NEW text, Ends(text), Shows(kprint(scr, text))
  PROVE  IInv'
<1>1. /\ Struck(InTime) /\ wrapped' = FALSE
      /\ vidmem' = kprint(scr, text).vidmem /\ cursor' = kprint(scr, text).cursor
  BY DEF Fresh, Shows
<1>2. vidmem' \in Vidmems /\ cursor' \in Cells
  <2>1. text \in Texts
    BY DEF Ends
  <2> QED  BY <1>1, <2>1, KprintTypes DEF Screens
<1>3. Ready(vidmem', cursor')
  BY <1>1, PromptIsReady
<1>4. key_buffer' \in Buffers /\ \A i \in Columns : key_buffer'[i] = NUL
  BY Numbers DEF EmptyBuffer, Buffers, Columns
<1>5. Follows(vidmem', cursor', key_buffer') /\ Synced(vidmem', cursor', key_buffer')
  BY <1>2, <1>3, <1>4, NewLineIs DEF Ready
<1> QED  BY <1>1, <1>2, <1>4, <1>5, NowIs, KeyKeeps

LEMMA ExecuteKeeps ==
  ASSUME IInv, Execute
  PROVE  IInv'
<1>1. Fresh /\ programs' = programs /\ key_buffer' = EmptyBuffer
  BY DEF Execute
<1>2. Ends(<<NL, ">", Blank>>)
  BY DEF Ends, Texts, Chars
<1>3. kprint(Screen, <<NL, "o">>) \in Screens /\ kprint(Cleared, <<">", Blank>>) \in Screens
  <2>1. <<NL, "o">> \in Texts /\ <<">", Blank>> \in Texts
    BY DEF Texts, Chars
  <2> QED  BY <2>1, NowIs, KprintTypes
<1>4. \E scr \in Screens : Shows(NewPrompt(scr))
  BY <1>3, NowIs, Zenon DEF Execute
<1>5. PICK scr \in Screens : Shows(kprint(scr, <<NL, ">", Blank>>))
  BY <1>4, Zenon DEF NewPrompt
<1> QED  BY <1>1, <1>2, <1>5, PromptedKeeps

LEMMA CancelKeeps ==
  ASSUME IInv, Cancel
  PROVE  IInv'
<1>1. Ends(<<"^", "C", NL, ">", Blank>>)
  BY DEF Ends, Texts, Chars
<1> QED  BY <1>1, NowIs, PromptedKeeps DEF Cancel

LEMMA LaunchKeeps ==
  ASSUME IInv, Launch
  PROVE  IInv'
<1> DEFINE q == [by |-> "launch", todo |-> Tail_of_launch, offset |-> 0]
           N == Len(programs)
<1>1. /\ Struck(InTime) /\ wrapped' = FALSE /\ vidmem' = vidmem
      /\ cursor' \in {cursor, MAX_ROWS * MAX_COLS - 1} /\ programs' = Append(programs, q)
      /\ key_buffer' = KeptIn(key_buffer, get_offset_col(cursor - 1), NUL)
  BY NowIs DEF Launch, Fresh, Col
<1>2. /\ vidmem \in Vidmems /\ cursor \in Cells /\ key_buffer \in Buffers
      /\ programs \in Seq(Programs) /\ Scheduled(programs)
  BY DEF IInv, Scheduled
<1>3. cursor' \in Cells /\ key_buffer' \in Buffers
  <2>1. get_offset_col(cursor - 1) \in Int
    BY <1>2, ColIs
  <2> QED  BY <1>1, <1>2, <2>1, Numbers, KeptIs
<1>4. q \in Programs /\ q.by = "launch" /\ Len(q.todo) = MAX_COLS + 15
      /\ Rest(q.todo, Script(q.by)) /\ InPlace(q)
  <2>1. Tail_of_launch \in Seq(Ops) /\ Len(Tail_of_launch) = MAX_COLS + 15
    BY LaunchIs
  <2>2. q \in Programs /\ q.by = "launch" /\ q.todo = Tail_of_launch
    BY <2>1, Numbers DEF Programs
  <2> HIDE DEF q
  <2>3. Rest(q.todo, Script(q.by))
    BY <2>1, <2>2, Numbers DEF Rest, Script
  <2>4. InPlace(q)
    <3> DEFINE n == Len(q.todo)
    <3>1. n = MAX_COLS + 15
      BY <2>1, <2>2, Zenon
    <3> HIDE DEF n
    <3>2. n \notin {4, 5} /\ n \notin {4} /\ n \notin {2, 3} /\ n \notin {1}
      BY <3>1, Numbers
    <3> QED  BY <3>2 DEF InPlace, InColumn, n
  <2> QED  BY <2>1, <2>2, <2>3, <2>4
<1> HIDE DEF q
<1>5. /\ programs' \in Seq(Programs) /\ Len(programs') = N + 1 /\ programs'[N + 1] = q /\ N \in Nat
      /\ \A i \in 1..N : programs'[i] = programs[i]
  BY <1>1, <1>2, <1>4
<1>6. Scheduled(programs')
  <2>1. \A i \in 1..(N + 1) : i \in 1..N \/ i = N + 1
    BY <1>5
  <2> HIDE DEF N
  <2>2. \A i \in 1..N : /\ Rest(programs[i].todo, Script(programs[i].by))
                        /\ programs[i].by = "launch" => InPlace(programs[i])
    BY <1>2 DEF Scheduled, N
  <2>3. \A i \in 1..(N + 1) : /\ Rest(programs'[i].todo, Script(programs'[i].by))
                              /\ programs'[i].by = "launch" => InPlace(programs'[i])
    BY <1>4, <1>5, <2>1, <2>2
  <2> QED  BY <1>5, <2>3 DEF Scheduled
<1>7. /\ ahead' \in Counts
      /\ Idle => ahead' = InTime
      /\ ~Idle => /\ ahead' # InTime
                  /\ programs[1].by = "boot" => ahead'.launch = 0
  BY <1>1, NowIs, StruckIs
<1>8. programs' # <<>>
  BY <1>5
<1>9. Idle => N = 0 /\ programs'[1] = q
  BY <1>5 DEF Idle
<1>10. ~Idle => programs'[1] = programs[1]
  BY <1>2, <1>5 DEF Idle
<1>11. programs'[1].by = "boot" => ahead'.launch = 0
  BY <1>4, <1>7, <1>9, <1>10
<1>12. Undisturbed(q, vidmem', cursor', key_buffer')
  <2>1. Len(q.todo) \notin {1, 2, 3} /\ \A i \in Columns : ~(i < (MAX_COLS + 7) - Len(q.todo))
    BY <1>4, Numbers DEF Columns
  <2>2. q.by # "boot" /\ InPlace(q)
    BY <1>4
  <2> QED  BY <2>1, <2>2 DEF Undisturbed
<1>13. ahead' = InTime => Len(programs') = 1 /\ Undisturbed(programs'[1], vidmem', cursor', key_buffer')
  BY <1>5, <1>7, <1>9, <1>12
<1> HIDE DEF N
<1> QED  BY <1>1, <1>2, <1>3, <1>6, <1>7, <1>8, <1>11, <1>13, Zenon DEF IInv, Idle

(***************************************************************************)
(* The invariant and what follows                                          *)
(***************************************************************************)
LEMMA InitHolds ==
  ASSUME Init
  PROVE  IInv
<1> DEFINE q == [by |-> "boot", todo |-> Boot, offset |-> 0]
<1>1. /\ vidmem = Cleared.vidmem /\ cursor \in Cells /\ key_buffer = EmptyBuffer
      /\ programs = <<q>> /\ ahead = InTime /\ wrapped = FALSE
  BY DEF Init
<1>2. Boot \in Seq(Ops) /\ Len(Boot) = 11
  BY BootIs
<1>3. q \in Programs /\ q.by = "boot" /\ q.todo = Boot
  BY <1>2, Numbers DEF Programs
<1> HIDE DEF q
<1>4. Rest(q.todo, Script(q.by)) /\ Len(q.todo) = 11
  <2>1. Rest(Boot, Boot)
    <3> DEFINE S == Boot
    <3>1. Len(S) = 11
      BY <1>2
    <3> HIDE DEF S
    <3>2. Rest(S, S)
      BY <3>1 DEF Rest
    <3> QED  BY <3>2 DEF S
  <2> QED  BY <1>2, <1>3, <2>1, Zenon DEF Script
<1>5. programs \in Seq(Programs) /\ Len(programs) = 1 /\ programs[1] = q /\ programs # <<>>
  BY <1>1, <1>3
<1>6. Scheduled(programs)
  BY <1>3, <1>4, <1>5 DEF Scheduled
<1>7. vidmem \in Vidmems /\ key_buffer \in Buffers /\ ahead \in Counts /\ ahead.launch = 0
  BY <1>1, Numbers DEF Cleared, Vidmems, Chars, EmptyBuffer, Buffers, Columns, InTime, Counts
<1>8. Undisturbed(q, vidmem, cursor, key_buffer)
  <2> DEFINE n == Len(q.todo)
  <2>1. n = 11
    BY <1>4
  <2> HIDE DEF n
  <2>2. n \notin {1} /\ n \notin {2, 3} /\ n \notin {4} /\ n \notin {4, 5} /\ n \notin {6}
        /\ n # 1 /\ n # 5
    BY <2>1
  <2> QED  BY <1>1, <1>3, <2>2 DEF Undisturbed, InPlace, InColumn, n
<1> QED  BY <1>1, <1>5, <1>6, <1>7, <1>8, Zenon DEF IInv, Idle

LEMMA Invariant == Spec => []IInv
<1>1. Init => IInv
  BY InitHolds
<1>2. IInv /\ [Next]_vars => IInv'
  <2> SUFFICES ASSUME IInv, [Next]_vars PROVE IInv'
    OBVIOUS
  <2>1. CASE Step
    BY <2>1, StepKeeps
  <2>2. CASE \E c \in Typed : TypeKey(c)
    BY <2>2, TypeKeyKeeps
  <2>3. CASE Backspace
    BY <2>3, BackspaceKeeps
  <2>4. CASE Execute
    BY <2>4, ExecuteKeeps
  <2>5. CASE Launch
    BY <2>5, LaunchKeeps
  <2>6. CASE Cancel
    BY <2>6, CancelKeeps
  <2>7. CASE UNCHANGED vars
    BY <2>7, Zenon DEF IInv, vars, display, history, Idle
  <2> QED  BY <2>1, <2>2, <2>3, <2>4, <2>5, <2>6, <2>7 DEF Next
<1> QED  BY <1>1, <1>2, PTL DEF Spec

(* Whatever is typed and whenever, with any nesting of launches, on a screen of
   any size: the cursor and every offset that print_char holds across an
   interrupt are on the screen, and the last place of key_buffer stays NUL. *)
THEOREM TypeCorrect == Spec => []TypeOK
<1>1. IInv => TypeOK
  <2> SUFFICES ASSUME IInv PROVE TypeOK
    OBVIOUS
  <2>1. /\ vidmem \in Vidmems /\ cursor \in Cells /\ key_buffer \in Buffers
        /\ ahead \in Counts /\ wrapped \in BOOLEAN /\ Scheduled(programs)
    BY DEF IInv
  <2>2. ASSUME NEW i \in DOMAIN programs
        PROVE  /\ programs[i].todo # <<>> /\ ToSet(programs[i].todo) \subseteq Ops
               /\ programs[i].offset \in Cells
    <3>1. programs \in Seq(Programs) /\ i \in 1..Len(programs)
      BY <2>1 DEF Scheduled
    <3>2. programs[i] \in Programs /\ Rest(programs[i].todo, Script(programs[i].by))
      BY <2>1, <3>1 DEF Scheduled
    <3>3. programs[i].todo \in Seq(Ops) /\ programs[i].offset \in Cells
      BY <3>2 DEF Programs
    <3>4. programs[i].todo # <<>>
      BY <3>2, <3>3 DEF Rest
    <3>5. ToSet(programs[i].todo) \subseteq Ops
      BY <3>3 DEF ToSet
    <3> QED  BY <3>3, <3>4, <3>5
  <2> QED  BY <2>1, <2>2 DEF TypeOK, Vidmems, Buffers, Counts
<1> QED  BY <1>1, Invariant, PTL

(* A waiting kernel that has not been typed ahead of shows a prompt, and
   key_buffer holds the line behind it and nothing else: the columns that the
   keyboard handler computes from the cursor, backspace's stop at the prompt, and
   what ENTER, Ctrl+C and the tail of a launch clear, fit together. *)
THEOREM LineIsInSync == Spec => []InSync
<1>1. IInv => InSync
  <2> SUFFICES ASSUME IInv, Idle, ahead = InTime, ~wrapped
               PROVE  /\ Prompted
                      /\ \A i \in Columns :
                           key_buffer[i] = IF LineStart + i < cursor THEN vidmem[LineStart + i] ELSE NUL
    BY DEF InSync
  <2>1. Synced(vidmem, cursor, key_buffer)
    BY DEF IInv
  <2>2. LineStart = StartOf(cursor)
    BY DEF LineStart, StartOf
  <2> QED  BY <2>1, <2>2 DEF Synced, Prompted
<1> QED  BY <1>1, Invariant, PTL

(* A buffer as a C string ends at its first NUL. *)
LEMMA CStringIs ==
  ASSUME NEW b \in Buffers
  PROVE  \E n \in Columns : /\ CString(b) = [i \in 1..n |-> b[i - 1]] /\ b[n] = NUL
                            /\ \A i \in 0..(n - 1) : b[i] # NUL
<1> DEFINE T == {n \in Columns : b[n] = NUL}
           P(n) == (n \in Columns => b[n] = NUL) /\ \A i \in 0..(n - 1) : b[i] # NUL
           strlen == CHOOSE n \in 0..MAX_COLS : P(n)
<1>1. MAX_COLS - 1 \in Columns /\ b[MAX_COLS - 1] = NUL
  BY Numbers DEF Buffers, Columns
<1>2. T \in SUBSET Nat /\ T # {}
  BY <1>1 DEF Columns
<1>3. PICK n \in T : \A m \in T : n <= m
  <2> HIDE DEF T
  <2> QED  BY <1>2, Least
<1>4. n \in 0..MAX_COLS /\ P(n)
  <2>1. n \in Columns /\ n \in 0..MAX_COLS
    BY <1>3, Numbers DEF Columns
  <2>2. \A i \in 0..(n - 1) : i \in Columns /\ ~(n <= i)
    BY <2>1, Numbers DEF Columns
  <2> QED  BY <1>3, <2>1, <2>2
<1>5. strlen \in 0..MAX_COLS /\ P(strlen)
  <2> HIDE DEF P
  <2> QED  BY <1>4, Zenon
<1>6. CString(b) = [i \in 1..strlen |-> b[i - 1]]
  BY DEF CString
<1> HIDE DEF strlen
<1>7. strlen \in Columns
  <2>1. strlen # MAX_COLS
    <3>1. MAX_COLS - 1 \in 0..(MAX_COLS - 1)
      BY <1>1 DEF Columns
    <3> QED  BY <1>1, <1>5, <3>1
  <2> QED  BY <1>5, <2>1, Numbers DEF Columns
<1> QED  BY <1>5, <1>6, <1>7

(* The first n values of f as a prefix of the first m of g. *)
Begins(f, n, g, m) ==
  /\ IsPrefix([i \in 1..n |-> f[i]], [i \in 1..m |-> g[i]])
  /\ Len([i \in 1..n |-> f[i]]) = n /\ Len([i \in 1..m |-> g[i]]) = m

LEMMA PrefixIs ==
  ASSUME NEW n \in Nat, NEW m \in Nat, n <= m, NEW f, NEW g, \A i \in 1..n : f[i] = g[i]
  PROVE  Begins(f, n, g, m)
<1> DEFINE s == [i \in 1..n |-> f[i]]
           t == [i \in 1..m |-> g[i]]
<1>1. Len(s) = n /\ Len(t) = m
  OBVIOUS
<1>2. SubSeq(s, 1, n) = SubSeq(t, 1, n)
  OBVIOUS
<1> QED  BY <1>1, <1>2 DEF IsPrefix, Begins

(* Keys struck while a launch's prompt was printed may leave the buffer out of
   step, but ENTER still runs the line on the screen: all of it, and at most one
   leftover character behind it. *)
THEOREM ShownLineRuns == Spec => []RunsShown
<1>1. IInv => RunsShown
  <2> SUFFICES ASSUME IInv, Idle, ahead.boot = 0, ~wrapped
               PROVE  LineStart <= cursor /\ IsPrefix(Shown, Line) /\ Len(Line) <= Len(Shown) + 1
    BY DEF RunsShown
  <2> DEFINE s == StartOf(cursor)
             n == cursor - s
             j == get_offset_col(cursor - 1)
             b == Kept(Col, NUL)
  <2>1. cursor \in Cells /\ key_buffer \in Buffers /\ Follows(vidmem, cursor, key_buffer)
    BY DEF IInv
  <2>2. LineStart = s /\ Shown = [i \in 1..n |-> vidmem[s + i - 1]]
    BY DEF LineStart, Shown, StartOf
  <2>3. /\ s <= cursor
        /\ \A i \in Columns : s + i < cursor => key_buffer[i] = vidmem[s + i] /\ key_buffer[i] \in Typed
    BY <2>1 DEF Follows
  <2>4. n \in Nat /\ j = n + 1 /\ j \in Columns /\ s \in Nat /\ cursor \in Nat
    <3>1. cursor # 0 /\ cursor \in Nat
      BY <2>1, <2>3, ColIs, CellIs
    <3>2. /\ cursor - 1 = get_offset_row(cursor - 1) * MAX_COLS + j /\ j \in Columns
          /\ get_offset_row(cursor - 1) * MAX_COLS \in Nat
      BY <2>1, <3>1, ColIs, CellIs, RowOf
    <3> HIDE DEF j
    <3>3. j \in Int
      BY <3>2 DEF Columns
    <3> QED  BY <2>3, <3>1, <3>2, <3>3 DEF StartOf
  <2>5. b \in Buffers /\ \A i \in Columns : b[i] = IF i = j THEN NUL ELSE key_buffer[i]
    <3>1. b = KeptIn(key_buffer, j, NUL)
      BY NowIs DEF Col
    <3>2. j \in Int
      BY <2>4 DEF Columns
    <3> HIDE DEF b, j
    <3> QED  BY <2>1, <3>1, <3>2, KeptIs
  <2> HIDE DEF b, j, s
  <2>6. PICK l \in Columns : /\ CString(b) = [i \in 1..l |-> b[i - 1]] /\ b[l] = NUL
                             /\ \A i \in 0..(l - 1) : b[i] # NUL
    BY <2>5, CStringIs
  <2> HIDE DEF n
  <2>7. \A i \in Nat : i < n => i \in Columns /\ i # j /\ s + i < cursor
    BY <2>4, Numbers DEF Columns, n
  <2>8. \A i \in Nat : i < n => b[i] = vidmem[s + i] /\ b[i] # NUL
    BY <2>3, <2>5, <2>7, TypedIs
  <2>9. l \in Nat /\ n <= l
    <3>1. l \in Nat
      BY <2>6 DEF Columns
    <3>2. ~(l < n)
      BY <2>6, <2>8, <3>1
    <3> QED  BY <2>4, <3>1, <3>2
  <2>10. l <= n + 1
    <3>1. b[j] = NUL
      BY <2>4, <2>5
    <3>2. l > j => j \in 0..(l - 1)
      BY <2>4, <2>9
    <3> QED  BY <2>4, <2>6, <2>9, <3>1, <3>2
  <2> DEFINE g == [i \in 1..l |-> b[i - 1]]
             t == [i \in 1..n |-> vidmem[s + i - 1]]
  <2>11. \A i \in 1..n : t[i] = g[i]
    <3>1. \A i \in 1..n : i - 1 \in Nat /\ i - 1 < n /\ i \in 1..l /\ s + (i - 1) = s + i - 1
      BY <2>4, <2>9
    <3> QED  BY <2>8, <3>1
  <2>12. Shown = [i \in 1..n |-> t[i]] /\ Line = [i \in 1..l |-> g[i]]
    BY <2>2, <2>6 DEF Line, b, n
  <2> HIDE DEF g, t
  <2>13. IsPrefix(Shown, Line) /\ Len(Shown) = n /\ Len(Line) = l
    <3>1. n \in Nat /\ l \in Nat /\ n <= l
      BY <2>4, <2>9
    <3>2. Begins(t, n, g, l)
      BY <3>1, <2>11, PrefixIs
    <3> QED  BY <2>12, <3>2, Zenon DEF Begins
  <2> QED  BY <2>2, <2>3, <2>10, <2>13
<1> QED  BY <1>1, Invariant, PTL
=============================================================================
