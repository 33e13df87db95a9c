---------------------------- MODULE Shell_proofs ----------------------------
(***************************************************************************)
(* Proofs about Shell, for every set of characters and both limits.  The   *)
(* cursor stays within the line only because every line of the history is  *)
(* itself within the limit, and the history only keeps its form because    *)
(* the line put into it is: the inductive invariant is about both.         *)
(***************************************************************************)
EXTENDS Shell, SequenceTheorems, WellFoundedInduction, TLAPS

Line == {line \in Seq(Chars) : Len(line) <= MAX_LINE_LENGTH}

Terminals == [input_buffer : Line, cursor : Nat, history : Seq(Line),
              history_index : Int, saved_input : Line]

HistoryOK(h) ==
  /\ h \in Seq(Line)
  /\ Len(h) <= MAX_HISTORY
  /\ \A i \in 1..Len(h) - 1 : h[i] # h[i + 1]
  /\ \A i \in 1..Len(h) : h[i] # <<>>

TerminalOK(t) ==
  /\ t \in Terminals
  /\ t.cursor <= Len(t.input_buffer)
  /\ t.history_index \in {None} \cup 0..(Len(t.history) - 1)
  /\ HistoryOK(t.history)

\* Joining two pieces of a line.
LEMMA JoinedLine ==
  ASSUME NEW u \in Seq(Chars), NEW v \in Seq(Chars)
  PROVE  u \o v \in Seq(Chars) /\ Len(u \o v) = Len(u) + Len(v)
  OBVIOUS

\* Cutting a piece out of a line.
LEMMA Slice ==
  ASSUME NEW s \in Seq(Chars), NEW m \in 1..Len(s) + 1, NEW n \in 0..Len(s), m <= n + 1
  PROVE  SubSeq(s, m, n) \in Seq(Chars) /\ Len(SubSeq(s, m, n)) = n - m + 1
<1>1. Len(s) \in Nat /\ m \in Int /\ n \in Int
  OBVIOUS
<1>2. \A i \in m..n : s[i] \in Chars
  BY <1>1
<1>3. /\ SubSeq(s, m, n) \in Seq(Chars)
      /\ Len(SubSeq(s, m, n)) = IF m <= n THEN n - m + 1 ELSE 0
  BY <1>1, <1>2, SubSeqProperties
<1> QED
  BY <1>1, <1>3

\* The line without the character at a place.
LEMMA RemoveAtLine ==
  ASSUME NEW s \in Line, NEW i \in 1..Len(s)
  PROVE  RemoveAt(s, i) \in Line /\ Len(RemoveAt(s, i)) = Len(s) - 1
<1>0. s \in Seq(Chars) /\ Len(s) \in Nat /\ Len(s) <= MAX_LINE_LENGTH
  BY DEF Line
<1>1. SubSeq(s, 1, i - 1) \in Seq(Chars) /\ Len(SubSeq(s, 1, i - 1)) = i - 1
  <2>1. 1 \in 1..Len(s) + 1 /\ i - 1 \in 0..Len(s) /\ 1 <= (i - 1) + 1 /\ (i - 1) - 1 + 1 = i - 1
    BY <1>0
  <2> QED
    BY <1>0, <2>1, Slice
<1>2. SubSeq(s, i + 1, Len(s)) \in Seq(Chars) /\ Len(SubSeq(s, i + 1, Len(s))) = Len(s) - i
  <2>1. i + 1 \in 1..Len(s) + 1 /\ Len(s) \in 0..Len(s) /\ i + 1 <= Len(s) + 1
        /\ Len(s) - (i + 1) + 1 = Len(s) - i
    BY <1>0
  <2> QED
    BY <1>0, <2>1, Slice
<1>3. PICK u \in Seq(Chars), v \in Seq(Chars) :
        RemoveAt(s, i) = u \o v /\ Len(u) = i - 1 /\ Len(v) = Len(s) - i
  BY <1>1, <1>2 DEF RemoveAt
<1>4. u \o v \in Seq(Chars) /\ Len(u \o v) = Len(u) + Len(v)
  BY JoinedLine
<1>5. Len(u) + Len(v) = Len(s) - 1 /\ Len(s) - 1 <= MAX_LINE_LENGTH
  BY <1>0, <1>3, ShellAssumption
<1> QED
  BY <1>3, <1>4, <1>5 DEF Line

\* The line with a character put in at a place.
LEMMA InsertAtLine ==
  ASSUME NEW s \in Line, NEW c \in Chars, NEW i \in 1..Len(s) + 1, Len(s) < MAX_LINE_LENGTH
  PROVE  InsertAt(s, i, c) \in Line /\ Len(InsertAt(s, i, c)) = Len(s) + 1
<1>0. s \in Seq(Chars) /\ Len(s) \in Nat
  BY DEF Line
<1>1. SubSeq(s, 1, i - 1) \in Seq(Chars) /\ Len(SubSeq(s, 1, i - 1)) = i - 1
  <2>1. 1 \in 1..Len(s) + 1 /\ i - 1 \in 0..Len(s) /\ 1 <= (i - 1) + 1 /\ (i - 1) - 1 + 1 = i - 1
    BY <1>0
  <2> QED
    BY <1>0, <2>1, Slice
<1>2. SubSeq(s, i, Len(s)) \in Seq(Chars) /\ Len(SubSeq(s, i, Len(s))) = Len(s) - i + 1
  <2>1. Len(s) \in 0..Len(s) /\ i <= Len(s) + 1
    BY <1>0
  <2> QED
    BY <1>0, <2>1, Slice
<1>3. PICK u \in Seq(Chars), v \in Seq(Chars) :
        InsertAt(s, i, c) = u \o <<c>> \o v /\ Len(u) = i - 1 /\ Len(v) = Len(s) - i + 1
  BY <1>1, <1>2 DEF InsertAt
<1>4. PICK w \in Seq(Chars) : w = u \o <<c>> /\ Len(w) = Len(u) + 1
  <2>1. <<c>> \in Seq(Chars) /\ Len(<<c>>) = 1
    OBVIOUS
  <2> QED
    BY <2>1, JoinedLine
<1>5. w \o v \in Seq(Chars) /\ Len(w \o v) = Len(w) + Len(v)
  BY JoinedLine
<1>6. Len(w) + Len(v) = Len(s) + 1 /\ Len(s) + 1 <= MAX_LINE_LENGTH
  <2>1. i \in Int /\ Len(w) = (i - 1) + 1
    BY <1>0, <1>3, <1>4
  <2>2. Len(w) + Len(v) = Len(s) + 1
    BY <1>0, <1>3, <2>1
  <2>3. Len(s) + 1 <= MAX_LINE_LENGTH
    BY <1>0, ShellAssumption
  <2> QED
    BY <2>2, <2>3
<1> QED
  BY <1>3, <1>4, <1>5, <1>6 DEF Line

-----------------------------------------------------------------------------
(* Each method keeps a terminal in order.                                   *)

\* What a key that leaves the history alone has to keep.
LEMMA SameHistory ==
  ASSUME NEW t, TerminalOK(t), NEW u \in Terminals, u.history = t.history,
         u.cursor <= Len(u.input_buffer),
         u.history_index \in {None} \cup 0..(Len(t.history) - 1)
  PROVE  TerminalOK(u)
  BY DEF TerminalOK

\* The keys that move the cursor.
LEMMA CursorKeys ==
  ASSUME NEW t, TerminalOK(t)
  PROVE  TerminalOK(ArrowLeft(t)) /\ TerminalOK(ArrowRight(t)) /\ TerminalOK(Home(t)) /\ TerminalOK(End(t))
<1>1. Len(t.input_buffer) \in Nat
  BY DEF TerminalOK, Terminals, Line
<1>2. TerminalOK(ArrowLeft(t))
  BY <1>1 DEF TerminalOK, Terminals, ArrowLeft
<1>3. TerminalOK(ArrowRight(t))
  BY <1>1 DEF TerminalOK, Terminals, ArrowRight
<1>4. TerminalOK(Home(t))
  BY <1>1 DEF TerminalOK, Terminals, Home
<1>5. TerminalOK(End(t))
  BY <1>1 DEF TerminalOK, Terminals, End
<1> QED
  BY <1>2, <1>3, <1>4, <1>5

\* The keys that change the line.
LEMMA EditKeys ==
  ASSUME NEW t, TerminalOK(t)
  PROVE  /\ TerminalOK(Backspace(t)) /\ TerminalOK(Delete(t))
         /\ \A c \in Chars : TerminalOK(Insert(t, c))
<1>1. t.input_buffer \in Line /\ Len(t.input_buffer) \in Nat /\ t.cursor \in Nat
      /\ t.cursor <= Len(t.input_buffer)
  BY DEF TerminalOK, Terminals, Line
<1>2. TerminalOK(Backspace(t))
  <2>1. CASE t.cursor = 0
    BY <2>1 DEF Backspace
  <2>2. CASE t.cursor # 0
    <3>1. t.cursor \in 1..Len(t.input_buffer)
      BY <1>1, <2>2
    <3>2. PICK line \in Line : line = RemoveAt(t.input_buffer, t.cursor) /\ Len(line) = Len(t.input_buffer) - 1
      BY <1>1, <3>1, RemoveAtLine
    <3>3. t.cursor - 1 \in Nat /\ t.cursor - 1 <= Len(line)
      BY <1>1, <3>1, <3>2
    <3>4. PICK u : u = Backspace(t)
      OBVIOUS
    <3>5. /\ u \in Terminals /\ u.history = t.history /\ u.history_index = t.history_index
          /\ u.input_buffer = line /\ u.cursor = t.cursor - 1
      BY <2>2, <3>2, <3>3, <3>4 DEF Backspace, TerminalOK, Terminals
    <3>6. u.history_index \in {None} \cup 0..(Len(t.history) - 1)
      BY <3>5 DEF TerminalOK
    <3> QED
      BY <3>3, <3>4, <3>5, <3>6, SameHistory
  <2> QED
    BY <2>1, <2>2
<1>3. TerminalOK(Delete(t))
  <2>1. CASE t.cursor >= Len(t.input_buffer)
    BY <2>1 DEF Delete
  <2>2. CASE ~(t.cursor >= Len(t.input_buffer))
    <3>1. t.cursor + 1 \in 1..Len(t.input_buffer)
      BY <1>1, <2>2
    <3>2. PICK line \in Line : line = RemoveAt(t.input_buffer, t.cursor + 1) /\ Len(line) = Len(t.input_buffer) - 1
      BY <1>1, <3>1, RemoveAtLine
    <3>3. Delete(t) = [t EXCEPT !.input_buffer = line]
      BY <2>2, <3>2 DEF Delete, TerminalOK, Terminals
    <3> QED
      BY <1>1, <2>2, <3>2, <3>3 DEF TerminalOK, Terminals
  <2> QED
    BY <2>1, <2>2
<1>4. ASSUME NEW c \in Chars PROVE TerminalOK(Insert(t, c))
  <2>1. CASE Len(t.input_buffer) >= MAX_LINE_LENGTH
    BY <2>1 DEF Insert
  <2>2. CASE ~(Len(t.input_buffer) >= MAX_LINE_LENGTH)
    <3>1. t.cursor + 1 \in 1..Len(t.input_buffer) + 1 /\ Len(t.input_buffer) < MAX_LINE_LENGTH
      BY <1>1, <2>2, ShellAssumption
    <3>2. PICK line \in Line : line = InsertAt(t.input_buffer, t.cursor + 1, c) /\ Len(line) = Len(t.input_buffer) + 1
      BY <1>1, <3>1, InsertAtLine
    <3>3. t.cursor + 1 \in Nat /\ t.cursor + 1 <= Len(line)
      BY <1>1, <3>1, <3>2
    <3>4. PICK u : u = Insert(t, c)
      OBVIOUS
    <3>5. /\ u \in Terminals /\ u.history = t.history /\ u.history_index = t.history_index
          /\ u.input_buffer = line /\ u.cursor = t.cursor + 1
      BY <2>2, <3>2, <3>3, <3>4 DEF Insert, TerminalOK, Terminals
    <3>6. u.history_index \in {None} \cup 0..(Len(t.history) - 1)
      BY <3>5 DEF TerminalOK
    <3> QED
      BY <3>3, <3>4, <3>5, <3>6, SameHistory
  <2> QED
    BY <2>1, <2>2
<1> QED
  BY <1>2, <1>3, <1>4

\* A line of the history may be loaded, and another saved.
LEMMA Loaded ==
  ASSUME NEW t, TerminalOK(t), NEW line \in Line, NEW saved \in Line,
         NEW idx \in {None} \cup 0..(Len(t.history) - 1),
         NEW u, u = [Load(t, line) EXCEPT !.history_index = idx, !.saved_input = saved]
  PROVE  TerminalOK(u)
<1>1. Len(line) \in Nat
  BY DEF Line
<1>2. idx \in Int
  <2>1. Len(t.history) \in Nat
    BY DEF TerminalOK, HistoryOK
  <2> QED
    BY <2>1 DEF None
<1>3. /\ u \in Terminals /\ u.history = t.history /\ u.history_index = idx
      /\ u.input_buffer = line /\ u.cursor = Len(line)
  BY <1>1, <1>2 DEF TerminalOK, Terminals, Load
<1>4. u.cursor <= Len(u.input_buffer)
  BY <1>1, <1>3
<1>5. u.history_index \in {None} \cup 0..(Len(t.history) - 1)
  BY <1>3
<1> QED
  BY <1>3, <1>4, <1>5, SameHistory

\* The keys that look back and forth.
LEMMA HistoryKeys ==
  ASSUME NEW t, TerminalOK(t)
  PROVE  TerminalOK(history_up(t)) /\ TerminalOK(history_down(t))
<1>1. /\ t \in Terminals /\ t.history \in Seq(Line) /\ Len(t.history) \in Nat
      /\ t.history_index \in {-1} \cup 0..(Len(t.history) - 1)
      /\ \A i \in 1..Len(t.history) : t.history[i] \in Line
  BY DEF TerminalOK, Terminals, None
<1>2. TerminalOK(history_up(t))
  <2>1. CASE t.history = <<>> \/ t.history_index = 0
    BY <2>1 DEF history_up
  <2>2. CASE ~(t.history = <<>> \/ t.history_index = 0)
    <3>1. Len(t.history) > 0
      BY <1>1, <2>2
    <3>2. PICK idx \in 0..(Len(t.history) - 1) :
            idx = IF t.history_index = None THEN Len(t.history) - 1 ELSE t.history_index - 1
      <4>1. CASE t.history_index = None
        <5>1. Len(t.history) - 1 \in 0..(Len(t.history) - 1)
          BY <1>1, <3>1
        <5> QED
          BY <4>1, <5>1
      <4>2. CASE t.history_index # None
        <5>1. t.history_index - 1 \in 0..(Len(t.history) - 1)
          BY <1>1, <2>2, <4>2 DEF None
        <5> QED
          BY <4>2, <5>1
      <4> QED
        BY <4>1, <4>2
    <3>3. PICK saved \in Line :
            saved = IF t.history_index = None THEN t.input_buffer ELSE t.saved_input
      BY <1>1 DEF Terminals
    <3>4. t.history[idx + 1] \in Line
      BY <1>1
    <3>5. history_up(t) = [Load(t, t.history[idx + 1]) EXCEPT !.history_index = idx, !.saved_input = saved]
      BY <2>2, <3>2, <3>3 DEF history_up
    <3> QED
      BY <3>4, <3>5, Loaded
  <2> QED
    BY <2>1, <2>2
<1>3. TerminalOK(history_down(t))
  <2>1. CASE t.history_index = None
    BY <2>1 DEF history_down
  <2>2. CASE t.history_index # None /\ t.history_index + 1 >= Len(t.history)
    <3>1. history_down(t) = [Load(t, t.saved_input) EXCEPT !.history_index = None, !.saved_input = t.saved_input]
      BY <1>1, <2>2 DEF history_down, Load, Terminals
    <3>2. t.saved_input \in Line /\ None \in {None} \cup 0..(Len(t.history) - 1)
      BY <1>1 DEF Terminals
    <3> QED
      BY <3>1, <3>2, Loaded
  <2>3. CASE t.history_index # None /\ ~(t.history_index + 1 >= Len(t.history))
    <3>1. t.history_index + 1 \in 0..(Len(t.history) - 1) /\ t.history_index + 2 \in 1..Len(t.history)
      BY <1>1, <2>3 DEF None
    <3>2. t.history[t.history_index + 2] \in Line /\ t.saved_input \in Line
      BY <1>1, <3>1 DEF Terminals
    <3>3. history_down(t) = [Load(t, t.history[t.history_index + 2]) EXCEPT
                               !.history_index = t.history_index + 1, !.saved_input = t.saved_input]
      BY <1>1, <2>3 DEF history_down, Load, Terminals
    <3> QED
      BY <3>1, <3>2, <3>3, Loaded
  <2> QED
    BY <2>1, <2>2, <2>3
<1> QED
  BY <1>2, <1>3

-----------------------------------------------------------------------------
(* Enter, the one key that changes the history.                             *)

\* The history with a line added, and what the line cost.
LEMMA AddedToHistory ==
  ASSUME NEW t, TerminalOK(t), NEW line \in Line, line # <<>>,
         NEW h, h = add_to_history(t, line).history
  PROVE  /\ HistoryOK(h)
         /\ h # <<>> /\ Last(h) = line
         /\ h # t.history => \/ Front(h) = t.history
                             \/ Len(t.history) = MAX_HISTORY /\ Front(h) = Tail(t.history)
<1>1. /\ t.history \in Seq(Line) /\ Len(t.history) \in Nat /\ Len(t.history) <= MAX_HISTORY
      /\ \A i \in 1..Len(t.history) - 1 : t.history[i] # t.history[i + 1]
      /\ \A i \in 1..Len(t.history) : t.history[i] # <<>>
      /\ MAX_HISTORY \in Nat \ {0} /\ t \in Terminals
  BY ShellAssumption DEF TerminalOK, HistoryOK
<1>2. CASE t.history # <<>> /\ Last(t.history) = line
  <2>1. h = t.history
    BY <1>2 DEF add_to_history
  <2> QED
    BY <1>2, <2>1 DEF TerminalOK
<1>3. CASE ~(t.history # <<>> /\ Last(t.history) = line)
  <2>1. PICK kept : kept = IF Len(t.history) >= MAX_HISTORY THEN Tail(t.history) ELSE t.history
    OBVIOUS
  <2>2. h = Append(kept, line)
    BY <1>1, <1>3, <2>1 DEF add_to_history, Terminals
  <2>3. /\ kept \in Seq(Line) /\ Len(kept) \in Nat /\ Len(kept) < MAX_HISTORY
        /\ \A i \in 1..Len(kept) - 1 : kept[i] # kept[i + 1]
        /\ \A i \in 1..Len(kept) : kept[i] # <<>>
    <3>1. CASE Len(t.history) >= MAX_HISTORY
      <4>1. t.history # <<>> /\ kept = Tail(t.history)
        BY <1>1, <2>1, <3>1
      <4>2. /\ kept \in Seq(Line) /\ Len(kept) = Len(t.history) - 1
            /\ \A i \in 1..Len(kept) : kept[i] = t.history[i + 1]
        BY <1>1, <4>1, HeadTailProperties
      <4> QED
        BY <1>1, <3>1, <4>2
    <3>2. CASE ~(Len(t.history) >= MAX_HISTORY)
      BY <1>1, <2>1, <3>2
    <3> QED
      BY <3>1, <3>2
  <2>4. kept # <<>> => kept[Len(kept)] # line
    <3>1. CASE Len(t.history) >= MAX_HISTORY
      <4>1. t.history # <<>> /\ kept = Tail(t.history)
        BY <1>1, <2>1, <3>1
      <4>2. /\ Len(kept) = Len(t.history) - 1
            /\ \A i \in 1..Len(kept) : kept[i] = t.history[i + 1]
        BY <1>1, <4>1, HeadTailProperties
      <4>3. kept # <<>> => Len(kept) \in 1..Len(kept) /\ Len(kept) + 1 = Len(t.history)
        BY <1>1, <2>3, <4>2
      <4> QED
        BY <1>3, <4>1, <4>2, <4>3 DEF Last
    <3>2. CASE ~(Len(t.history) >= MAX_HISTORY)
      BY <1>3, <2>1, <3>2 DEF Last
    <3> QED
      BY <3>1, <3>2
  <2>5. /\ h \in Seq(Line) /\ Len(h) = Len(kept) + 1 /\ h[Len(h)] = line
        /\ \A i \in 1..Len(kept) : h[i] = kept[i]
    BY <2>2, <2>3
  <2>6. HistoryOK(h)
    <3>1. Len(h) <= MAX_HISTORY
      BY <1>1, <2>3, <2>5
    <3>2. ASSUME NEW i \in 1..Len(h) - 1 PROVE h[i] # h[i + 1]
      <4>1. CASE i = Len(kept)
        BY <2>3, <2>4, <2>5, <4>1
      <4>2. CASE i # Len(kept)
        BY <2>3, <2>5, <4>2
      <4> QED
        BY <4>1, <4>2
    <3>3. ASSUME NEW i \in 1..Len(h) PROVE h[i] # <<>>
      BY <2>3, <2>5
    <3> QED
      BY <2>5, <3>1, <3>2, <3>3 DEF HistoryOK
  <2>7. Front(h) = kept
    BY <2>2, <2>3, <2>5 DEF Front
  <2>8. Len(t.history) >= MAX_HISTORY => Len(t.history) = MAX_HISTORY
    BY <1>1
  <2>9. h # <<>> /\ Last(h) = line
    BY <2>3, <2>5 DEF Last
  <2> QED
    BY <2>1, <2>6, <2>7, <2>8, <2>9
<1> QED
  BY <1>2, <1>3

\* Enter empties the line and leaves the history in order.
LEMMA EnterOK ==
  ASSUME NEW t, TerminalOK(t), NEW u, u = Enter(t)
  PROVE  /\ TerminalOK(u)
         /\ t.input_buffer # <<>> => Last(u.history) = t.input_buffer
         /\ u.history # t.history => t.input_buffer # <<>>
         /\ u.history # t.history => \/ Front(u.history) = t.history
                                     \/ Len(t.history) = MAX_HISTORY /\ Front(u.history) = Tail(t.history)
<1>1. PICK h : h = IF t.input_buffer = <<>> THEN t.history
                   ELSE add_to_history(t, t.input_buffer).history
  OBVIOUS
<1>2. t \in Terminals /\ t.input_buffer \in Line /\ HistoryOK(t.history)
  BY DEF TerminalOK, Terminals
<1>3. /\ HistoryOK(h)
      /\ t.input_buffer # <<>> => Last(h) = t.input_buffer
      /\ h # t.history => \/ Front(h) = t.history
                          \/ Len(t.history) = MAX_HISTORY /\ Front(h) = Tail(t.history)
  BY <1>1, <1>2, AddedToHistory
<1>4. h \in Seq(Line)
  BY <1>3 DEF HistoryOK
<1>5. u = [t EXCEPT !.input_buffer = <<>>, !.cursor = 0, !.history_index = None, !.history = h]
  BY <1>1, <1>2 DEF Enter, add_to_history, Terminals
<1>6. <<>> \in Line /\ Len(<<>>) = 0
  BY ShellAssumption DEF Line
<1>7. /\ u \in Terminals /\ u.history = h /\ u.cursor = 0
      /\ u.history_index = None /\ u.input_buffer = <<>>
  <2>1. PICK empty \in Line : empty = <<>>
    BY <1>6
  <2>2. u = [t EXCEPT !.input_buffer = empty, !.cursor = 0, !.history_index = None, !.history = h]
    BY <1>5, <2>1
  <2>3. None \in Int
    BY DEF None
  <2>4. PICK saved \in Line : saved = t.saved_input
    BY <1>2 DEF Terminals
  <2>5. u = [input_buffer |-> empty, cursor |-> 0, history |-> h, history_index |-> None,
             saved_input |-> saved]
    BY <1>2, <2>2, <2>4 DEF Terminals
  <2>6. /\ u \in Terminals /\ u.history = h /\ u.cursor = 0
        /\ u.history_index = None /\ u.input_buffer = empty
    BY <1>4, <2>3, <2>5 DEF Terminals
  <2> QED
    BY <2>1, <2>6
<1>8. TerminalOK(u)
  BY <1>3, <1>6, <1>7 DEF TerminalOK
<1>9. u.history # t.history => t.input_buffer # <<>>
  BY <1>1, <1>7
<1> QED
  BY <1>3, <1>7, <1>8, <1>9

\* The other keys leave the history alone.
LEMMA KeepHistory ==
  ASSUME NEW t, TerminalOK(t)
  PROVE  /\ Backspace(t).history = t.history
         /\ Delete(t).history = t.history
         /\ ArrowLeft(t).history = t.history
         /\ ArrowRight(t).history = t.history
         /\ Home(t).history = t.history
         /\ End(t).history = t.history
         /\ history_up(t).history = t.history
         /\ history_down(t).history = t.history
         /\ \A c \in Chars : Insert(t, c).history = t.history
<1>1. t \in Terminals
  BY DEF TerminalOK
<1>2. Backspace(t).history = t.history /\ Delete(t).history = t.history
  BY <1>1 DEF Terminals, Backspace, Delete
<1>3. ArrowLeft(t).history = t.history /\ ArrowRight(t).history = t.history
  BY <1>1 DEF Terminals, ArrowLeft, ArrowRight
<1>4. Home(t).history = t.history /\ End(t).history = t.history
  BY <1>1 DEF Terminals, Home, End
<1>5. history_up(t).history = t.history
  BY <1>1 DEF Terminals, history_up, Load
<1>6. history_down(t).history = t.history
  BY <1>1 DEF Terminals, history_down, Load
<1>7. \A c \in Chars : Insert(t, c).history = t.history
  BY <1>1 DEF Terminals, Insert
<1> QED
  BY <1>2, <1>3, <1>4, <1>5, <1>6, <1>7

-----------------------------------------------------------------------------
(* The specification.                                                       *)

Inv == TerminalOK(terminal)

\* A step keeps the invariant, and changes the history in one way.
LEMMA Step ==
  ASSUME Inv, Next
  PROVE  /\ Inv'
         /\ terminal'.history # terminal.history => EnterKey /\ terminal.input_buffer # <<>>
         /\ EnterKey /\ terminal.input_buffer # <<>> => Last(terminal'.history) = terminal.input_buffer
         /\ command' # <<>> => /\ command' = terminal.input_buffer
                              /\ Last(terminal'.history) = terminal.input_buffer
         /\ terminal'.history # terminal.history =>
              \/ Front(terminal'.history) = terminal.history
              \/ Len(terminal.history) = MAX_HISTORY /\ Front(terminal'.history) = Tail(terminal.history)
<1>0. TerminalOK(terminal)
  BY DEF Inv
<1>1. CASE EnterKey
  <2>1. terminal' = Enter(terminal)
    BY <1>1 DEF EnterKey
  <2>2. command' # <<>> => command' = terminal.input_buffer
    BY <1>1 DEF EnterKey
  <2> QED
    BY <1>0, <1>1, <2>1, <2>2, EnterOK DEF Inv
<1>2. ASSUME NEW c \in Chars, CharKey(c)
      PROVE  TerminalOK(terminal') /\ terminal'.history = terminal.history /\ command' = <<>>
  BY <1>0, <1>2, EditKeys, KeepHistory DEF CharKey
<1>3. ASSUME EditKey
      PROVE  TerminalOK(terminal') /\ terminal'.history = terminal.history /\ command' = <<>>
  BY <1>0, <1>3, EditKeys, CursorKeys, KeepHistory DEF EditKey
<1>4. ASSUME HistoryKey
      PROVE  TerminalOK(terminal') /\ terminal'.history = terminal.history /\ command' = <<>>
  BY <1>0, <1>4, HistoryKeys, KeepHistory DEF HistoryKey
<1> QED
  BY <1>1, <1>2, <1>3, <1>4 DEF Next, Inv

\* The terminal is in order, with an empty line and an empty history, at first.
LEMMA InitInv == Init => Inv
<1>1. <<>> \in Line /\ Len(<<>>) = 0 /\ <<>> \in Seq(Line)
  BY ShellAssumption DEF Line
<1>2. HistoryOK(<<>>)
  BY <1>1, ShellAssumption DEF HistoryOK
<1> QED
  BY <1>1, <1>2 DEF Init, Inv, TerminalOK, Terminals, None

\* The invariant holds in every state.
THEOREM TerminalInOrder == Spec => []Inv
<1>1. Inv /\ [Next]_vars => Inv'
  BY Step DEF Inv, vars
<1> QED
  BY InitInv, <1>1, PTL DEF Spec

\* No edit, and no step through the history, indexes outside the line or the
\* history (terminal/shell.rs, Terminal).
THEOREM ShellNeverPanics == Spec => []NeverPanics
<1>1. Inv => NeverPanics
  BY DEF Inv, TerminalOK, Terminals, Line, NeverPanics
<1> QED
  BY TerminalInOrder, <1>1, PTL

\* The history is a record of the latest lines (Terminal::add_to_history).
THEOREM ShellHistoryIsARecord == Spec => HistoryIsARecord
<1>1. Inv' => /\ Len(terminal'.history) <= MAX_HISTORY
              /\ \A i \in 1..Len(terminal'.history) - 1 : terminal'.history[i] # terminal'.history[i + 1]
              /\ \A i \in DOMAIN terminal'.history : terminal'.history[i] # <<>>
  BY DEF Inv, TerminalOK, HistoryOK
<1>2. Inv /\ [Next]_vars =>
        [LET h == terminal.history
             new == terminal'.history
             line == terminal.input_buffer
         IN  /\ Len(new) <= MAX_HISTORY
             /\ \A i \in 1..Len(new) - 1 : new[i] # new[i + 1]
             /\ \A i \in DOMAIN new : new[i] # <<>>
             /\ new # h => EnterKey /\ line # <<>>
             /\ EnterKey /\ line # <<>> => Last(new) = line
             /\ command' # <<>> => command' = line /\ Last(new) = line
             /\ new # h => \/ Front(new) = h
                           \/ Len(h) = MAX_HISTORY /\ Front(new) = Tail(h)]_vars
  BY <1>1, Step
<1> QED
  BY TerminalInOrder, <1>2, PTL DEF Spec, HistoryIsARecord

-----------------------------------------------------------------------------
(* Looking back.                                                             *)

\* Induction over the natural numbers in a set.
LEMMA SetInduction ==
  ASSUME NEW T, 0 \in T, \A n \in Nat : n \in T => n + 1 \in T
  PROVE  Nat \subseteq T
<1> SUFFICES ASSUME Nat \ T # {}
             PROVE  FALSE
  OBVIOUS
<1>1. PICK R : R = OpToRel(<, Nat)
  BY ZenonT(40)
<1>2. IsWellFoundedOn(R, Nat)
  BY <1>1, NatLessThanWellFounded, ZenonT(40)
<1>3. PICK m \in Nat \ T : \A k \in Nat \ T : ~(<<k, m>> \in R)
  BY <1>2, WFMin, ZenonT(40)
<1>4. \A k \in Nat \ T : ~(k < m)
  BY <1>1, <1>3, ZenonT(40) DEF OpToRel
<1>5. m # 0 /\ m - 1 \in Nat /\ m - 1 \notin Nat \ T
  BY <1>4, SMT
<1>6. (m - 1) + 1 = m
  BY SMT
<1> QED  BY <1>5, <1>6, ZenonT(20)

\* A function that makes the steps up is what Ups computes: there is only one.
LEMMA UpsAre ==
  ASSUME NEW t, NEW n \in Nat, NEW g, g = [k \in 0..n |-> IF k = 0 THEN t ELSE history_up(g[k - 1])]
  PROVE  Ups(t, n)[n] = g[n]
<1>1. PICK f : f = Ups(t, n)
  OBVIOUS
<1>2. f = [k \in 0..n |-> IF k = 0 THEN t ELSE history_up(f[k - 1])]
  BY <1>1, ZenonT(20) DEF Ups
<1>3. PICK T : T = {k \in Nat : k <= n => f[k] = g[k]}
  OBVIOUS
<1>4. 0 \in T
  <2>1. 0 \in Nat /\ 0 \in 0..n
    BY SMT
  <2>2. f[0] = t /\ g[0] = t
    BY <1>2, <2>1, ZenonT(20)
  <2> QED  BY <1>3, <2>1, <2>2, ZenonT(20)
<1>5. ASSUME NEW k \in Nat, k \in T
      PROVE  k + 1 \in T
  <2>1. k + 1 \in Nat /\ k + 1 # 0 /\ (k + 1) - 1 = k /\ (k + 1 <= n => k <= n /\ k + 1 \in 0..n)
    BY SMT
  <2>2. ASSUME k + 1 <= n PROVE f[k + 1] = g[k + 1]
    <3>1. f[k + 1] = history_up(f[k]) /\ g[k + 1] = history_up(g[k])
      BY <1>2, <2>1, <2>2, ZenonT(20)
    <3>2. f[k] = g[k]
      BY <1>3, <1>5, <2>1, <2>2, ZenonT(20)
    <3> QED  BY <3>1, <3>2, ZenonT(20)
  <2> QED  BY <1>3, <2>1, <2>2, ZenonT(20)
<1>6. n \in T
  BY <1>4, <1>5, SetInduction, ZenonT(20)
<1>7. n <= n
  BY SMT
<1> QED  BY <1>1, <1>3, <1>6, <1>7, ZenonT(20)

\* The same of Downs.
LEMMA DownsAre ==
  ASSUME NEW t, NEW n \in Nat, NEW g, g = [k \in 0..n |-> IF k = 0 THEN t ELSE history_down(g[k - 1])]
  PROVE  Downs(t, n)[n] = g[n]
<1>1. PICK f : f = Downs(t, n)
  OBVIOUS
<1>2. f = [k \in 0..n |-> IF k = 0 THEN t ELSE history_down(f[k - 1])]
  BY <1>1, ZenonT(20) DEF Downs
<1>3. PICK T : T = {k \in Nat : k <= n => f[k] = g[k]}
  OBVIOUS
<1>4. 0 \in T
  <2>1. 0 \in Nat /\ 0 \in 0..n
    BY SMT
  <2>2. f[0] = t /\ g[0] = t
    BY <1>2, <2>1, ZenonT(20)
  <2> QED  BY <1>3, <2>1, <2>2, ZenonT(20)
<1>5. ASSUME NEW k \in Nat, k \in T
      PROVE  k + 1 \in T
  <2>1. k + 1 \in Nat /\ k + 1 # 0 /\ (k + 1) - 1 = k /\ (k + 1 <= n => k <= n /\ k + 1 \in 0..n)
    BY SMT
  <2>2. ASSUME k + 1 <= n PROVE f[k + 1] = g[k + 1]
    <3>1. f[k + 1] = history_down(f[k]) /\ g[k + 1] = history_down(g[k])
      BY <1>2, <2>1, <2>2, ZenonT(20)
    <3>2. f[k] = g[k]
      BY <1>3, <1>5, <2>1, <2>2, ZenonT(20)
    <3> QED  BY <3>1, <3>2, ZenonT(20)
  <2> QED  BY <1>3, <2>1, <2>2, ZenonT(20)
<1>6. n \in T
  BY <1>4, <1>5, SetInduction, ZenonT(20)
<1>7. n <= n
  BY SMT
<1> QED  BY <1>1, <1>3, <1>6, <1>7, ZenonT(20)

\* A terminal, by its fields.
Term(b, c, h, i, s) ==
  [input_buffer |-> b, cursor |-> c, history |-> h, history_index |-> i, saved_input |-> s]

\* The terminal with another line and place, and with another saved line too.
LoadAt(t, line, j) == [Load(t, line) EXCEPT !.history_index = j]
LoadSaving(t, line, j, saved) == [Load(t, line) EXCEPT !.history_index = j, !.saved_input = saved]

LEMMA LoadIs ==
  ASSUME NEW b, NEW c, NEW h, NEW i, NEW s, NEW line
  PROVE  Load(Term(b, c, h, i, s), line) = Term(line, Len(line), h, i, s)
<1>1. PICK len, t : len = Len(line) /\ t = Term(b, c, h, i, s)
  OBVIOUS
<1>2. PICK t1 : t1 = [t EXCEPT !.input_buffer = line]
  OBVIOUS
<1>3. t1 = Term(line, c, h, i, s)
  BY <1>1, <1>2, SMT DEF Term
<1>4. PICK t2 : t2 = [t1 EXCEPT !.cursor = len]
  OBVIOUS
<1>5. t2 = Term(line, len, h, i, s)
  BY <1>3, <1>4, SMT DEF Term
<1>6. Load(t, line) = t2
  BY <1>1, <1>2, <1>4, ZenonT(20) DEF Load
<1> QED  BY <1>1, <1>5, <1>6, ZenonT(20)

LEMMA LoadAtIs ==
  ASSUME NEW b, NEW c, NEW h, NEW i, NEW s, NEW line, NEW j
  PROVE  LoadAt(Term(b, c, h, i, s), line, j) = Term(line, Len(line), h, j, s)
<1>1. PICK len, t : len = Len(line) /\ t = Term(line, len, h, i, s)
  OBVIOUS
<1>2. Load(Term(b, c, h, i, s), line) = Term(line, Len(line), h, i, s)
  BY LoadIs, SMT
<1>3. PICK u : u = [t EXCEPT !.history_index = j]
  OBVIOUS
<1>4. u = Term(line, len, h, j, s)
  BY <1>1, <1>3, SMT DEF Term
<1> QED  BY <1>1, <1>2, <1>3, <1>4, ZenonT(20) DEF LoadAt

LEMMA LoadSavingIs ==
  ASSUME NEW b, NEW c, NEW h, NEW i, NEW s, NEW line, NEW j, NEW saved
  PROVE  LoadSaving(Term(b, c, h, i, s), line, j, saved) = Term(line, Len(line), h, j, saved)
<1>1. PICK len, t : len = Len(line) /\ t = Term(line, len, h, i, s)
  OBVIOUS
<1>2. Load(Term(b, c, h, i, s), line) = Term(line, Len(line), h, i, s)
  BY LoadIs, SMT
<1>3. PICK u : u = [t EXCEPT !.history_index = j]
  OBVIOUS
<1>4. u = Term(line, len, h, j, s)
  BY <1>1, <1>3, SMT DEF Term
<1>5. PICK v : v = [u EXCEPT !.saved_input = saved]
  OBVIOUS
<1>6. v = Term(line, len, h, j, saved)
  BY <1>4, <1>5, SMT DEF Term
<1>7. LoadSaving(Term(b, c, h, i, s), line, j, saved) = v
  BY <1>1, <1>2, <1>3, <1>5, ZenonT(20) DEF LoadSaving
<1> QED  BY <1>1, <1>6, <1>7, ZenonT(20)

\* Every terminal is one.
LEMMA IsTerm ==
  ASSUME NEW t \in Terminals
  PROVE  t = Term(t.input_buffer, t.cursor, t.history, t.history_index, t.saved_input)
  BY SMT DEF Terminals, Term

\* The terminal shows entry i of the history (counted from 0), and has saved a line.
Showing(t, i, line) ==
  Term(t.history[i + 1], Len(t.history[i + 1]), t.history, i, line)

\* The terminal shows the line it had saved.
BackAt(t, line) ==
  Term(line, Len(line), t.history, None, line)

\* The first step up shows the newest entry and saves the line ...
LEMMA FirstUp ==
  ASSUME NEW t \in Terminals, t.history_index = None, t.history # <<>>
  PROVE  history_up(t) = Showing(t, Len(t.history) - 1, t.input_buffer)
<1>1. None # 0
  BY SMT DEF None
<1>2. history_up(t) =
        LoadSaving(t, t.history[(Len(t.history) - 1) + 1], Len(t.history) - 1, t.input_buffer)
  BY <1>1, ZenonT(20) DEF history_up, LoadSaving
<1>3. PICK b, c, h, i, s, e, j :
        /\ b = t.input_buffer /\ c = t.cursor /\ h = t.history /\ i = t.history_index /\ s = t.saved_input
        /\ j = Len(t.history) - 1 /\ e = t.history[j + 1]
  OBVIOUS
<1>4. t = Term(b, c, h, i, s)
  BY <1>3, IsTerm, ZenonT(20)
<1>5. LoadSaving(Term(b, c, h, i, s), e, j, b) = Term(e, Len(e), h, j, b)
  BY LoadSavingIs, SMT
<1>6. history_up(t) = Term(e, Len(e), h, j, b)
  BY <1>2, <1>3, <1>4, <1>5, ZenonT(20)
<1> QED  BY <1>3, <1>6, ZenonT(20) DEF Showing

\* ... the others show the one before ...
LEMMA NextUp ==
  ASSUME NEW t \in Terminals, NEW i \in 1..Len(t.history) - 1, NEW line
  PROVE  history_up(Showing(t, i, line)) = Showing(t, i - 1, line)
<1>1. PICK u : u = Showing(t, i, line)
  OBVIOUS
<1>2. u.history = t.history /\ u.history_index = i /\ u.saved_input = line
  <2>1. u = Term(t.history[i + 1], Len(t.history[i + 1]), t.history, i, line)
    BY <1>1 DEF Showing
  <2> QED  BY <2>1, ZenonT(20) DEF Term
<1>3. t.history \in Seq(Line) /\ t.history # <<>> /\ i # None /\ i # 0
  BY SMT DEF Terminals, None
<1>4. history_up(u) = LoadSaving(u, t.history[(i - 1) + 1], i - 1, line)
  BY <1>2, <1>3, ZenonT(20) DEF history_up, LoadSaving
<1>5. PICK b, c, h, e, j :
        /\ b = t.history[i + 1] /\ c = Len(b) /\ h = t.history /\ j = i - 1 /\ e = t.history[j + 1]
  OBVIOUS
<1>6. u = Term(b, c, h, i, line)
  BY <1>1, <1>5, ZenonT(20) DEF Showing
<1>7. LoadSaving(Term(b, c, h, i, line), e, j, line) = Term(e, Len(e), h, j, line)
  BY LoadSavingIs, SMT
<1>8. history_up(u) = Term(e, Len(e), h, j, line)
  BY <1>4, <1>5, <1>6, <1>7, ZenonT(20)
<1> QED  BY <1>1, <1>5, <1>8, ZenonT(20) DEF Showing

\* ... and a step down the one behind, or the saved line behind the newest.
LEMMA NextDown ==
  ASSUME NEW t \in Terminals, NEW i \in 0..Len(t.history) - 1, NEW line
  PROVE  history_down(Showing(t, i, line)) =
           IF i = Len(t.history) - 1 THEN BackAt(t, line) ELSE Showing(t, i + 1, line)
<1>1. PICK u, b, c, h : u = Showing(t, i, line) /\ b = t.history[i + 1] /\ c = Len(b) /\ h = t.history
  OBVIOUS
<1>2. u = Term(b, c, h, i, line)
  BY <1>1, ZenonT(20) DEF Showing
<1>3. u.history = h /\ u.history_index = i /\ u.saved_input = line
  BY <1>2, ZenonT(20) DEF Term
<1>4. Len(h) \in Nat /\ i # None
  BY <1>1, SMT DEF Terminals, None
<1>5. CASE i = Len(h) - 1
  <2>1. i + 1 >= Len(h)
    BY <1>4, <1>5, SMT
  <2>2. history_down(u) = LoadAt(u, line, None)
    BY <1>3, <1>4, <2>1, ZenonT(20) DEF history_down, LoadAt
  <2>3. LoadAt(Term(b, c, h, i, line), line, None) = Term(line, Len(line), h, None, line)
    BY LoadAtIs, SMT
  <2>4. history_down(u) = Term(line, Len(line), h, None, line)
    BY <1>2, <2>2, <2>3, ZenonT(20)
  <2> QED  BY <1>1, <1>5, <2>4, ZenonT(20) DEF BackAt
<1>6. CASE i # Len(h) - 1
  <2>1. ~(i + 1 >= Len(h)) /\ (i + 1) + 1 = i + 2
    BY <1>1, <1>4, <1>6, SMT
  <2>2. PICK e, j : e = h[i + 2] /\ j = i + 1
    OBVIOUS
  <2>3. Load(u, e).history_index = i
    <3>1. Load(Term(b, c, h, i, line), e) = Term(e, Len(e), h, i, line)
      BY LoadIs, SMT
    <3>2. PICK v : v = Load(u, e)
      OBVIOUS
    <3>3. v = Term(e, Len(e), h, i, line)
      BY <1>2, <3>1, <3>2, ZenonT(20)
    <3>4. v.history_index = i
      BY <3>3, ZenonT(20) DEF Term
    <3> QED  BY <3>2, <3>4, ZenonT(20)
  <2>4. history_down(u) = [Load(u, e) EXCEPT !.history_index = @ + 1]
    BY <1>3, <1>4, <2>1, <2>2, ZenonT(20) DEF history_down
  <2>5. history_down(u) = LoadAt(u, e, j)
    BY <1>2, <2>2, <2>3, <2>4, ZenonT(20) DEF LoadAt
  <2>6. LoadAt(Term(b, c, h, i, line), e, j) = Term(e, Len(e), h, j, line)
    BY LoadAtIs, SMT
  <2>7. history_down(u) = Term(e, Len(e), h, j, line)
    BY <1>2, <2>5, <2>6, ZenonT(20)
  <2>8. Showing(t, i + 1, line) = Term(e, Len(e), h, j, line)
    BY <1>1, <2>1, <2>2, ZenonT(20) DEF Showing
  <2> QED  BY <1>1, <1>6, <2>7, <2>8, ZenonT(20)
<1> QED  BY <1>5, <1>6

\* Where k steps up lead.
LEMMA UpsLead ==
  ASSUME NEW t \in Terminals, t.history_index = None, NEW n \in 1..Len(t.history)
  PROVE  Ups(t, n)[n] = Showing(t, Len(t.history) - n, t.input_buffer)
<1>0. PICK len : len = Len(t.history) /\ len \in Nat /\ t.history # <<>>
  BY SMT DEF Terminals
<1>1. PICK g : g = [k \in 0..n |-> IF k = 0 THEN t ELSE Showing(t, len - k, t.input_buffer)]
  OBVIOUS
<1>2. ASSUME NEW k \in 0..n
      PROVE  g[k] = IF k = 0 THEN t ELSE history_up(g[k - 1])
  <2>1. CASE k = 0
    BY <1>1, <2>1, ZenonT(20)
  <2>2. CASE k = 1
    <3>1. g[k - 1] = t /\ g[k] = Showing(t, len - 1, t.input_buffer)
      <4>1. 1 - 1 = 0 /\ 0 \in 0..n /\ 1 # 0
        BY SMT
      <4> QED  BY <1>1, <2>2, <4>1, ZenonT(20)
    <3>2. history_up(t) = Showing(t, len - 1, t.input_buffer)
      BY <1>0, FirstUp, ZenonT(20)
    <3>3. k # 0
      BY <2>2, SMT
    <3> QED  BY <3>1, <3>2, <3>3, ZenonT(20)
  <2>3. CASE k # 0 /\ k # 1
    <3>1. k - 1 \in 0..n /\ k - 1 # 0 /\ len - (k - 1) \in 1..len - 1 /\ (len - (k - 1)) - 1 = len - k
      BY <1>0, <2>3, SMT
    <3>2. g[k - 1] = Showing(t, len - (k - 1), t.input_buffer) /\ g[k] = Showing(t, len - k, t.input_buffer)
      BY <1>1, <2>3, <3>1, ZenonT(20)
    <3>3. history_up(Showing(t, len - (k - 1), t.input_buffer)) = Showing(t, len - k, t.input_buffer)
      BY <1>0, <3>1, NextUp, ZenonT(20)
    <3> QED  BY <2>3, <3>2, <3>3, ZenonT(20)
  <2> QED  BY <2>1, <2>2, <2>3
<1>3. g = [k \in 0..n |-> IF k = 0 THEN t ELSE history_up(g[k - 1])]
  BY <1>1, <1>2, ZenonT(20)
<1>4. n \in Nat /\ n \in 0..n /\ n # 0
  BY <1>0, SMT
<1>5. Ups(t, n)[n] = g[n]
  BY <1>3, <1>4, UpsAre
<1> QED  BY <1>0, <1>1, <1>4, <1>5, ZenonT(20)

\* Where as many steps down lead from there.
LEMMA DownsLead ==
  ASSUME NEW t \in Terminals, NEW n \in 1..Len(t.history), NEW line
  PROVE  Downs(Showing(t, Len(t.history) - n, line), n)[n] = BackAt(t, line)
<1>0. PICK len : len = Len(t.history) /\ len \in Nat
  BY SMT DEF Terminals
<1>1. PICK g : g = [k \in 0..n |-> IF k = n THEN BackAt(t, line) ELSE Showing(t, len - n + k, line)]
  OBVIOUS
<1>2. ASSUME NEW k \in 0..n
      PROVE  g[k] = IF k = 0 THEN Showing(t, len - n, line) ELSE history_down(g[k - 1])
  <2>1. CASE k = 0
    <3>1. 0 # n /\ len - n + 0 = len - n
      BY <1>0, SMT
    <3> QED  BY <1>1, <2>1, <3>1, ZenonT(20)
  <2>2. CASE k # 0
    <3>1. /\ k - 1 \in 0..n /\ k - 1 # n /\ len - n + (k - 1) \in 0..len - 1
          /\ (len - n + (k - 1)) + 1 = len - n + k
          /\ (len - n + (k - 1) = len - 1 <=> k = n)
      BY <1>0, <2>2, SMT
    <3>2. g[k - 1] = Showing(t, len - n + (k - 1), line)
      BY <1>1, <3>1, ZenonT(20)
    <3>3. history_down(g[k - 1]) = IF k = n THEN BackAt(t, line) ELSE Showing(t, len - n + k, line)
      <4>1. history_down(Showing(t, len - n + (k - 1), line)) =
              IF len - n + (k - 1) = len - 1 THEN BackAt(t, line)
              ELSE Showing(t, (len - n + (k - 1)) + 1, line)
        BY <1>0, <3>1, NextDown, ZenonT(20)
      <4> QED  BY <3>1, <3>2, <4>1, ZenonT(20)
    <3> QED  BY <1>1, <2>2, <3>3, ZenonT(20)
  <2> QED  BY <2>1, <2>2
<1>3. g = [k \in 0..n |-> IF k = 0 THEN Showing(t, len - n, line) ELSE history_down(g[k - 1])]
  BY <1>1, <1>2, ZenonT(20)
<1>4. n \in Nat /\ n \in 0..n
  BY <1>0, SMT
<1>5. Downs(Showing(t, len - n, line), n)[n] = g[n]
  BY <1>3, <1>4, DownsAre
<1> QED  BY <1>0, <1>1, <1>4, <1>5, ZenonT(20)

\* No step.
LEMMA NoSteps ==
  ASSUME NEW t
  PROVE  Ups(t, 0)[0] = t /\ Downs(t, 0)[0] = t
<1>1. 0 \in Nat /\ 0..0 = {0}
  BY SMT
<1>2. PICK g : g = [k \in 0..0 |-> t]
  OBVIOUS
<1>3. g[0] = t
  BY <1>1, <1>2, ZenonT(20)
<1>4. /\ g = [k \in 0..0 |-> IF k = 0 THEN t ELSE history_up(g[k - 1])]
      /\ g = [k \in 0..0 |-> IF k = 0 THEN t ELSE history_down(g[k - 1])]
  BY <1>1, <1>2, ZenonT(20)
<1>5. Ups(t, 0)[0] = g[0]
  BY <1>1, <1>4, UpsAre, ZenonT(20)
<1>6. Downs(t, 0)[0] = g[0]
  BY <1>1, <1>4, DownsAre, ZenonT(20)
<1> QED  BY <1>3, <1>5, <1>6

\* Looking back any number of lines and forth again brings the line being typed
\* back, for a history of any length (terminal/shell.rs, history_up and
\* history_down).
THEOREM ShellKeepsTheLine == Spec => []LookingBackIsSafe
<1>1. Inv => LookingBackIsSafe
  <2> SUFFICES ASSUME Inv, terminal.history_index = None, NEW k \in 0..Len(terminal.history)
               PROVE  LET t == Downs(Ups(terminal, k)[k], k)[k]
                      IN  t.input_buffer = terminal.input_buffer /\ t.history_index = None
    BY DEF LookingBackIsSafe
  <2>1. terminal \in Terminals
    BY DEF Inv, TerminalOK
  <2>2. CASE k = 0
    BY <2>2, NoSteps
  <2>3. CASE k # 0
    <3>1. k \in 1..Len(terminal.history)
      BY <2>1, <2>3, SMT DEF Terminals
    <3>2. PICK t : t = Downs(Ups(terminal, k)[k], k)[k]
      OBVIOUS
    <3>3. t = BackAt(terminal, terminal.input_buffer)
      BY <2>1, <3>1, <3>2, UpsLead, DownsLead
    <3>4. t.input_buffer = terminal.input_buffer /\ t.history_index = None
      BY <3>3, ZenonT(20) DEF BackAt, Term
    <3> QED  BY <3>2, <3>4
  <2> QED  BY <2>2, <2>3
<1> QED  BY TerminalInOrder, <1>1, PTL
=============================================================================
