--------------------------- MODULE CommandsProofs ---------------------------
(***************************************************************************)
(* What is proved of commands, for any lines typed, any widths of fields   *)
(* and any number of forwards and copies: a command without a "-" arrives  *)
(* as it was accepted, and a line whose words fit is accepted as it stands *)
(***************************************************************************)
EXTENDS Commands, TLAPS

(***************************************************************************)
(* Reading fields.                                                         *)
(***************************************************************************)

\* What a field takes of word w, and what it leaves of one that is longer.
Piece(w, width) == IF SizeOf(w) <= width THEN w ELSE [w EXCEPT !.to = w.from + width - 1]
Left(w, width) == [w EXCEPT !.from = w.from + width]

LEMMA PiecesAreWords ==
  ASSUME NEW w \in Word, NEW width \in Nat, width >= 1
  PROVE  /\ Piece(w, width) \in Word /\ SizeOf(Piece(w, width)) <= width
         /\ SizeOf(w) > width => Left(w, width) \in Word
<1>1. w.name \in Names /\ w.from \in Nat /\ w.to \in Nat /\ SizeOf(w) \in Nat
      /\ w = [name |-> w.name, from |-> w.from, to |-> w.to]
  BY DEF Word, Text, SizeOf
<1>2. CASE SizeOf(w) <= width
  BY <1>1, <1>2 DEF Piece
<1>3. CASE SizeOf(w) > width
  <2> DEFINE a == [name |-> w.name, from |-> w.from, to |-> w.from + width - 1]
             b == [name |-> w.name, from |-> w.from + width, to |-> w.to]
  <2>1. Piece(w, width) = a /\ Left(w, width) = b
    BY <1>1, <1>3 DEF Piece, Left
  <2>2. a \in Text /\ b \in Text /\ SizeOf(a) = width /\ SizeOf(b) > 0
    BY <1>1, <1>3 DEF Text, SizeOf
  <2>3. a \in Word /\ b \in Word
    BY <2>2 DEF Word
  <2> HIDE DEF a, b
  <2> QED BY <2>1, <2>2, <2>3
<1> QED BY <1>1, <1>2, <1>3

Reading == [fields : Seq(Word), rest : Seq(Word)]

\* A field takes a piece of the next word, if there is one.
Takes(read, width, next) ==
    \/ read.rest = <<>> /\ next = read
    \/ read.rest # <<>> /\ \E w \in Word, t \in Seq(Word) :
          SizeOf(w) <= width /\ next = [fields |-> Append(read.fields, w), rest |-> t]

LEMMA FieldTaken ==
  ASSUME NEW read \in Reading, NEW width \in Nat, width >= 1
  PROVE  Takes(read, width, NextField(read, width)) /\ NextField(read, width) \in Reading
<1> DEFINE f == read.fields
           r == read.rest
<1>0. f \in Seq(Word) /\ r \in Seq(Word)
  BY DEF Reading
<1>1. CASE r = <<>>
  BY <1>1 DEF NextField, Takes
<1>2. CASE r # <<>>
  <2> DEFINE w == Head(r)
  <2>1. w \in Word /\ Tail(r) \in Seq(Word)
    BY <1>0, <1>2
  <2>2. /\ Piece(w, width) \in Word /\ SizeOf(Piece(w, width)) <= width
        /\ SizeOf(w) > width => Left(w, width) \in Word
    BY <2>1, PiecesAreWords
  <2>3. \E t \in Seq(Word) :
            NextField(read, width) = [fields |-> Append(f, Piece(w, width)), rest |-> t]
    <3>1. CASE SizeOf(w) <= width
      BY <1>2, <2>1, <3>1 DEF NextField, Piece
    <3>2. CASE ~(SizeOf(w) <= width)
      <4>1. SizeOf(w) > width
        BY <2>1, <3>2 DEF Word, Text, SizeOf
      <4>2. <<Left(w, width)>> \o Tail(r) \in Seq(Word)
        BY <2>1, <2>2, <4>1
      <4>3. NextField(read, width)
              = [fields |-> Append(f, Piece(w, width)), rest |-> <<Left(w, width)>> \o Tail(r)]
        BY <1>2, <3>2 DEF NextField, Piece, Left
      <4> QED BY <4>2, <4>3
    <3> QED BY <3>1, <3>2
  <2>4. Append(f, Piece(w, width)) \in Seq(Word)
    BY <1>0, <2>2
  <2> DEFINE p == Piece(w, width)
  <2> HIDE DEF p
  <2>5. PICK t \in Seq(Word) : NextField(read, width) = [fields |-> Append(f, p), rest |-> t]
    BY <2>3 DEF p
  <2>6. p \in Word /\ SizeOf(p) <= width /\ Append(f, p) \in Seq(Word)
    BY <2>2, <2>4 DEF p
  <2>7. Takes(read, width, NextField(read, width))
    BY <1>2, <2>5, <2>6 DEF Takes
  <2>8. NextField(read, width) \in Reading
    BY <2>5, <2>6 DEF Reading
  <2> QED BY <2>7, <2>8
<1> QED BY <1>1, <1>2

\* A word that fits is taken as it is.
LEMMA FieldFits ==
  ASSUME NEW f, NEW r, r # <<>>, NEW width, SizeOf(Head(r)) <= width
  PROVE  NextField([fields |-> f, rest |-> r], width)
           = [fields |-> Append(f, Head(r)), rest |-> Tail(r)]
  BY DEF NextField

LEMMA WidthsOfFields ==
  /\ Widths[1] = OpWidth /\ Widths[2] = RAFT_MAX_KEY - 1 /\ Widths[3] = RAFT_MAX_VALUE - 1
  /\ OpWidth \in Nat /\ OpWidth >= 3
  /\ RAFT_MAX_KEY - 1 \in Nat /\ RAFT_MAX_KEY - 1 >= 1
  /\ RAFT_MAX_VALUE - 1 \in Nat /\ RAFT_MAX_VALUE - 1 >= 1
  BY CommandsAssumption DEF Widths

LEMMA TwoWords ==
  ASSUME NEW S, NEW a \in S, NEW b \in S PROVE Append(<<a>>, b) = <<a, b>>
<1> DEFINE s == Append(<<a>>, b)
<1>1. s \in Seq(S) /\ Len(s) = 2 /\ s[1] = a /\ s[2] = b
  <2>1. <<a>> \in Seq(S) /\ Len(<<a>>) = 1
    OBVIOUS
  <2> QED BY <2>1
<1> HIDE DEF s
<1>2. s = <<s[1], s[2]>>
  BY <1>1
<1> QED BY <1>1, <1>2 DEF s

LEMMA ThreeWords ==
  ASSUME NEW S, NEW a \in S, NEW b \in S, NEW c \in S PROVE Append(<<a, b>>, c) = <<a, b, c>>
<1> DEFINE s == Append(<<a, b>>, c)
<1>1. s \in Seq(S) /\ Len(s) = 3 /\ s[1] = a /\ s[2] = b /\ s[3] = c
  <2>1. <<a, b>> \in Seq(S) /\ Len(<<a, b>>) = 2
    OBVIOUS
  <2> QED BY <2>1
<1> HIDE DEF s
<1>2. s = <<s[1], s[2], s[3]>>
  BY <1>1
<1> QED BY <1>1, <1>2 DEF s

\* The fields that sscanf finds are at most as long as their widths.
LEMMA ScanFinds ==
  ASSUME NEW words \in Seq(Word)
  PROVE  \/ sscanf(words) = <<>>
         \/ \E a \in Word : sscanf(words) = <<a>>
         \/ \E a, b \in Word : sscanf(words) = <<a, b>> /\ SizeOf(b) <= RAFT_MAX_KEY - 1
         \/ \E a, b, c \in Word : /\ sscanf(words) = <<a, b, c>>
                               /\ SizeOf(b) <= RAFT_MAX_KEY - 1 /\ SizeOf(c) <= RAFT_MAX_VALUE - 1
<1> DEFINE start == [fields |-> <<>>, rest |-> words]
           op == NextField(start, OpWidth)
           key == NextField(op, RAFT_MAX_KEY - 1)
           all == NextField(key, RAFT_MAX_VALUE - 1)
<1>1. sscanf(words) = all.fields
  BY WidthsOfFields DEF sscanf
<1>2. start \in Reading /\ start.fields = <<>>
  BY DEF Reading
<1>3. OpWidth \in Nat /\ OpWidth >= 1
  BY WidthsOfFields
<1> HIDE DEF start
<1>4. Takes(start, OpWidth, op) /\ op \in Reading
  BY <1>2, <1>3, FieldTaken
<1> HIDE DEF op
<1>5. Takes(op, RAFT_MAX_KEY - 1, key) /\ key \in Reading
  BY <1>4, WidthsOfFields, FieldTaken
<1> HIDE DEF key
<1>6. Takes(key, RAFT_MAX_VALUE - 1, all)
  BY <1>5, WidthsOfFields, FieldTaken
<1> HIDE DEF all
<1>7. (op = start /\ op.rest = <<>>) \/ (\E a \in Word : op.fields = <<a>>)
  BY <1>2, <1>4 DEF Takes
<1>8. CASE op = start /\ op.rest = <<>>
  <2>1. key = op
    BY <1>5, <1>8 DEF Takes
  <2> QED BY <1>1, <1>2, <1>6, <1>8, <2>1 DEF Takes
<1>9. ASSUME NEW a \in Word, op.fields = <<a>>
      PROVE  \/ sscanf(words) = <<a>>
             \/ \E b \in Word : /\ sscanf(words) = <<a, b>> /\ SizeOf(b) <= RAFT_MAX_KEY - 1
             \/ \E b, c \in Word : /\ sscanf(words) = <<a, b, c>>
                                /\ SizeOf(b) <= RAFT_MAX_KEY - 1
                                /\ SizeOf(c) <= RAFT_MAX_VALUE - 1
  <2>1. \/ key = op /\ op.rest = <<>>
        \/ \E b \in Word : SizeOf(b) <= RAFT_MAX_KEY - 1 /\ key.fields = <<a, b>>
    BY <1>5, <1>9 DEF Takes
  <2>2. CASE key = op /\ op.rest = <<>>
    BY <1>1, <1>6, <1>9, <2>2 DEF Takes
  <2>3. ASSUME NEW b \in Word, SizeOf(b) <= RAFT_MAX_KEY - 1, key.fields = <<a, b>>
        PROVE  \/ sscanf(words) = <<a, b>>
               \/ \E c \in Word : sscanf(words) = <<a, b, c>> /\ SizeOf(c) <= RAFT_MAX_VALUE - 1
    <3>1. CASE all = key
      BY <1>1, <2>3, <3>1
    <3>2. ASSUME NEW c \in Word, SizeOf(c) <= RAFT_MAX_VALUE - 1, all.fields = Append(key.fields, c)
          PROVE  sscanf(words) = <<a, b, c>>
      BY <1>1, <2>3, <3>2, ThreeWords
    <3> QED BY <1>6, <3>1, <3>2 DEF Takes
  <2> QED BY <2>1, <2>2, <2>3
<1> QED BY <1>1, <1>7, <1>8, <1>9

(***************************************************************************)
(* What the console accepts.                                               *)
(***************************************************************************)

\* A set or del as it is in a log, where it may have lost a "-" on its way.
Kept ==
    {c \in Command : /\ c.op \in {"set", "del"}
                     /\ c.key \in Word \cup {Empty} /\ SizeOf(c.key) <= RAFT_MAX_KEY - 1
                     /\ c.value \in Word \cup {Empty} /\ SizeOf(c.value) <= RAFT_MAX_VALUE - 1}

\* A set or del that raft_submit_command accepts.
Sendable == {c \in Kept : Valid(c)}

LEMMA SizesOfWords ==
  /\ \A w \in Word : w \in Text /\ SizeOf(w) \in Nat \ {0} /\ w # Empty
  /\ Empty \in Text /\ SizeOf(Empty) = 0 /\ Empty # Dash
  /\ Dash \in Word /\ SizeOf(Dash) = 1 /\ IsDash(Dash) /\ ~IsDash(Empty)
<1>1. ASSUME NEW w \in Word PROVE w \in Text /\ SizeOf(w) \in Nat \ {0}
  BY DEF Word, Text, SizeOf
<1>2. Empty \in Text /\ SizeOf(Empty) = 0 /\ Dash \in Text /\ SizeOf(Dash) = 1
  <2>1. /\ Empty = [name |-> "", from |-> 1, to |-> 0]
        /\ Dash = [name |-> "-", from |-> 1, to |-> 1]
    BY DEF Empty, Dash, Token
  <2>2. "" \in Names
    BY WordsAssumption
  <2>7. "-" \in Names
    BY WordsAssumption
  <2>4. \A x \in Names, m, n \in Nat : [name |-> x, from |-> m, to |-> n] \in Text
    BY DEF Text
  <2>5. Empty \in Text
    BY <2>1, <2>2, <2>4
  <2>6. Dash \in Text
    BY <2>1, <2>7, <2>4
  <2>3. /\ Empty.from = 1 /\ Empty.to = 0
        /\ Dash.from = 1 /\ Dash.to = 1
    BY <2>1
  <2> QED BY <2>3, <2>5, <2>6 DEF SizeOf
<1>3. Empty # Dash /\ Empty \notin Word
  BY <1>1, <1>2
<1>4. Dash \in Word
  BY <1>2 DEF Word
<1>5. IsDash(Dash)
  <2>1. Dash.name = "-" /\ Dash.from = 1
    BY DEF Dash, Token
  <2> QED BY <1>2, <2>1, WordsAssumption DEF IsDash
<1>6. ~IsDash(Empty)
  BY <1>2 DEF IsDash
<1> QED BY <1>1, <1>2, <1>3, <1>4, <1>5, <1>6

\* What is accepted are words of the line or pieces of them.
LEMMA ParseTypes ==
  ASSUME NEW words \in Seq(Word)
  PROVE  LET c == parse_kv_command(words) IN
         /\ c \in Command \cup {Nothing}
         /\ c.op \in {"set", "del"} => c \in Sendable
<1> DEFINE f == sscanf(words)
           c == parse_kv_command(words)
<1>1. CASE c = Nothing
  BY <1>1 DEF Nothing
<1>2. CASE c # Nothing
  <2>1. /\ f # <<>> /\ Op(f[1]) # "none" /\ Len(f) = Arity[Op(f[1])]
        /\ is_valid_token(f[2], RAFT_MAX_KEY)
        /\ Len(f) = 3 => is_valid_token(f[3], RAFT_MAX_VALUE)
        /\ c = [op |-> Op(f[1]), key |-> f[2], value |-> IF Len(f) = 3 THEN f[3] ELSE Empty]
    BY <1>2 DEF parse_kv_command
  <2> HIDE DEF f, c
  <2>2. Op(f[1]) \in {"set", "del", "get"}
    BY <2>1 DEF Op, Token
  <2>3. Len(f) = (IF Op(f[1]) = "set" THEN 3 ELSE 2)
    BY <2>1, <2>2 DEF Arity
  <2>4. f[2] \in Word /\ (Len(f) = 3 => f[3] \in Word)
    <3>1. \/ \E a, b \in Word : f = <<a, b>>
          \/ \E a, b, d \in Word : f = <<a, b, d>>
      <4>1. f = <<>> => Len(f) = 0
        OBVIOUS
      <4>2. \A a : f = <<a>> => Len(f) = 1
        OBVIOUS
      <4> QED BY <2>3, <4>1, <4>2, ScanFinds DEF f
    <3> QED BY <3>1
  <2>6. c \in Command
    BY <2>1, <2>2, <2>3, <2>4, SizesOfWords DEF Command
  <2>7. ASSUME c.op \in {"set", "del"} PROVE c \in Sendable
    <3>1. c.key = f[2] /\ c.op = Op(f[1]) /\ c.value = (IF Len(f) = 3 THEN f[3] ELSE Empty)
      BY <2>1
    <3>2. Valid(c)
      BY <2>1, <2>3, <2>7, <3>1 DEF Valid
    <3>3. SizeOf(c.key) <= RAFT_MAX_KEY - 1
      BY <2>1, <3>1 DEF is_valid_token
    <3>4. SizeOf(c.value) <= RAFT_MAX_VALUE - 1
      <4>1. CASE Len(f) = 3
        BY <2>1, <3>1, <4>1 DEF is_valid_token
      <4>2. CASE Len(f) # 3
        BY <3>1, <4>2, SizesOfWords, WidthsOfFields
      <4> QED BY <4>1, <4>2
    <3> QED BY <2>4, <2>6, <2>7, <3>1, <3>2, <3>3, <3>4 DEF Sendable, Kept
  <2> QED BY <2>6, <2>7 DEF c
<1> QED BY <1>1, <1>2

(***************************************************************************)
(* Words that fit.                                                         *)
(***************************************************************************)

LEMMA InTail ==
  ASSUME NEW S, NEW u \in Seq(S), NEW k \in 1 .. (Len(u) - 1) PROVE Tail(u)[k] = u[k + 1]
  OBVIOUS

\* What is taken from the sequences of one, two or three words, and added to them.
LEMMA Tuples ==
  ASSUME NEW S, NEW a \in S, NEW b \in S, NEW c \in S
  PROVE  /\ Append(<<>>, a) = <<a>> /\ Append(<<a>>, b) = <<a, b>>
         /\ Append(<<a, b>>, c) = <<a, b, c>>
         /\ <<a>> # <<>> /\ Head(<<a>>) = a /\ Tail(<<a>>) = <<>>
         /\ <<a, b>> # <<>> /\ Head(<<a, b>>) = a /\ Tail(<<a, b>>) = <<b>>
         /\ <<a, b, c>> # <<>> /\ Head(<<a, b, c>>) = a /\ Tail(<<a, b, c>>) = <<b, c>>
<1>1. \A s \in Seq(S) : /\ Len(s) = 0 => s = <<>>
                        /\ Len(s) = 1 => s = <<s[1]>>
                        /\ Len(s) = 2 => s = <<s[1], s[2]>>
  OBVIOUS
<1>2. Append(<<>>, a) = <<a>>
  <2> DEFINE s == Append(<<>>, a)
  <2>1. s \in Seq(S) /\ Len(s) = 1 /\ s[1] = a
    OBVIOUS
  <2> HIDE DEF s
  <2> QED BY <1>1, <2>1 DEF s
<1>4. <<a>> # <<>> /\ Head(<<a>>) = a /\ Tail(<<a>>) = <<>>
  <2> DEFINE u == <<a>>
  <2>1. u \in Seq(S) /\ Len(u) = 1 /\ u[1] = a
    OBVIOUS
  <2> HIDE DEF u
  <2>2. u # <<>> /\ Head(u) = a /\ Tail(u) \in Seq(S) /\ Len(Tail(u)) = 0
    BY <2>1
  <2>3. Tail(u) = <<>>
    BY <1>1, <2>2
  <2> QED BY <2>2, <2>3 DEF u
<1>5. <<a, b>> # <<>> /\ Head(<<a, b>>) = a /\ Tail(<<a, b>>) = <<b>>
  <2> DEFINE u == <<a, b>>
  <2>1. u \in Seq(S) /\ Len(u) = 2 /\ u[1] = a /\ u[2] = b
    OBVIOUS
  <2> HIDE DEF u
  <2>4. u # <<>> /\ Head(u) = a /\ Tail(u) \in Seq(S) /\ Len(Tail(u)) = 1
    BY <2>1
  <2>5. 1 \in 1 .. (Len(u) - 1) /\ 1 + 1 = 2
    BY <2>1
  <2>6. Tail(u)[1] = u[1 + 1]
    BY <2>1, <2>5, InTail
  <2>2. u # <<>> /\ Head(u) = a /\ Tail(u) \in Seq(S) /\ Len(Tail(u)) = 1 /\ Tail(u)[1] = b
    BY <2>1, <2>4, <2>5, <2>6
  <2>3. Tail(u) = <<b>>
    BY <1>1, <2>2
  <2> QED BY <2>2, <2>3 DEF u
<1>6. <<a, b, c>> # <<>> /\ Head(<<a, b, c>>) = a /\ Tail(<<a, b, c>>) = <<b, c>>
  <2> DEFINE u == <<a, b, c>>
  <2>1. u \in Seq(S) /\ Len(u) = 3 /\ u[1] = a /\ u[2] = b /\ u[3] = c
    OBVIOUS
  <2> HIDE DEF u
  <2>2. /\ u # <<>> /\ Head(u) = a /\ Tail(u) \in Seq(S) /\ Len(Tail(u)) = 2
        /\ Tail(u)[1] = b /\ Tail(u)[2] = c
    BY <2>1
  <2>3. Tail(u) = <<b, c>>
    BY <1>1, <2>2
  <2> QED BY <2>2, <2>3 DEF u
<1> QED BY <1>2, <1>4, <1>5, <1>6, TwoWords, ThreeWords

\* The first word is the first field, when it fits.
LEMMA FirstFits ==
  ASSUME NEW words \in Seq(Word), words # <<>>, SizeOf(words[1]) <= OpWidth
  PROVE  sscanf(words) # <<>> /\ sscanf(words)[1] = words[1]
<1> DEFINE w == Head(words)
           op == NextField([fields |-> <<>>, rest |-> words], OpWidth)
           key == NextField(op, RAFT_MAX_KEY - 1)
           all == NextField(key, RAFT_MAX_VALUE - 1)
           Starts(r) == /\ r \in Reading /\ Len(r.fields) > 0 /\ r.fields[1] = w
<1>1. w = words[1] /\ w \in Word /\ Tail(words) \in Seq(Word) /\ SizeOf(w) <= OpWidth
  OBVIOUS
<1>2. op = [fields |-> Append(<<>>, w), rest |-> Tail(words)]
  BY <1>1, FieldFits
<1>3. Starts(op)
  <2>1. Append(<<>>, w) \in Seq(Word) /\ Len(Append(<<>>, w)) = 1 /\ Append(<<>>, w)[1] = w
    BY <1>1
  <2> DEFINE t == Append(<<>>, w)
             u == Tail(words)
  <2>2. t \in Seq(Word) /\ Len(t) > 0 /\ t[1] = w /\ u \in Seq(Word)
    BY <1>1, <2>1
  <2>3. op = [fields |-> t, rest |-> u]
    BY <1>2
  <2> HIDE DEF t, u, op, w
  <2> QED BY <2>2, <2>3 DEF Reading
<1>4. ASSUME NEW r, Starts(r), NEW width \in Nat, width >= 1 PROVE Starts(NextField(r, width))
  <2> DEFINE n == NextField(r, width)
  <2>1. Takes(r, width, n) /\ n \in Reading
    BY <1>4, FieldTaken
  <2> HIDE DEF n
  <2>2. CASE n = r
    BY <1>4, <2>2 DEF n
  <2>3. ASSUME NEW x \in Word, n.fields = Append(r.fields, x) PROVE Starts(n)
    <3>1. r.fields \in Seq(Word)
      BY <1>4 DEF Reading
    <3>2. Len(Append(r.fields, x)) > 0 /\ Append(r.fields, x)[1] = r.fields[1]
      BY <1>4, <3>1
    <3> QED BY <1>4, <2>1, <2>3, <3>2
  <2>4. n = r \/ \E x \in Word : n.fields = Append(r.fields, x)
    BY <2>1 DEF Takes
  <2> QED BY <2>2, <2>3, <2>4 DEF n
<1> HIDE DEF op, Starts
<1>5. Starts(key)
  BY <1>3, <1>4, WidthsOfFields
<1> HIDE DEF key
<1>6. Starts(all)
  BY <1>4, <1>5, WidthsOfFields
<1>7. sscanf(words) = all.fields
  BY WidthsOfFields DEF sscanf, key, op
<1> HIDE DEF all
<1>8. Len(all.fields) > 0 /\ all.fields[1] = w /\ all.fields \in Seq(Word)
  BY <1>6 DEF Starts, Reading
<1> QED BY <1>1, <1>7, <1>8

LEMMA OneFits ==
  ASSUME NEW a \in Word, SizeOf(a) <= OpWidth
  PROVE  sscanf(<<a>>) = <<a>>
<1>1. NextField([fields |-> <<>>, rest |-> <<a>>], OpWidth) = [fields |-> <<a>>, rest |-> <<>>]
  <2>1. <<a>> # <<>> /\ Head(<<a>>) = a /\ Tail(<<a>>) = <<>> /\ Append(<<>>, a) = <<a>>
    BY Tuples
  <2> QED BY <2>1, FieldFits
<1>2. \A width : NextField([fields |-> <<a>>, rest |-> <<>>], width)
                   = [fields |-> <<a>>, rest |-> <<>>]
  BY DEF NextField
<1> QED BY <1>1, <1>2, WidthsOfFields DEF sscanf

LEMMA TwoFit ==
  ASSUME NEW a \in Word, NEW b \in Word, SizeOf(a) <= OpWidth, SizeOf(b) <= RAFT_MAX_KEY - 1
  PROVE  sscanf(<<a, b>>) = <<a, b>>
<1>1. NextField([fields |-> <<>>, rest |-> <<a, b>>], OpWidth) = [fields |-> <<a>>, rest |-> <<b>>]
  <2>1. /\ <<a, b>> # <<>> /\ Head(<<a, b>>) = a /\ Tail(<<a, b>>) = <<b>>
        /\ Append(<<>>, a) = <<a>>
    BY Tuples
  <2> QED BY <2>1, FieldFits
<1>2. NextField([fields |-> <<a>>, rest |-> <<b>>], RAFT_MAX_KEY - 1)
        = [fields |-> <<a, b>>, rest |-> <<>>]
  <2>1. <<b>> # <<>> /\ Head(<<b>>) = b /\ Tail(<<b>>) = <<>>
    BY Tuples
  <2>2. Append(<<a>>, b) = <<a, b>>
    BY TwoWords
  <2> QED BY <2>1, <2>2, FieldFits
<1>3. NextField([fields |-> <<a, b>>, rest |-> <<>>], RAFT_MAX_VALUE - 1)
        = [fields |-> <<a, b>>, rest |-> <<>>]
  BY DEF NextField
<1> QED BY <1>1, <1>2, <1>3, WidthsOfFields DEF sscanf

LEMMA ThreeFit ==
  ASSUME NEW a \in Word, NEW b \in Word, NEW c \in Word, SizeOf(a) <= OpWidth,
         SizeOf(b) <= RAFT_MAX_KEY - 1, SizeOf(c) <= RAFT_MAX_VALUE - 1
  PROVE  sscanf(<<a, b, c>>) = <<a, b, c>>
<1>1. NextField([fields |-> <<>>, rest |-> <<a, b, c>>], OpWidth)
        = [fields |-> <<a>>, rest |-> <<b, c>>]
  <2>1. /\ <<a, b, c>> # <<>> /\ Head(<<a, b, c>>) = a /\ Tail(<<a, b, c>>) = <<b, c>>
        /\ Append(<<>>, a) = <<a>>
    BY Tuples
  <2> QED BY <2>1, FieldFits
<1>2. NextField([fields |-> <<a>>, rest |-> <<b, c>>], RAFT_MAX_KEY - 1)
        = [fields |-> <<a, b>>, rest |-> <<c>>]
  <2>1. <<b, c>> # <<>> /\ Head(<<b, c>>) = b /\ Tail(<<b, c>>) = <<c>>
    BY Tuples
  <2>2. Append(<<a>>, b) = <<a, b>>
    BY TwoWords
  <2> QED BY <2>1, <2>2, FieldFits
<1>3. NextField([fields |-> <<a, b>>, rest |-> <<c>>], RAFT_MAX_VALUE - 1)
        = [fields |-> <<a, b, c>>, rest |-> <<>>]
  <2>1. <<c>> # <<>> /\ Head(<<c>>) = c /\ Tail(<<c>>) = <<>>
    BY Tuples
  <2>2. Append(<<a, b>>, c) = <<a, b, c>>
    BY ThreeWords
  <2> QED BY <2>1, <2>2, FieldFits
<1> QED BY <1>1, <1>2, <1>3, WidthsOfFields DEF sscanf

(***************************************************************************)
(* Lines between nodes.                                                    *)
(***************************************************************************)

LEMMA Joined ==
  ASSUME NEW S, NEW a \in S, NEW b \in S, NEW c \in S
  PROVE  /\ <<a>> \o <<>> = <<a>> /\ <<a>> \o <<b>> = <<a, b>>
         /\ <<a, b>> \o <<c>> = <<a, b, c>>
<1>1. \A s \in Seq(S) : /\ Len(s) = 1 => s = <<s[1]>>
                        /\ Len(s) = 2 => s = <<s[1], s[2]>>
                        /\ Len(s) = 3 => s = <<s[1], s[2], s[3]>>
  OBVIOUS
<1>2. /\ <<a>> \in Seq(S) /\ Len(<<a>>) = 1 /\ <<a>>[1] = a
      /\ <<b>> \in Seq(S) /\ Len(<<b>>) = 1 /\ <<b>>[1] = b
      /\ <<c>> \in Seq(S) /\ Len(<<c>>) = 1 /\ <<c>>[1] = c
      /\ <<a, b>> \in Seq(S) /\ Len(<<a, b>>) = 2 /\ <<a, b>>[1] = a /\ <<a, b>>[2] = b
  OBVIOUS
<1>3. \A s, t \in Seq(S) :
         /\ s \o t \in Seq(S) /\ Len(s \o t) = Len(s) + Len(t)
         /\ \A i \in 1 .. Len(s) : (s \o t)[i] = s[i]
         /\ \A i \in 1 .. Len(t) : (s \o t)[Len(s) + i] = t[i]
  OBVIOUS
<1>4. \A s \in Seq(S) : s \o <<>> = s
  OBVIOUS
<1>5. <<a>> \o <<b>> = <<a, b>>
  <2> DEFINE u == <<a>>
             v == <<b>>
             s == u \o v
  <2>1. u \in Seq(S) /\ v \in Seq(S) /\ Len(u) = 1 /\ Len(v) = 1 /\ u[1] = a /\ v[1] = b
    BY <1>2
  <2> HIDE DEF u, v
  <2>2. s \in Seq(S) /\ Len(s) = 2 /\ s[1] = a /\ s[2] = b
    <3>1. 1 \in 1 .. Len(u) /\ 1 \in 1 .. Len(v) /\ Len(u) + 1 = 2
      BY <2>1
    <3>2. s \in Seq(S) /\ Len(s) = 2
      BY <1>3, <2>1
    <3>4. s[1] = a
      BY <1>3, <2>1, <3>1
    <3>3. s[Len(u) + 1] = v[1]
      BY <1>3, <2>1, <3>1
    <3> QED BY <2>1, <3>1, <3>2, <3>3, <3>4
  <2> HIDE DEF s
  <2> QED BY <1>1, <2>2 DEF s, u, v
<1>6. <<a, b>> \o <<c>> = <<a, b, c>>
  <2> DEFINE u == <<a, b>>
             v == <<c>>
             s == u \o v
  <2>1. /\ u \in Seq(S) /\ v \in Seq(S) /\ Len(u) = 2 /\ Len(v) = 1
        /\ u[1] = a /\ u[2] = b /\ v[1] = c
    BY <1>2
  <2> HIDE DEF u, v
  <2>2. s \in Seq(S) /\ Len(s) = 3 /\ s[1] = a /\ s[2] = b /\ s[3] = c
    <3>1. 1 \in 1 .. Len(u) /\ 2 \in 1 .. Len(u) /\ 1 \in 1 .. Len(v) /\ Len(u) + 1 = 3
      BY <2>1
    <3>2. s \in Seq(S) /\ Len(s) = 3
      BY <1>3, <2>1
    <3>3. s[1] = a /\ s[2] = b
      BY <1>3, <2>1, <3>1
    <3>4. s[Len(u) + 1] = v[1]
      BY <1>3, <2>1, <3>1
    <3> QED BY <2>1, <3>1, <3>2, <3>3, <3>4
  <2> HIDE DEF s
  <2> QED BY <1>1, <2>2 DEF s, u, v
<1> QED BY <1>2, <1>4, <1>5, <1>6

\* The words of an entry: an empty key leaves none, an empty value leaves a "-".
LEMMA Printing ==
  ASSUME NEW c \in Kept
  PROVE  LET o == Token(c.op, 3)
             w == Written(c.value)
         IN /\ o \in Word /\ SizeOf(o) <= OpWidth /\ Op(o) = c.op
            /\ w \in Word /\ SizeOf(w) <= RAFT_MAX_VALUE - 1
            /\ c.key = Empty => words_of(c) = <<o, w>>
            /\ c.key # Empty => c.key \in Word /\ words_of(c) = <<o, c.key, w>>
<1> DEFINE o == Token(c.op, 3)
           w == Written(c.value)
<1>1. /\ c.op \in {"set", "del"}
      /\ c.key \in Word \cup {Empty} /\ c.value \in Word \cup {Empty}
      /\ SizeOf(c.value) <= RAFT_MAX_VALUE - 1
  BY DEF Kept
<1>2. o \in Word /\ SizeOf(o) <= OpWidth
  <2>1. o = [name |-> c.op, from |-> 1, to |-> 3]
    BY DEF Token
  <2>2. o \in Text /\ o.name # "-" /\ o.from = 1 /\ o.to = 3
    <3>1. c.op \in Names
      BY <1>1, WordsAssumption
    <3> QED BY <1>1, <2>1, <3>1 DEF Text
  <2> HIDE DEF o
  <2>3. SizeOf(o) = 3
    BY <2>2 DEF SizeOf
  <2> QED BY <2>2, <2>3, WidthsOfFields DEF Word
<1>3. Op(o) = c.op
  <2>1. o \in {Token("set", 3), Token("del", 3), Token("get", 3)} /\ o.name = c.op
    BY <1>1 DEF Token
  <2> QED BY <2>1 DEF Op
<1>4. w \in Word /\ SizeOf(w) <= RAFT_MAX_VALUE - 1
  BY <1>1, SizesOfWords, WidthsOfFields DEF Written
<1>5. words_of(c) = <<o>> \o Printed(c.key) \o Printed(w)
  BY DEF words_of
<1> HIDE DEF o, w
<1>6. Printed(w) = <<w>>
  BY <1>4, SizesOfWords DEF Printed
<1>7. CASE c.key = Empty
  <2>1. Printed(c.key) = <<>>
    BY <1>7 DEF Printed
  <2>2. <<o>> \o <<>> = <<o>>
    BY <1>2, Joined
  <2>3. <<o>> \o <<w>> = <<o, w>>
    BY <1>2, <1>4, Joined
  <2> QED BY <1>2, <1>3, <1>4, <1>5, <1>6, <1>7, <2>1, <2>2, <2>3 DEF o, w
<1>8. CASE c.key # Empty
  <2> DEFINE k == c.key
  <2>1. k \in Word /\ Printed(k) = <<k>>
    BY <1>1, <1>8 DEF Printed
  <2> HIDE DEF k
  <2>2. <<o>> \o <<k>> = <<o, k>>
    BY <1>2, <2>1, Joined
  <2>3. <<o, k>> \o <<w>> = <<o, k, w>>
    BY <1>2, <1>4, <2>1, Joined
  <2>4. words_of(c) = <<o, k, w>>
    BY <1>5, <1>6, <2>1, <2>2, <2>3 DEF k
  <2> QED BY <1>2, <1>3, <1>4, <1>8, <2>1, <2>4 DEF o, w, k
<1> QED BY <1>7, <1>8

LEMMA ReadsBack ==
  /\ \A w \in Word : Read(w) \in Word \cup {Empty} /\ SizeOf(Read(w)) <= SizeOf(w)
  /\ \A w \in Word : ~IsDash(w) => Read(w) = w
  /\ \A v \in Word \cup {Empty} : ~IsDash(v) => Read(Written(v)) = v
  /\ Read(Written(Empty)) = Empty
<1>1. \A w \in Word : Read(w) \in Word \cup {Empty} /\ SizeOf(Read(w)) <= SizeOf(w)
  BY SizesOfWords DEF Read
<1>2. \A w \in Word : ~IsDash(w) => Read(w) = w
  BY DEF Read
<1>3. Read(Written(Empty)) = Empty
  BY SizesOfWords DEF Read, Written
<1>4. \A v \in Word : Written(v) = v
  BY SizesOfWords DEF Written
<1> QED BY <1>1, <1>2, <1>3, <1>4

LEMMA MakesKept ==
  ASSUME NEW op \in {"set", "del"},
         NEW k \in Word \cup {Empty}, SizeOf(k) <= RAFT_MAX_KEY - 1,
         NEW v \in Word \cup {Empty}, SizeOf(v) <= RAFT_MAX_VALUE - 1, op # "set" => v = Empty
  PROVE  [op |-> op, key |-> k, value |-> v] \in Kept
<1> DEFINE d == [op |-> op, key |-> k, value |-> v]
<1>1. k \in Text /\ v \in Text /\ op \in {"set", "del", "get"}
  BY SizesOfWords
<1>2. d \in [op : {"set", "del", "get"}, key : Text, value : Text]
  BY <1>1
<1>3. d.op = op /\ d.key = k /\ d.value = v
  OBVIOUS
<1> HIDE DEF d
<1>4. d \in Command
  BY <1>2, <1>3 DEF Command
<1>5. d \in Kept
  BY <1>3, <1>4 DEF Kept
<1> QED BY <1>5 DEF d

\* A command that a CL line carries is a set or del, with the key it had.
LEMMA Forwarded ==
  ASSUME NEW c \in Sendable
  PROVE  decode_cl(words_of(c)) = [op |-> c.op, key |-> c.key, value |-> Read(Written(c.value))]
<1> DEFINE o == Token(c.op, 3)
           w == Written(c.value)
           k == c.key
<1>1. c \in Kept /\ k # Empty /\ SizeOf(k) <= RAFT_MAX_KEY - 1
  BY SizesOfWords DEF Sendable, Kept, Valid, is_valid_token
<1>2. /\ o \in Word /\ SizeOf(o) <= OpWidth /\ Op(o) = c.op
      /\ w \in Word /\ SizeOf(w) <= RAFT_MAX_VALUE - 1
      /\ k \in Word /\ words_of(c) = <<o, k, w>>
  BY <1>1, Printing
<1> HIDE DEF o, w, k
<1>3. sscanf(words_of(c)) = <<o, k, w>>
  BY <1>1, <1>2, ThreeFit
<1>4. decode_cl(words_of(c)) = [op |-> Op(o), key |-> k, value |-> Read(w)]
  BY <1>3 DEF decode_cl
<1> QED BY <1>2, <1>4 DEF k, w

LEMMA ForwardedIsKept ==
  ASSUME NEW c \in Sendable PROVE decode_cl(words_of(c)) \in Kept
<1> DEFINE d == decode_cl(words_of(c))
           v == Read(Written(c.value))
<1>1. d = [op |-> c.op, key |-> c.key, value |-> v]
  BY Forwarded
<1>2. c \in Kept /\ c \in Command
  BY DEF Sendable, Kept
<1>3. /\ c.op \in {"set", "del"} /\ (c.op # "set" => c.value = Empty)
      /\ c.key \in Word \cup {Empty} /\ SizeOf(c.key) <= RAFT_MAX_KEY - 1
  BY <1>2 DEF Kept, Command
<1>4. v \in Word \cup {Empty} /\ SizeOf(v) <= RAFT_MAX_VALUE - 1 /\ (c.value = Empty => v = Empty)
  <2>1. Written(c.value) \in Word /\ SizeOf(Written(c.value)) <= RAFT_MAX_VALUE - 1
    BY <1>2, Printing
  <2>3. v \in Word \cup {Empty} /\ SizeOf(v) <= SizeOf(Written(c.value))
    BY <2>1, ReadsBack
  <2>4. SizeOf(v) \in Nat /\ SizeOf(Written(c.value)) \in Nat
    BY <2>1, <2>3, SizesOfWords
  <2> QED BY <2>1, <2>3, <2>4, ReadsBack, WidthsOfFields
<1> HIDE DEF v
<1>5. \A op \in {"set", "del"} : c.op = op => d \in Kept
  BY <1>1, <1>3, <1>4, MakesKept
<1> QED BY <1>3, <1>5

\* An entry whose key is not empty is received with its key and value, but for a "-".
LEMMA Copied ==
  ASSUME NEW c \in Kept, c.key # Empty
  PROVE  decode_ae(words_of(c))
           = [op |-> c.op, key |-> Read(c.key), value |-> Read(Written(c.value))]
<1> DEFINE o == Token(c.op, 3)
           w == Written(c.value)
           k == c.key
<1>1. /\ o \in Word /\ SizeOf(o) <= OpWidth /\ Op(o) = c.op
      /\ w \in Word /\ SizeOf(w) <= RAFT_MAX_VALUE - 1
      /\ k \in Word /\ words_of(c) = <<o, k, w>>
  BY Printing
<1>2. SizeOf(k) <= RAFT_MAX_KEY - 1
  BY DEF Kept
<1> HIDE DEF o, w, k
<1>3. sscanf(words_of(c)) = <<o, k, w>>
  BY <1>1, <1>2, ThreeFit
<1>4. decode_ae(words_of(c)) = [op |-> Op(o), key |-> Read(k), value |-> Read(w)]
  BY <1>3 DEF decode_ae
<1> QED BY <1>1, <1>4 DEF k, w

\* One whose key was lost is received only if its value is too long for a key.
LEMMA CopiedIsKept ==
  ASSUME NEW c \in Kept
  PROVE  decode_ae(words_of(c)) \in Kept \cup {Nothing}
<1> DEFINE d == decode_ae(words_of(c))
           o == Token(c.op, 3)
           w == Written(c.value)
<1>1. /\ c.op \in {"set", "del"} /\ (c.op # "set" => c.value = Empty)
      /\ c.key \in Word \cup {Empty} /\ SizeOf(c.key) <= RAFT_MAX_KEY - 1
  BY DEF Kept, Command
<1>2. /\ o \in Word /\ SizeOf(o) <= OpWidth /\ Op(o) = c.op
      /\ w \in Word /\ SizeOf(w) <= RAFT_MAX_VALUE - 1
  BY Printing
<1>3. ASSUME NEW k \in Word, SizeOf(k) <= RAFT_MAX_KEY - 1,
             NEW v \in Word, SizeOf(v) <= RAFT_MAX_VALUE - 1,
             c.op # "set" => Read(v) = Empty,
             d = [op |-> c.op, key |-> Read(k), value |-> Read(v)]
      PROVE  d \in Kept
  <2> DEFINE rk == Read(k)
             rv == Read(v)
  <2>1. /\ rk \in Word \cup {Empty} /\ SizeOf(rk) <= SizeOf(k)
        /\ rv \in Word \cup {Empty} /\ SizeOf(rv) <= SizeOf(v)
    BY ReadsBack
  <2>2. /\ rk \in Text /\ rv \in Text
        /\ SizeOf(rk) \in Nat /\ SizeOf(k) \in Nat /\ SizeOf(rv) \in Nat /\ SizeOf(v) \in Nat
    BY <2>1, SizesOfWords
  <2>3. d = [op |-> c.op, key |-> rk, value |-> rv] /\ (c.op # "set" => rv = Empty)
    BY <1>3
  <2> HIDE DEF d, rk, rv
  <2>4. SizeOf(rk) <= RAFT_MAX_KEY - 1 /\ SizeOf(rv) <= RAFT_MAX_VALUE - 1
    BY <1>3, <2>1, <2>2, WidthsOfFields
  <2> DEFINE op == c.op
  <2>5. op \in {"set", "del"} /\ (op # "set" => rv = Empty)
    BY <1>1, <2>3
  <2> HIDE DEF op
  <2>6. [op |-> op, key |-> rk, value |-> rv] \in Kept
    BY <2>1, <2>4, <2>5, MakesKept
  <2> QED BY <2>3, <2>6 DEF op
<1>4. CASE c.key # Empty
  <2>1. Read(Written(Empty)) = Empty
    BY ReadsBack
  <2>2. c.op # "set" => Read(w) = Empty
    BY <1>1, <2>1
  <2>3. c.key \in Word /\ d = [op |-> c.op, key |-> Read(c.key), value |-> Read(w)]
    BY <1>1, <1>4, Copied
  <2> DEFINE k == c.key
  <2>4. k \in Word /\ SizeOf(k) <= RAFT_MAX_KEY - 1 /\ d = [op |-> c.op, key |-> Read(k), value |-> Read(w)]
    BY <1>1, <2>3
  <2>5. w \in Word /\ SizeOf(w) <= RAFT_MAX_VALUE - 1
    BY <1>2
  <2> HIDE DEF d, w, k
  <2>6. d \in Kept
    BY <1>3, <2>2, <2>4, <2>5
  <2> QED BY <2>6 DEF d
<1>5. CASE c.key = Empty /\ SizeOf(w) <= RAFT_MAX_KEY - 1
  <2>1. words_of(c) = <<o, w>>
    BY <1>5, Printing
  <2> HIDE DEF o, w
  <2>2. sscanf(words_of(c)) = <<o, w>>
    BY <1>2, <1>5, <2>1, TwoFit
  <2> QED BY <2>2 DEF decode_ae
<1>6. CASE c.key = Empty /\ ~(SizeOf(w) <= RAFT_MAX_KEY - 1)
  <2>1. words_of(c) = <<o, w>>
    BY <1>6, Printing
  <2>2. c.op = "set"
    <3>1. w # Dash
      BY <1>6, SizesOfWords, WidthsOfFields
    <3>2. c.value # Empty
      BY <3>1 DEF Written
    <3> QED BY <1>1, <3>2
  <2> HIDE DEF o, w, d
  <2> DEFINE f == sscanf(words_of(c))
  <2>3. <<o, w>> \in Seq(Word) /\ <<o, w>> # <<>> /\ <<o, w>>[1] = o
    BY <1>2
  <2>4. f # <<>> /\ f[1] = o
    BY <1>2, <2>1, <2>3, FirstFits
  <2>5. \/ \E a \in Word : f = <<a>>
        \/ \E a, b \in Word : f = <<a, b>>
        \/ \E a, b, e \in Word : /\ f = <<a, b, e>>
                                 /\ SizeOf(b) <= RAFT_MAX_KEY - 1 /\ SizeOf(e) <= RAFT_MAX_VALUE - 1
    <3> DEFINE words == <<o, w>>
    <3>1. words \in Seq(Word)
      BY <2>3
    <3> HIDE DEF words
    <3>2. sscanf(words) # <<>>
      BY <2>1, <2>4 DEF words, f
    <3>3. \/ \E a \in Word : sscanf(words) = <<a>>
          \/ \E a, b \in Word : sscanf(words) = <<a, b>> /\ SizeOf(b) <= RAFT_MAX_KEY - 1
          \/ \E a, b, e \in Word :
                /\ sscanf(words) = <<a, b, e>>
                /\ SizeOf(b) <= RAFT_MAX_KEY - 1 /\ SizeOf(e) <= RAFT_MAX_VALUE - 1
      BY <3>1, <3>2, ScanFinds
    <3>4. f = sscanf(words)
      BY <2>1 DEF words, f
    <3> HIDE DEF f
    <3> QED BY <3>3, <3>4
  <2> HIDE DEF f
  <2>6. CASE Len(f) # 3
    BY <2>6 DEF decode_ae, d, f
  <2>7. ASSUME NEW a \in Word, NEW b \in Word, NEW e \in Word, f = <<a, b, e>>,
               SizeOf(b) <= RAFT_MAX_KEY - 1, SizeOf(e) <= RAFT_MAX_VALUE - 1
        PROVE  d \in Kept
    <3>1. d = [op |-> Op(f[1]), key |-> Read(f[2]), value |-> Read(f[3])]
      <4>1. Len(f) = 3
        BY <2>7
      <4> QED BY <4>1 DEF decode_ae, d, f
    <3>2. f[2] = b /\ f[3] = e
      BY <2>7
    <3>3. d = [op |-> c.op, key |-> Read(b), value |-> Read(e)]
      BY <1>2, <2>4, <3>1, <3>2
    <3> QED BY <1>3, <2>2, <2>7, <3>3
  <2>8. (\E a \in Word : f = <<a>>) \/ (\E a, b \in Word : f = <<a, b>>) => Len(f) # 3
    OBVIOUS
  <2> QED BY <2>5, <2>6, <2>7, <2>8 DEF d
<1> QED BY <1>4, <1>5, <1>6

\* A command without a "-" survives either line.
LEMMA PlainSurvives ==
  ASSUME NEW c \in Sendable, ~Dashed(c)
  PROVE  decode_cl(words_of(c)) = c /\ decode_ae(words_of(c)) = c
<1>1. /\ c \in Command /\ c \in Kept /\ Valid(c)
      /\ c.key \in Word \cup {Empty} /\ c.value \in Word \cup {Empty}
  BY DEF Sendable, Kept
<1>2. c.key # Empty
  BY <1>1, SizesOfWords DEF Valid, is_valid_token
<1>3. Read(c.key) = c.key /\ Read(Written(c.value)) = c.value
  BY <1>1, <1>2, ReadsBack DEF Dashed
<1>4. c = [op |-> c.op, key |-> c.key, value |-> c.value]
  BY <1>1 DEF Command
<1> QED BY <1>1, <1>2, <1>3, <1>4, Forwarded, Copied

(***************************************************************************)
(* Every reachable state.                                                  *)
(***************************************************************************)

LEMMA LinesAreWords ==
  /\ \A l \in Typed \cup {<<>>} : l \in Seq(Word)
  /\ parse_kv_command(<<>>) = Nothing
<1>1. \A l \in Typed : l \in Seq(Word)
  BY WordsAssumption
<1>2. sscanf(<<>>) = <<>>
  BY DEF sscanf, NextField
<1>3. parse_kv_command(<<>>) = Nothing
  BY <1>2 DEF parse_kv_command
<1>4. <<>> \in Seq(Word)
  OBVIOUS
<1> QED BY <1>1, <1>3, <1>4

\* What a node has is what raft_submit_command or a log may hold, and is what was
\* accepted if that had no "-".
WireInv ==
  /\ line \in Typed \cup {<<>>}
  /\ accepted = parse_kv_command(line)
  /\ cmd \in Command \cup {Nothing}
  /\ stage \in {"console", "bad", "get", "submit", "refused", "log", "lost"}
  /\ hops \in 0 .. MaxHops /\ copies \in 0 .. MaxCopies
  /\ stage = "console" => accepted = Nothing
  /\ stage = "submit" => cmd \in Sendable
  /\ stage = "log" => cmd \in Kept
  /\ SurvivesTheWire

LEMMA Accepted ==
  ASSUME NEW l \in Typed \cup {<<>>}
  PROVE  LET c == parse_kv_command(l) IN
         /\ c \in Command \cup {Nothing}
         /\ c.op \in {"set", "del"} => c \in Sendable
<1>1. l \in Seq(Word)
  BY LinesAreWords
<1> QED BY <1>1, ParseTypes

LEMMA WireInit == Init => WireInv
<1> SUFFICES ASSUME Init PROVE WireInv
  OBVIOUS
<1>1. accepted = parse_kv_command(line)
  BY LinesAreWords DEF Init
<1>2. SurvivesTheWire
  BY DEF Init, SurvivesTheWire, Nothing
<1>3. hops \in 0 .. MaxHops /\ copies \in 0 .. MaxCopies
  BY CommandsAssumption DEF Init
<1> QED BY <1>1, <1>2, <1>3 DEF Init, WireInv

LEMMA WireNext == WireInv /\ [Next]_vars => WireInv'
<1> SUFFICES ASSUME WireInv, [Next]_vars PROVE WireInv'
  OBVIOUS
<1> USE DEF WireInv
<1>a. \A c \in Kept : c \in Command /\ c # Nothing /\ c.op \in {"set", "del"}
  BY DEF Kept, Command, Nothing
<1>b. \A c \in Sendable : c \in Kept /\ Valid(c)
  BY DEF Sendable
<1>c. \A c : c \in Kept /\ Valid(c) => c \in Sendable
  BY DEF Sendable
<1>d. accepted.op \in {"set", "del"} => accepted \in Sendable
  BY Accepted
<1>1. CASE stdin_loop
  <2>1. line' \in Typed /\ accepted' = parse_kv_command(line') /\ cmd' = accepted'
    BY <1>1 DEF stdin_loop
  <2>2. /\ accepted' \in Command \cup {Nothing}
        /\ accepted'.op \in {"set", "del"} => accepted' \in Sendable
    BY <2>1, Accepted
  <2>3. accepted'.op \in {"none", "get", "set", "del"}
    BY <2>2 DEF Command, Nothing
  <2>4. stage' = (IF accepted'.op = "none" THEN "bad"
                  ELSE IF accepted'.op = "get" THEN "get" ELSE "submit")
    <3>1. accepted'.op \in {"set", "del"} => Valid(accepted')
      BY <1>b, <2>2
    <3> QED BY <1>1, <2>3, <3>1 DEF stdin_loop
  <2>5. stage' = "submit" => cmd' \in Sendable
    BY <2>1, <2>2, <2>3, <2>4
  <2>6. SurvivesTheWire'
    BY <2>1, <2>4 DEF SurvivesTheWire
  <2>7. hops' = hops /\ copies' = copies
    BY <1>1 DEF stdin_loop
  <2> QED BY <2>1, <2>2, <2>4, <2>5, <2>6, <2>7
<1>2. CASE handle_client_forward
  <2> DEFINE d == decode_cl(words_of(cmd))
  <2>1. /\ stage = "submit" /\ hops < MaxHops /\ hops' = hops + 1 /\ cmd' = d
        /\ stage' = (IF Valid(d) THEN "submit" ELSE "refused")
        /\ line' = line /\ accepted' = accepted /\ copies' = copies
    BY <1>2 DEF handle_client_forward
  <2>2. cmd \in Sendable /\ d \in Kept
    BY <2>1, ForwardedIsKept
  <2>3. accepted.op \in {"set", "del"} /\ ~Dashed(accepted) =>
           cmd = accepted /\ cmd \in Sendable /\ ~Dashed(cmd)
    BY <1>d DEF SurvivesTheWire
  <2>4. cmd \in Sendable /\ ~Dashed(cmd) => d = cmd
    BY PlainSurvives
  <2> HIDE DEF d
  <2>5. SurvivesTheWire'
    BY <1>b, <2>1, <2>2, <2>3, <2>4 DEF SurvivesTheWire
  <2>6. stage' = "submit" => cmd' \in Sendable
    BY <1>c, <2>1, <2>2
  <2>7. hops' \in 0 .. MaxHops
    BY <2>1, CommandsAssumption
  <2> QED BY <1>a, <2>1, <2>2, <2>5, <2>6, <2>7
<1>3. CASE append_entry_locked
  <2>1. stage = "submit" /\ stage' = "log" /\ UNCHANGED <<line, accepted, cmd, hops, copies>>
    BY <1>3 DEF append_entry_locked
  <2>2. SurvivesTheWire'
    BY <2>1 DEF SurvivesTheWire
  <2> QED BY <1>b, <2>1, <2>2
<1>4. CASE handle_append_entries
  <2> DEFINE d == decode_ae(words_of(cmd))
  <2>1. /\ stage = "log" /\ copies < MaxCopies /\ copies' = copies + 1 /\ cmd' = d
        /\ stage' = (IF d = Nothing THEN "lost" ELSE "log")
        /\ line' = line /\ accepted' = accepted /\ hops' = hops
    BY <1>4 DEF handle_append_entries
  <2>2. cmd \in Kept /\ d \in Kept \cup {Nothing}
    BY <2>1, CopiedIsKept
  <2>3. accepted.op \in {"set", "del"} /\ ~Dashed(accepted) =>
           cmd = accepted /\ cmd \in Sendable /\ ~Dashed(cmd)
    BY <1>d DEF SurvivesTheWire
  <2>4. cmd \in Sendable /\ ~Dashed(cmd) => d = cmd
    BY PlainSurvives
  <2> HIDE DEF d
  <2>5. SurvivesTheWire'
    BY <1>a, <2>1, <2>2, <2>3, <2>4 DEF SurvivesTheWire
  <2>6. stage' = "log" => cmd' \in Kept
    BY <2>1, <2>2
  <2>7. copies' \in 0 .. MaxCopies
    BY <2>1, CommandsAssumption
  <2> QED BY <1>a, <2>1, <2>2, <2>5, <2>6, <2>7
<1>5. CASE UNCHANGED vars
  BY <1>5 DEF vars, SurvivesTheWire
<1> QED BY <1>1, <1>2, <1>3, <1>4, <1>5 DEF Next

LEMMA Wire == Spec => []WireInv
  BY WireInit, WireNext, PTL DEF Spec

\* What the console accepts and what the nodes hold are commands (RaftCommand,
\* src/include/raft_kv.hpp), and the bounds are kept.
THEOREM CommandsTyped == Spec => []TypeOK
<1>1. WireInv => TypeOK
  <2> SUFFICES ASSUME WireInv PROVE TypeOK
    OBVIOUS
  <2>1. accepted \in Command \cup {Nothing}
    BY Accepted DEF WireInv
  <2> QED BY <2>1 DEF WireInv, TypeOK
<1> QED BY <1>1, Wire, PTL

\* A command without a "-" reaches every log as the console accepted it, through
\* any number of CL and AE lines (decode of src/src/network.cpp:82-103), whatever
\* the sizes of its words.
THEOREM PlainCommandsSurvive == Spec => []SurvivesTheWire
<1>1. WireInv => SurvivesTheWire
  BY DEF WireInv
<1> QED BY <1>1, Wire, PTL

\* parse_kv_command (src/src/kv_store.cpp:69-114) takes lines whose words all fit
\* as they stand, up to the longest key and value, and none with too few words.
THEOREM FittingLinesParse == Spec => []FittingLinesAreRead
<1>1. WireInv => FittingLinesAreRead
  <2> SUFFICES ASSUME WireInv, Fits(line), line # <<>> PROVE
        LET op == Op(line[1]) IN
        /\ op # "none" /\ Len(line) = Arity[op] =>
              accepted = [op |-> op, key |-> line[2],
                          value |-> IF op = "set" THEN line[3] ELSE Empty]
        /\ op = "none" \/ Len(line) < Arity[op] => accepted = Nothing
    BY LinesAreWords DEF WireInv, FittingLinesAreRead
  <2> DEFINE f == sscanf(line)
             op == Op(line[1])
  <2>1. line \in Seq(Word) /\ accepted = parse_kv_command(line)
    BY LinesAreWords DEF WireInv
  <2>2. /\ Len(line) >= 1 => SizeOf(line[1]) <= OpWidth
        /\ Len(line) >= 2 => SizeOf(line[2]) <= RAFT_MAX_KEY - 1
        /\ Len(line) >= 3 => SizeOf(line[3]) <= RAFT_MAX_VALUE - 1
    <3>1. \A i \in 1 .. Len(line) : line[i] \in Word /\ SizeOf(line[i]) \in Nat \ {0}
      BY <2>1, SizesOfWords
    <3>2. \A i \in 1 .. Len(line) : i \in 1 .. 3 => SizeOf(line[i]) < MaxSizes[i]
      BY <2>1 DEF Fits, MaxSizes
    <3>3. MaxSizes[1] = OpWidth + 1 /\ MaxSizes[2] = RAFT_MAX_KEY /\ MaxSizes[3] = RAFT_MAX_VALUE
      BY DEF MaxSizes
    <3> QED BY <2>1, <3>1, <3>2, <3>3, WidthsOfFields, CommandsAssumption
  <2>3. Len(line) >= 1 /\ f # <<>> /\ f[1] = line[1]
    <3>1. Len(line) >= 1
      BY <2>1
    <3> QED BY <2>1, <2>2, <3>1, FirstFits
  <2>4. Len(line) \in 1 .. 3 => f = line
    <3>1. /\ Len(line) = 1 => line = <<line[1]>> /\ line[1] \in Word
          /\ Len(line) = 2 => line = <<line[1], line[2]>> /\ line[1] \in Word /\ line[2] \in Word
          /\ Len(line) = 3 => /\ line = <<line[1], line[2], line[3]>>
                              /\ line[1] \in Word /\ line[2] \in Word /\ line[3] \in Word
      BY <2>1
    <3>2. CASE Len(line) = 1
      BY <2>2, <3>1, <3>2, OneFits
    <3>3. CASE Len(line) = 2
      BY <2>2, <3>1, <3>3, TwoFit
    <3>4. CASE Len(line) = 3
      BY <2>2, <3>1, <3>4, ThreeFit
    <3> QED BY <2>1, <3>2, <3>3, <3>4
  <2>5. op \in {"set", "del", "get", "none"}
    BY DEF Op, Token
  <2>6. Arity["set"] = 3 /\ Arity["del"] = 2 /\ Arity["get"] = 2
    BY DEF Arity
  <2>7. accepted = (IF f # <<>> /\ Op(f[1]) # "none" /\ Len(f) = Arity[Op(f[1])]
                       /\ is_valid_token(f[2], RAFT_MAX_KEY)
                       /\ (Len(f) = 3 => is_valid_token(f[3], RAFT_MAX_VALUE))
                    THEN [op |-> Op(f[1]), key |-> f[2], value |-> IF Len(f) = 3 THEN f[3] ELSE Empty]
                    ELSE Nothing)
    BY <2>1 DEF parse_kv_command
  <2> HIDE DEF f, op
  <2>8. Op(f[1]) = op
    BY <2>3 DEF op
  <2>9. ASSUME op # "none", Len(line) = Arity[op]
        PROVE  accepted = [op |-> op, key |-> line[2],
                           value |-> IF op = "set" THEN line[3] ELSE Empty]
    <3>1. Len(line) = (IF op = "set" THEN 3 ELSE 2)
      BY <2>5, <2>6, <2>9
    <3>2. f = line
      BY <2>4, <3>1
    <3>3. line[2] \in Word /\ (Len(line) = 3 => line[3] \in Word)
      BY <2>1, <3>1
    <3>4. is_valid_token(line[2], RAFT_MAX_KEY)
      BY <2>2, <3>1, <3>3, SizesOfWords, WidthsOfFields DEF is_valid_token
    <3>5. Len(line) = 3 => is_valid_token(line[3], RAFT_MAX_VALUE)
      BY <2>2, <3>3, SizesOfWords, WidthsOfFields DEF is_valid_token
    <3> QED BY <2>3, <2>7, <2>8, <2>9, <3>1, <3>2, <3>4, <3>5
  <2>10. ASSUME op = "none" PROVE accepted = Nothing
    BY <2>7, <2>8, <2>10
  <2>11. ASSUME op # "none", Len(line) < Arity[op] PROVE accepted = Nothing
    <3>1. Len(line) \in 1 .. 3 /\ Len(line) # Arity[op]
      <4>1. Arity[op] \in {2, 3}
        BY <2>5, <2>6, <2>11
      <4>2. Len(line) \in Nat
        BY <2>1
      <4>3. Len(line) >= 1
        BY <2>3
      <4>4. \A n \in Nat, m \in {2, 3} : n >= 1 /\ n < m => n \in 1 .. 3 /\ n # m
        OBVIOUS
      <4> QED BY <2>11, <4>1, <4>2, <4>3, <4>4
    <3>2. f = line
      BY <2>4, <3>1
    <3> QED BY <2>7, <2>8, <3>1, <3>2
  <2> QED BY <2>9, <2>10, <2>11 DEF op
<1> QED BY <1>1, Wire, PTL

=============================================================================
