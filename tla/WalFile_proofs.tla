-------------------------- MODULE WalFile_proofs --------------------------
(***************************************************************************)
(* The log files replay to what was written to them, for every record that *)
(* the program can store, every order in which a HashMap of properties is  *)
(* written, and any number of records, faults, crashes and compactions.    *)
(*                                                                         *)
(* The lemmas go from the bytes to the file: what a reader makes of what a *)
(* writer has written (Reads), one turn of the replay (States), a file as  *)
(* records laid one behind the other (Laid), and the inductive invariant   *)
(* IInv of the storage, which says how far the file is laid after every    *)
(* operation and every fault.                                              *)
(***************************************************************************)
EXTENDS WalFile, FiniteSetTheorems, SequenceTheorems, TLAPS

-----------------------------------------------------------------------------
(* Reading what was written.                                               *)

\* The letters and the numbers that the records of a log are made of.
Alphabet(chars, numbers) == chars \subseteq Ascii /\ Nat \subseteq numbers /\ numbers \subseteq Int

Cells == Seq(Int)

\* From pos on the data is the piece, as far as it reaches.
Agree(data, pos, piece) ==
    \A i \in 1 .. Len(piece) : pos + i - 1 =< Len(data) => data[pos + i - 1] = piece[i]

\* From pos on there is nothing but characters.
OnlyText(data, pos, chars) == \A i \in pos .. Len(data) : data[i] \in chars

\* A reader has read val up to before end or, if the data ends earlier, failed
\* at its end or where a text is cut.
Reads(r, data, chars, val, end) ==
    IF end - 1 =< Len(data) THEN r = Got(val, end)
    ELSE ~r.ok /\ r.pos \in Nat \ {0} /\ OnlyText(data, r.pos, chars)

LEMMA AsciiIsInt == Ascii \subseteq Nat /\ Silent \subseteq Ascii
BY DEF Ascii, Silent, NonAscii, Ops

LEMMA AgreeSplits ==
    ASSUME NEW data \in Cells, NEW pos \in Nat \ {0}, NEW s \in Cells, NEW t \in Cells,
           Agree(data, pos, s \o t)
    PROVE  Agree(data, pos, s) /\ Agree(data, pos + Len(s), t)
<1>1. Agree(data, pos, s)
  <2>1. \A i \in 1 .. Len(s) : i \in 1 .. Len(s \o t) /\ (s \o t)[i] = s[i]
    BY DEF Cells
  <2> QED BY <2>1 DEF Agree
<1>2. ASSUME NEW i \in 1 .. Len(t), (pos + Len(s)) + i - 1 =< Len(data)
      PROVE  data[(pos + Len(s)) + i - 1] = t[i]
  <2> DEFINE j == Len(s) + i
  <2>1. j \in 1 .. Len(s \o t) /\ (s \o t)[j] = t[i]
    BY DEF Cells
  <2>2. pos + j - 1 = (pos + Len(s)) + i - 1
    BY DEF Cells
  <2> QED BY <1>2, <2>1, <2>2 DEF Agree
<1> QED
  BY <1>1, <1>2 DEF Agree

\* What is between two places of the data.
LEMMA CutOut ==
    ASSUME NEW data \in Cells, NEW m \in Nat \ {0}, NEW n \in Nat, n =< Len(data), m =< n + 1
    PROVE  /\ SubSeq(data, m, n) \in Cells
           /\ Len(SubSeq(data, m, n)) = n - m + 1
           /\ \A i \in 1 .. n - m + 1 : SubSeq(data, m, n)[i] = data[m + i - 1]
<1>1. \A i \in m .. n : data[i] \in Int
  BY DEF Cells
<1> QED
  BY <1>1, SubSeqProperties DEF Cells

\* A piece that the data holds whole is what is between its ends.
LEMMA HeldWhole ==
    ASSUME NEW data \in Cells, NEW pos \in Nat \ {0}, NEW piece \in Cells,
           Agree(data, pos, piece), pos + Len(piece) - 1 =< Len(data)
    PROVE  SubSeq(data, pos, pos + Len(piece) - 1) = piece
<1> DEFINE n == pos + Len(piece) - 1
<1>1. n \in Nat /\ n =< Len(data) /\ pos =< n + 1 /\ n - pos + 1 = Len(piece)
  BY LenProperties DEF Cells
<1>2. /\ SubSeq(data, pos, n) \in Cells
      /\ Len(SubSeq(data, pos, n)) = Len(piece)
      /\ \A i \in 1 .. Len(piece) : SubSeq(data, pos, n)[i] = data[pos + i - 1]
  <2> HIDE DEF n
  <2>1. /\ SubSeq(data, pos, n) \in Cells
        /\ Len(SubSeq(data, pos, n)) = n - pos + 1
        /\ \A i \in 1 .. n - pos + 1 : SubSeq(data, pos, n)[i] = data[pos + i - 1]
    BY <1>1, CutOut
  <2> QED BY <1>1, <2>1
<1>3. \A i \in 1 .. Len(piece) : data[pos + i - 1] = piece[i]
  BY <1>1 DEF Agree, Cells
<1> QED
  BY <1>2, <1>3, SeqEqual DEF Cells

\* A reader that goes on where another one stopped.
LEMMA ReadsOn ==
    ASSUME NEW data \in Cells, NEW chars, NEW r1, NEW r, NEW val1, NEW val,
           NEW mid \in Nat, NEW end \in Nat, mid =< end,
           ~r1.ok => r = r1,
           Reads(r1, data, chars, val1, mid),
           mid - 1 =< Len(data) => Reads(r, data, chars, val, end)
    PROVE  Reads(r, data, chars, val, end)
<1>0. Len(data) \in Nat
  BY DEF Cells
<1>1. CASE mid - 1 =< Len(data)
  BY <1>1
<1>2. CASE ~(mid - 1 =< Len(data))
  <2>1. ~r1.ok /\ r1.pos \in Nat \ {0} /\ OnlyText(data, r1.pos, chars) /\ r = r1
    BY <1>2 DEF Reads
  <2>2. ~(end - 1 =< Len(data))
    BY <1>0, <1>2
  <2> QED BY <2>1, <2>2 DEF Reads
<1> QED
  BY <1>1, <1>2

LEMMA ReadsCell ==
    ASSUME NEW data \in Cells, NEW chars, NEW pos \in Nat \ {0}, NEW x \in Int,
           Agree(data, pos, <<x>>)
    PROVE  Reads(read_cell(data, pos), data, chars, x, pos + 1)
<1>0. Len(data) \in Nat /\ (pos + 1) - 1 = pos
  BY DEF Cells
<1>1. CASE pos =< Len(data)
  <2>1. data[pos] = x
    BY <1>1 DEF Agree
  <2>2. read_cell(data, pos) = Got(x, pos + 1)
    BY <1>0, <1>1, <2>1 DEF read_cell
  <2> QED BY <1>0, <1>1, <2>2 DEF Reads
<1>2. CASE pos > Len(data)
  <2>1. read_cell(data, pos) = Err(pos)
    BY <1>2 DEF read_cell
  <2>2. OnlyText(data, pos, chars)
    BY <1>0, <1>2 DEF OnlyText
  <2> QED BY <1>0, <1>2, <2>1, <2>2 DEF Reads, Err
<1> QED
  BY <1>0, <1>1, <1>2

LEMMA ReadsText ==
    ASSUME NEW chars, chars \subseteq Ascii, NEW s \in Seq(chars),
           NEW data \in Cells, NEW pos \in Nat \ {0}, Agree(data, pos, write_str(s))
    PROVE  Reads(read_str(data, pos), data, chars, s, pos + 1 + Len(s))
<1>1. s \in Cells /\ Len(s) \in Nat /\ \A i \in 1 .. Len(s) : s[i] \in chars
  <2>1. chars \subseteq Int
    BY AsciiIsInt
  <2> QED BY <2>1, SeqMonotonic, LenProperties, ElementOfSeq DEF Cells
<1>2. Agree(data, pos, <<Len(s)>>) /\ Agree(data, pos + 1, s)
  <2>1. <<Len(s)>> \in Cells /\ Len(<<Len(s)>>) = 1
    BY <1>1 DEF Cells
  <2> QED BY <1>1, <2>1, AgreeSplits DEF write_str
<1>3. Len(data) \in Nat
  BY DEF Cells
<1> DEFINE len == read_cell(data, pos)
           b == read_bytes(data, len.pos, len.val)
           whole == IF \A i \in DOMAIN b.val : b.val[i] \in Ascii
                    THEN Got(b.val, b.pos) ELSE Err(b.pos)
           bytes == IF b.ok THEN whole ELSE b
<1>4. /\ len.ok => read_str(data, pos) = bytes
      /\ ~len.ok => read_str(data, pos) = len
  BY DEF read_str, AndThen
<1>5. Reads(len, data, chars, Len(s), pos + 1)
  BY <1>1, <1>2, ReadsCell
<1>6. ASSUME (pos + 1) - 1 =< Len(data)
      PROVE  Reads(bytes, data, chars, s, pos + 1 + Len(s))
  <2>1. len.pos = pos + 1 /\ len.val = Len(s)
    BY <1>5, <1>6 DEF Reads, Got
  <2>2. CASE pos + Len(s) > Len(data)
    <3>1. b = Err(pos + 1)
      BY <1>1, <1>3, <2>1, <2>2 DEF read_bytes
    <3>2. OnlyText(data, pos + 1, chars)
      <4> SUFFICES ASSUME NEW i \in (pos + 1) .. Len(data) PROVE data[i] \in chars
        BY DEF OnlyText
      <4>1. i - pos \in 1 .. Len(s) /\ (pos + 1) + (i - pos) - 1 = i
        BY <1>1, <1>3, <2>2
      <4>2. data[i] = s[i - pos]
        BY <1>2, <1>3, <4>1 DEF Agree
      <4> QED BY <1>1, <4>1, <4>2
    <3>3. bytes = b
      BY <3>1 DEF Err
    <3>4. ~((pos + 1 + Len(s)) - 1 =< Len(data))
      BY <1>1, <1>3, <2>2
    <3> QED BY <3>1, <3>2, <3>3, <3>4 DEF Reads, Err
  <2>3. CASE pos + Len(s) =< Len(data)
    <3>1. (pos + 1) + Len(s) - 1 = pos + Len(s)
      BY <1>1
    <3>2. SubSeq(data, pos + 1, pos + Len(s)) = s
      <4>1. (pos + 1) + Len(s) - 1 =< Len(data)
        BY <2>3, <3>1
      <4>2. SubSeq(data, pos + 1, (pos + 1) + Len(s) - 1) = s
        BY <1>1, <1>2, <4>1, HeldWhole
      <4> QED BY <3>1, <4>2
    <3>3. b = Got(s, pos + 1 + Len(s))
      <4>1. ~(Len(s) < 0 \/ (pos + 1) + Len(s) - 1 > Len(data))
        BY <1>1, <1>3, <2>3
      <4> QED BY <2>1, <3>1, <3>2, <4>1 DEF read_bytes
    <3>4. \A i \in DOMAIN s : s[i] \in Ascii
      BY <1>1 DEF Cells
    <3>5. bytes = Got(s, pos + 1 + Len(s))
      <4>1. b.ok /\ b.val = s /\ b.pos = pos + 1 + Len(s)
        BY <3>3 DEF Got
      <4>2. bytes = whole
        BY <4>1
      <4> QED BY <3>4, <4>1, <4>2
    <3>6. (pos + 1 + Len(s)) - 1 =< Len(data)
      BY <1>1, <2>3
    <3> QED BY <3>5, <3>6 DEF Reads
  <2> QED BY <1>1, <1>3, <2>2, <2>3
<1> HIDE DEF bytes
<1>7. (pos + 1) - 1 =< Len(data) =>
          Reads(read_str(data, pos), data, chars, s, pos + 1 + Len(s))
  BY <1>4, <1>5, <1>6 DEF Reads, Got
<1> HIDE DEF len
<1> QED
  BY <1>1, <1>4, <1>5, <1>7, ReadsOn

LEMMA TextWritten ==
    ASSUME NEW chars, NEW numbers, Alphabet(chars, numbers), NEW s \in Seq(chars)
    PROVE  /\ s \in Seq(numbers)
           /\ write_str(s) \in Seq(numbers) /\ Len(write_str(s)) = 1 + Len(s)
<1>1. chars \subseteq numbers
  BY AsciiIsInt DEF Alphabet
<1>2. s \in Seq(numbers) /\ Len(s) \in numbers
  BY <1>1, SeqMonotonic, LenProperties DEF Alphabet
<1>3. <<Len(s)>> \in Seq(numbers) /\ Len(<<Len(s)>>) = 1
  BY <1>2
<1> QED
  BY <1>2, <1>3, ConcatProperties DEF write_str

\* The four shapes of a value.
LEMMA ValueShapes ==
    ASSUME NEW chars, NEW numbers, NEW v \in Values(chars, numbers)
    PROVE  \/ v = [tag |-> VNull, data |-> <<>>]
           \/ v = [tag |-> VBoolean, data |-> <<0>>]
           \/ v = [tag |-> VBoolean, data |-> <<1>>]
           \/ \E x \in numbers : \/ v = [tag |-> VInteger, data |-> <<x>>]
                                \/ v = [tag |-> VFloat, data |-> <<x>>]
           \/ \E s \in Seq(chars) : v = [tag |-> VText, data |-> s]
<1>1. CASE v \in [tag : {VNull}, data : {<<>>}]
  BY <1>1
<1>2. CASE v \in [tag : {VBoolean}, data : {<<0>>, <<1>>}]
  BY <1>2
<1>3. CASE v \in [tag : {VInteger, VFloat}, data : [1 .. 1 -> numbers]]
  <2>1. v.data \in [1 .. 1 -> numbers] /\ v = [tag |-> v.tag, data |-> v.data]
    BY <1>3
  <2>2. v.data[1] \in numbers /\ v.data = <<v.data[1]>>
    BY <2>1
  <2>3. v.tag = VInteger \/ v.tag = VFloat
    BY <1>3
  <2> DEFINE x == v.data[1]
  <2>4. v = [tag |-> VInteger, data |-> <<x>>] \/ v = [tag |-> VFloat, data |-> <<x>>]
    BY <2>1, <2>2, <2>3
  <2> QED BY <2>2, <2>4
<1>4. CASE v \in [tag : {VText}, data : Seq(chars)]
  <2>1. v.data \in Seq(chars) /\ v = [tag |-> VText, data |-> v.data]
    BY <1>4
  <2> QED BY <2>1
<1> QED
  BY <1>1, <1>2, <1>3, <1>4 DEF Values

LEMMA ValueWritten ==
    ASSUME NEW chars, NEW numbers, Alphabet(chars, numbers), NEW v \in Values(chars, numbers)
    PROVE  /\ write_value(v) \in Seq(numbers) /\ Len(write_value(v)) \in Nat \ {0}
           /\ v.tag \in numbers
           /\ (IF v.tag = VText THEN write_str(v.data) ELSE v.data) \in Seq(numbers)
<1>1. {VNull, VBoolean, VInteger, VFloat, VText, 0, 1} \subseteq numbers
  BY DEF Alphabet, VNull, VBoolean, VInteger, VFloat, VText
<1> DEFINE rest == IF v.tag = VText THEN write_str(v.data) ELSE v.data
<1>2. v.tag \in numbers /\ rest \in Seq(numbers)
  <2>1. CASE v = [tag |-> VNull, data |-> <<>>]
    BY <1>1, <2>1 DEF VNull, VText
  <2>2. CASE v = [tag |-> VBoolean, data |-> <<0>>]
    BY <1>1, <2>2 DEF VBoolean, VText
  <2>3. CASE v = [tag |-> VBoolean, data |-> <<1>>]
    BY <1>1, <2>3 DEF VBoolean, VText
  <2>4. ASSUME NEW x \in numbers,
               v = [tag |-> VInteger, data |-> <<x>>] \/ v = [tag |-> VFloat, data |-> <<x>>]
        PROVE  v.tag \in numbers /\ rest \in Seq(numbers)
    <3>1. v.tag \in numbers /\ v.tag # VText /\ v.data = <<x>>
      BY <1>1, <2>4 DEF VInteger, VFloat, VText
    <3> QED BY <3>1
  <2>5. ASSUME NEW s \in Seq(chars), v = [tag |-> VText, data |-> s]
        PROVE  v.tag \in numbers /\ rest \in Seq(numbers)
    BY <1>1, <2>5, TextWritten
  <2> HIDE DEF rest
  <2> QED BY <2>1, <2>2, <2>3, <2>4, <2>5, ValueShapes
<1>3. <<v.tag>> \in Seq(numbers) /\ Len(<<v.tag>>) = 1
  BY <1>2
<1>4. write_value(v) = <<v.tag>> \o rest
  BY DEF write_value
<1> HIDE DEF rest
<1>5. Len(rest) \in Nat
  BY <1>2
<1>6. /\ <<v.tag>> \o rest \in Seq(numbers)
      /\ Len(<<v.tag>> \o rest) \in Nat \ {0}
  BY <1>2, <1>3, <1>5, ConcatProperties
<1> QED
  BY <1>2, <1>4, <1>6 DEF rest

\* What the decoder makes of a value, by its tag.
LEMMA NullRead ==
    ASSUME NEW data, NEW pos, NEW p, read_cell(data, pos) = Got(VNull, p)
    PROVE  read_value(data, pos) = Got([tag |-> VNull, data |-> <<>>], p)
BY DEF read_value, AndThen, VNull, VBoolean, VInteger, VFloat, VText, Got

LEMMA BooleanRead ==
    ASSUME NEW data, NEW pos, NEW p, read_cell(data, pos) = Got(VBoolean, p)
    PROVE  read_value(data, pos) =
               IF read_cell(data, p).ok
               THEN Got([tag |-> VBoolean,
                         data |-> <<IF read_cell(data, p).val = 0 THEN 0 ELSE 1>>],
                        read_cell(data, p).pos)
               ELSE read_cell(data, p)
BY DEF read_value, AndThen, VNull, VBoolean, VInteger, VFloat, VText, Got

LEMMA NumberRead ==
    ASSUME NEW data, NEW pos, NEW p, NEW t \in {VInteger, VFloat}, read_cell(data, pos) = Got(t, p)
    PROVE  read_value(data, pos) =
               IF read_cell(data, p).ok
               THEN Got([tag |-> t, data |-> <<read_cell(data, p).val>>], read_cell(data, p).pos)
               ELSE read_cell(data, p)
BY DEF read_value, AndThen, VNull, VBoolean, VInteger, VFloat, VText, Got

LEMMA TextRead ==
    ASSUME NEW data, NEW pos, NEW p, read_cell(data, pos) = Got(VText, p)
    PROVE  read_value(data, pos) =
               IF read_str(data, p).ok
               THEN Got([tag |-> VText, data |-> read_str(data, p).val], read_str(data, p).pos)
               ELSE read_str(data, p)
BY DEF read_value, AndThen, VNull, VBoolean, VInteger, VFloat, VText, Got

LEMMA NothingRead ==
    ASSUME NEW data, NEW pos, NEW p, NEW t, t \notin {VNull, VBoolean, VInteger, VFloat, VText},
           read_cell(data, pos) = Got(t, p)
    PROVE  read_value(data, pos) = Err(p)
BY DEF read_value, AndThen, VNull, VBoolean, VInteger, VFloat, VText, Got

LEMMA ReadsValue ==
    ASSUME NEW chars, NEW numbers, Alphabet(chars, numbers), NEW v \in Values(chars, numbers),
           NEW data \in Cells, NEW pos \in Nat \ {0}, Agree(data, pos, write_value(v))
    PROVE  Reads(read_value(data, pos), data, chars, v, pos + Len(write_value(v)))
<1> DEFINE tag == read_cell(data, pos)
           next == read_cell(data, pos + 1)
           text == read_str(data, pos + 1)
           rest == IF v.tag = VText THEN write_str(v.data) ELSE v.data
           r == read_value(data, pos)
           end == pos + 1 + Len(rest)
<1>0. Len(data) \in Nat /\ chars \subseteq Ascii /\ numbers \subseteq Int
  BY DEF Cells, Alphabet
<1>1. rest \in Cells /\ v.tag \in Int /\ write_value(v) = <<v.tag>> \o rest
  <2>1. rest \in Seq(numbers) /\ v.tag \in numbers
    BY ValueWritten
  <2> QED BY <1>0, <2>1, SeqMonotonic DEF Cells, write_value
<1>2. /\ Agree(data, pos, <<v.tag>>) /\ Agree(data, pos + 1, rest)
      /\ pos + Len(write_value(v)) = end /\ end \in Nat /\ pos + 1 =< end
  <2>1. <<v.tag>> \in Cells /\ Len(<<v.tag>>) = 1
    BY <1>1 DEF Cells
  <2> HIDE DEF rest
  <2>0. Agree(data, pos, <<v.tag>> \o rest)
    BY <1>1
  <2>2. Agree(data, pos, <<v.tag>>) /\ Agree(data, pos + 1, rest)
    BY <1>1, <2>0, <2>1, AgreeSplits
  <2>3. Len(rest) \in Nat /\ Len(write_value(v)) = 1 + Len(rest)
    BY <1>1, <2>1, ConcatProperties DEF Cells
  <2> QED BY <2>2, <2>3
<1>3. Reads(tag, data, chars, v.tag, pos + 1)
  BY <1>1, <1>2, ReadsCell
<1>4. ~tag.ok => r = tag
  BY DEF read_value, AndThen
<1>5. ASSUME (pos + 1) - 1 =< Len(data) PROVE Reads(r, data, chars, v, end)
  <2>1. tag = Got(v.tag, pos + 1)
    BY <1>3, <1>5 DEF Reads
  <2>2. CASE v = [tag |-> VNull, data |-> <<>>]
    <3>0. read_cell(data, pos) = Got(VNull, pos + 1)
      BY <2>1, <2>2
    <3>1. r = Got(v, pos + 1)
      BY <2>2, <3>0, NullRead
    <3>2. end = pos + 1
      BY <2>2 DEF VNull, VText
    <3> QED BY <1>5, <3>1, <3>2 DEF Reads
  <2>3. ASSUME NEW x \in Int, v.data = <<x>>, v.tag # VText,
               next.ok /\ next.val = x => r = Got(v, next.pos), ~next.ok => r = next
        PROVE  Reads(r, data, chars, v, end)
    <3>1. rest = <<x>> /\ end = (pos + 1) + 1
      BY <2>3
    <3>2. Reads(next, data, chars, x, (pos + 1) + 1)
      BY <1>2, <3>1, ReadsCell
    <3>3. ((pos + 1) + 1) - 1 =< Len(data) => Reads(r, data, chars, v, end)
      <4>1. ((pos + 1) + 1) - 1 =< Len(data) => next = Got(x, (pos + 1) + 1)
        BY <3>2 DEF Reads
      <4>2. ((pos + 1) + 1) - 1 =< Len(data) => r = Got(v, (pos + 1) + 1)
        BY <2>3, <4>1 DEF Got
      <4> QED BY <3>1, <4>2 DEF Reads
    <3> HIDE DEF r, next, end
    <3> QED BY <1>2, <2>3, <3>1, <3>2, <3>3, ReadsOn
  <2>4. ASSUME NEW x \in {0, 1}, v = [tag |-> VBoolean, data |-> <<x>>]
        PROVE  Reads(r, data, chars, v, end)
    <3>0. read_cell(data, pos) = Got(VBoolean, pos + 1)
      BY <2>1, <2>4
    <3>1. /\ next.ok => r = Got([tag |-> VBoolean, data |-> <<IF next.val = 0 THEN 0 ELSE 1>>],
                                next.pos)
          /\ ~next.ok => r = next
      BY <3>0, BooleanRead
    <3>2. v.tag # VText /\ v.data = <<x>>
      BY <2>4 DEF VBoolean, VText
    <3>3. next.ok /\ next.val = x => r = Got(v, next.pos)
      BY <2>4, <3>1
    <3> QED BY <2>3, <3>1, <3>2, <3>3
  <2>5. ASSUME NEW x \in numbers, NEW t \in {VInteger, VFloat}, v = [tag |-> t, data |-> <<x>>]
        PROVE  Reads(r, data, chars, v, end)
    <3>0. read_cell(data, pos) = Got(t, pos + 1)
      BY <2>1, <2>5
    <3>1. /\ next.ok => r = Got([tag |-> t, data |-> <<next.val>>], next.pos)
          /\ ~next.ok => r = next
      BY <3>0, NumberRead, ZenonT(60)
    <3>2. v.tag # VText /\ v.data = <<x>> /\ x \in Int
      BY <1>0, <2>5 DEF VInteger, VFloat, VText
    <3>3. next.ok /\ next.val = x => r = Got(v, next.pos)
      BY <2>5, <3>1
    <3> QED BY <2>3, <3>1, <3>2, <3>3
  <2>6. ASSUME NEW s \in Seq(chars), v = [tag |-> VText, data |-> s]
        PROVE  Reads(r, data, chars, v, end)
    <3>0. read_cell(data, pos) = Got(VText, pos + 1)
      BY <2>1, <2>6
    <3>1. /\ text.ok => r = Got([tag |-> VText, data |-> text.val], text.pos)
          /\ ~text.ok => r = text
      BY <3>0, TextRead
    <3>2. rest = write_str(s) /\ Len(rest) = 1 + Len(s)
      BY <2>6, TextWritten
    <3>3. Reads(text, data, chars, s, (pos + 1) + 1 + Len(s))
      BY <1>0, <1>2, <3>2, ReadsText
    <3>4. end = (pos + 1) + 1 + Len(s)
      BY <1>2, <3>2
    <3> HIDE DEF r, text, rest, end
    <3>5. end - 1 =< Len(data) => Reads(r, data, chars, v, end)
      <4>1. end - 1 =< Len(data) => text = Got(s, end)
        BY <3>3, <3>4 DEF Reads
      <4>2. end - 1 =< Len(data) => r = Got(v, end)
        BY <2>6, <3>1, <4>1 DEF Got
      <4> QED BY <4>2 DEF Reads
    <3> QED BY <1>2, <3>1, <3>3, <3>4, <3>5, ReadsOn
  <2> HIDE DEF r, end
  <2> QED BY <2>2, <2>4, <2>5, <2>6, ValueShapes
<1> HIDE DEF r, tag, end
<1>6. Reads(r, data, chars, v, end)
  BY <1>2, <1>3, <1>4, <1>5, ReadsOn
<1> QED
  BY <1>2, <1>6 DEF r

\* Induction, with a set for what is proved.
LEMMA UpTo ==
    ASSUME NEW n \in Nat, NEW S, 0 \in S, \A k \in 0 .. n - 1 : k \in S => k + 1 \in S
    PROVE  \A k \in 0 .. n : k \in S
<1> DEFINE without == {k \in 0 .. n : k \notin S}
<1>1. ASSUME without # {} PROVE FALSE
  <2>1. without \subseteq Nat
    OBVIOUS
  <2>2. PICK m \in without : \A k \in without : m =< k
    BY <1>1, <2>1, Fold!LeastNumber
  <2>3. m # 0 /\ m - 1 \in 0 .. n - 1 /\ m - 1 \notin without /\ (m - 1) + 1 = m
    BY <2>1, <2>2
  <2> QED BY <2>2, <2>3
<1> QED
  BY <1>1

-----------------------------------------------------------------------------
(* Properties, pair by pair.                                               *)

Pairs(chars, numbers) == Seq(chars) \X Values(chars, numbers)

\* The pairs of a HashMap in some order.
Listing(order, chars, numbers) ==
    /\ order \in Seq(Pairs(chars, numbers))
    /\ \A i, j \in 1 .. Len(order) : i # j => order[i][1] # order[j][1]

FirstPairs(order, k) == {order[i] : i \in 1 .. k}

LEMMA PairWritten ==
    ASSUME NEW chars, NEW numbers, Alphabet(chars, numbers),
           NEW key \in Seq(chars), NEW value \in Values(chars, numbers)
    PROVE  /\ write_pair(<<key, value>>) = write_str(key) \o write_value(value)
           /\ write_str(key) \in Seq(numbers) /\ write_value(value) \in Seq(numbers)
           /\ Len(write_str(key)) = 1 + Len(key)
           /\ Len(key) \in Nat /\ Len(write_value(value)) \in Nat \ {0}
           /\ write_pair(<<key, value>>) \in Seq(numbers)
           /\ Len(write_pair(<<key, value>>)) \in Nat \ {0}
           /\ Len(write_pair(<<key, value>>)) = 1 + Len(key) + Len(write_value(value))
<1>1. write_pair(<<key, value>>) = write_str(key) \o write_value(value)
  BY DEF write_pair
<1>2. /\ write_str(key) \in Seq(numbers) /\ Len(write_str(key)) = 1 + Len(key)
      /\ write_value(value) \in Seq(numbers) /\ Len(write_value(value)) \in Nat \ {0}
      /\ Len(key) \in Nat
  BY TextWritten, ValueWritten
<1>3. /\ write_str(key) \o write_value(value) \in Seq(numbers)
      /\ Len(write_str(key) \o write_value(value)) = 1 + Len(key) + Len(write_value(value))
  BY <1>2, ConcatProperties
<1>4. /\ write_pair(<<key, value>>) \in Seq(numbers)
      /\ Len(write_pair(<<key, value>>)) = 1 + Len(key) + Len(write_value(value))
  BY <1>1, <1>3
<1>5. Len(key) \in Nat /\ Len(write_value(value)) \in Nat \ {0}
  BY <1>2
<1>6. Len(write_pair(<<key, value>>)) \in Nat \ {0}
  BY <1>4, <1>5
<1> QED
  BY <1>1, <1>2, <1>4, <1>6

LEMMA ReadsPair ==
    ASSUME NEW chars, NEW numbers, Alphabet(chars, numbers),
           NEW key \in Seq(chars), NEW value \in Values(chars, numbers),
           NEW data \in Cells, NEW pos \in Nat \ {0},
           Agree(data, pos, write_pair(<<key, value>>)), NEW fields
    PROVE  Reads(read_pair(data, fields, pos), data, chars, PutField(fields, key, value),
                 pos + Len(write_pair(<<key, value>>)))
<1> DEFINE mid == pos + 1 + Len(key)
           end == pos + Len(write_pair(<<key, value>>))
           rk == read_str(data, pos)
           rv == read_value(data, mid)
           put == PutField(fields, key, value)
           r == read_pair(data, fields, pos)
<1>1. chars \subseteq Ascii /\ numbers \subseteq Int
  BY DEF Alphabet
<1>2. /\ Len(write_str(key)) = 1 + Len(key)
      /\ Len(key) \in Nat /\ Len(write_value(value)) \in Nat \ {0}
      /\ Len(write_pair(<<key, value>>)) = 1 + Len(key) + Len(write_value(value))
  BY PairWritten
<1>3. /\ mid \in Nat \ {0} /\ end \in Nat /\ mid =< end /\ end = mid + Len(write_value(value))
  BY <1>2
<1>4. Agree(data, pos, write_str(key)) /\ Agree(data, mid, write_value(value))
  <2>1. pos + Len(write_str(key)) = mid
    BY <1>2
  <2>2. write_str(key) \in Seq(numbers) /\ write_value(value) \in Seq(numbers)
    BY PairWritten
  <2>3. write_str(key) \in Cells /\ write_value(value) \in Cells
    BY <1>1, <2>2, SeqMonotonic DEF Cells
  <2>4. Agree(data, pos, write_str(key) \o write_value(value))
    BY DEF write_pair
  <2>5. /\ Agree(data, pos, write_str(key))
        /\ Agree(data, pos + Len(write_str(key)), write_value(value))
    BY <2>3, <2>4, AgreeSplits
  <2> QED BY <2>1, <2>5
<1>5. Reads(rk, data, chars, key, mid)
  BY <1>1, <1>4, ReadsText
<1>6. Reads(rv, data, chars, value, end)
  BY <1>1, <1>3, <1>4, ReadsValue
<1>7. ~rk.ok => r = rk
  BY DEF read_pair, AndThen
<1>8. ASSUME mid - 1 =< Len(data) PROVE Reads(r, data, chars, put, end)
  <2>1. rk = Got(key, mid)
    BY <1>5, <1>8 DEF Reads
  <2>2. r = IF rv.ok THEN Got(PutField(fields, key, rv.val), rv.pos) ELSE rv
    BY <2>1 DEF read_pair, AndThen, Got
  <2> HIDE DEF r, rv, mid, end
  <2>3. ASSUME end - 1 =< Len(data) PROVE Reads(r, data, chars, put, end)
    <3>1. rv = Got(value, end)
      BY <1>6, <2>3 DEF Reads
    <3>2. rv.ok /\ rv.val = value /\ rv.pos = end
      BY <3>1 DEF Got
    <3>3. r = Got(put, end)
      BY <2>2, <3>2
    <3> QED BY <2>3, <3>3 DEF Reads
  <2>4. ~rv.ok => r = rv
    BY <2>2
  <2> QED BY <1>3, <1>6, <2>3, <2>4, ReadsOn
<1> HIDE DEF r, rk, mid, end
<1>9. Reads(r, data, chars, put, end)
  BY <1>3, <1>5, <1>7, <1>8, ReadsOn
<1> QED
  BY <1>9 DEF r, end

\* A pair by its two halves.
LEMMA PairOf ==
    ASSUME NEW chars, NEW numbers, NEW kv \in Pairs(chars, numbers)
    PROVE  \E key \in Seq(chars), value \in Values(chars, numbers) : kv = <<key, value>>
BY DEF Pairs

LEMMA AnyPairWritten ==
    ASSUME NEW chars, NEW numbers, Alphabet(chars, numbers), NEW kv \in Pairs(chars, numbers)
    PROVE  write_pair(kv) \in Seq(numbers) /\ Len(write_pair(kv)) \in Nat \ {0}
<1>1. PICK key \in Seq(chars), value \in Values(chars, numbers) : kv = <<key, value>>
  BY PairOf
<1> QED
  BY <1>1, PairWritten

LEMMA PropertiesWritten ==
    ASSUME NEW chars, NEW numbers, Alphabet(chars, numbers),
           NEW order \in Seq(Pairs(chars, numbers))
    PROVE  LET W == PairsWritten!State(order)
           IN  /\ W[0] = <<Len(order)>>
               /\ \A k \in 1 .. Len(order) : W[k] = W[k - 1] \o write_pair(order[k])
               /\ \A k \in 0 .. Len(order) : W[k] \in Seq(numbers) /\ Len(W[k]) \in Nat /\ Len(W[k]) > k
<1> DEFINE W == PairsWritten!State(order)
           S == {k \in 0 .. Len(order) : W[k] \in Seq(numbers) /\ Len(W[k]) \in Nat /\ Len(W[k]) > k}
<1>1. Len(order) \in Nat /\ Nat \subseteq numbers
  BY DEF Alphabet
<1>2. W[0] = <<Len(order)>> /\ \A k \in Nat : W[k + 1] = W[k] \o write_pair(order[k + 1])
  BY PairsWritten!StateAt
<1> HIDE DEF W
<1>3. \A k \in 1 .. Len(order) : W[k] = W[k - 1] \o write_pair(order[k])
  <2> TAKE k \in 1 .. Len(order)
  <2>1. k - 1 \in Nat /\ (k - 1) + 1 = k
    BY <1>1
  <2> QED BY <1>2, <2>1
<1>4. 0 \in S
  <2>1. <<Len(order)>> \in Seq(numbers) /\ Len(<<Len(order)>>) = 1
    BY <1>1
  <2>2. W[0] \in Seq(numbers) /\ Len(W[0]) = 1
    BY <1>2, <2>1
  <2>3. 0 \in 0 .. Len(order) /\ 1 \in Nat /\ 1 > 0
    BY <1>1
  <2> QED BY <2>2, <2>3
<1>5. ASSUME NEW k \in 0 .. Len(order) - 1, k \in S PROVE k + 1 \in S
  <2>1. k + 1 \in 1 .. Len(order) /\ (k + 1) - 1 = k /\ order[k + 1] \in Pairs(chars, numbers)
    BY <1>1
  <2>2. write_pair(order[k + 1]) \in Seq(numbers) /\ Len(write_pair(order[k + 1])) \in Nat \ {0}
    BY <2>1, AnyPairWritten
  <2>3. W[k + 1] = W[k] \o write_pair(order[k + 1])
    BY <1>3, <2>1
  <2>4. W[k] \in Seq(numbers) /\ Len(W[k]) \in Nat /\ Len(W[k]) > k
    BY <1>5
  <2>5. /\ W[k + 1] \in Seq(numbers)
        /\ Len(W[k + 1]) = Len(W[k]) + Len(write_pair(order[k + 1]))
    BY <2>2, <2>3, <2>4, ConcatProperties
  <2> DEFINE l == Len(W[k])
             m == Len(write_pair(order[k + 1]))
  <2>6. l \in Nat /\ l > k /\ m \in Nat \ {0} /\ Len(W[k + 1]) = l + m
    BY <2>2, <2>4, <2>5
  <2> HIDE DEF l, m
  <2>7. Len(W[k + 1]) \in Nat /\ Len(W[k + 1]) > k + 1 /\ k + 1 \in 0 .. Len(order)
    BY <1>1, <2>6
  <2> QED BY <2>5, <2>7
<1> HIDE DEF S
<1>6. \A k \in 0 .. Len(order) : k \in S
  BY <1>1, <1>4, <1>5, UpTo
<1> QED
  BY <1>2, <1>3, <1>6 DEF S, W

\* Properties that are written can be read as far as the data reaches.
LEMMA AgreePairs ==
    ASSUME NEW chars, NEW numbers, Alphabet(chars, numbers),
           NEW order \in Seq(Pairs(chars, numbers)),
           NEW data \in Cells, NEW pos \in Nat \ {0}, Agree(data, pos, write_properties(order))
    PROVE  LET W == PairsWritten!State(order)
           IN  /\ Agree(data, pos, <<Len(order)>>)
               /\ \A k \in 1 .. Len(order) :
                     Agree(data, pos + Len(W[k - 1]), write_pair(order[k]))
<1> DEFINE W == PairsWritten!State(order)
           n == Len(order)
           S == {k \in 0 .. n : Agree(data, pos, W[n - k])}
<1>1. n \in Nat /\ numbers \subseteq Int
  BY DEF Alphabet
<1>2. /\ W[0] = <<n>>
      /\ \A k \in 1 .. n : W[k] = W[k - 1] \o write_pair(order[k])
      /\ \A k \in 0 .. n : W[k] \in Seq(numbers)
  BY PropertiesWritten
<1>3. Agree(data, pos, W[n])
  BY DEF write_properties
<1> HIDE DEF W
<1>4. ASSUME NEW k \in 1 .. n, Agree(data, pos, W[k])
      PROVE  Agree(data, pos, W[k - 1]) /\ Agree(data, pos + Len(W[k - 1]), write_pair(order[k]))
  <2>1. order[k] \in Pairs(chars, numbers)
    BY <1>1
  <2>2. W[k - 1] \in Cells /\ write_pair(order[k]) \in Cells
    <3>1. write_pair(order[k]) \in Seq(numbers) /\ W[k - 1] \in Seq(numbers)
      BY <1>1, <1>2, <2>1, AnyPairWritten
    <3> QED BY <1>1, <3>1, SeqMonotonic DEF Cells
  <2>3. Agree(data, pos, W[k - 1] \o write_pair(order[k]))
    BY <1>2, <1>4
  <2> QED BY <2>2, <2>3, AgreeSplits
<1>5. 0 \in S
  BY <1>1, <1>3
<1>6. ASSUME NEW k \in 0 .. n - 1, k \in S PROVE k + 1 \in S
  <2>1. n - k \in 1 .. n /\ (n - k) - 1 = n - (k + 1) /\ k + 1 \in 0 .. n
    BY <1>1
  <2>2. Agree(data, pos, W[(n - k) - 1])
    BY <1>4, <1>6, <2>1
  <2> QED BY <2>1, <2>2
<1> HIDE DEF S, n
<1>7. \A k \in 0 .. n : k \in S
  BY <1>1, <1>5, <1>6, UpTo
<1>8. \A k \in 0 .. n : Agree(data, pos, W[k])
  <2> TAKE k \in 0 .. n
  <2>1. n - k \in 0 .. n /\ n - (n - k) = k
    BY <1>1
  <2> QED BY <1>7, <2>1 DEF S
<1> QED
  BY <1>1, <1>2, <1>4, <1>8 DEF W, n

\* One more pair is one more property.
LEMMA PutNext ==
    ASSUME NEW chars, NEW numbers, NEW order, Listing(order, chars, numbers),
           NEW k \in 0 .. Len(order) - 1, NEW key, NEW value, order[k + 1] = <<key, value>>
    PROVE  PutField(FirstPairs(order, k), key, value) = FirstPairs(order, k + 1)
<1>1. Len(order) \in Nat
  BY DEF Listing
<1>2. \A i \in 1 .. k : order[i][1] # key
  <2> TAKE i \in 1 .. k
  <2>1. i \in 1 .. Len(order) /\ k + 1 \in 1 .. Len(order) /\ i # k + 1
    BY <1>1
  <2>2. order[i][1] # order[k + 1][1]
    BY <2>1 DEF Listing
  <2> QED BY <2>2
<1>3. {kv \in FirstPairs(order, k) : kv[1] # key} = FirstPairs(order, k)
  BY <1>2 DEF FirstPairs
<1>4. FirstPairs(order, k + 1) = FirstPairs(order, k) \cup {order[k + 1]}
  <2>1. \A i : i \in 1 .. k + 1 <=> i \in 1 .. k \/ i = k + 1
    BY <1>1
  <2> QED BY <2>1 DEF FirstPairs
<1> QED
  BY <1>3, <1>4 DEF PutField

LEMMA ReadsProperties ==
    ASSUME NEW chars, NEW numbers, Alphabet(chars, numbers),
           NEW order, Listing(order, chars, numbers),
           NEW data \in Cells, NEW pos \in Nat \ {0}, Agree(data, pos, write_properties(order))
    PROVE  Reads(read_properties(data, pos), data, chars, FirstPairs(order, Len(order)),
                 pos + Len(write_properties(order)))
<1> DEFINE n == Len(order)
           W == PairsWritten!State(order)
           P == PairsRead!State([data |-> data, pos |-> pos + 1])
           F(k) == FirstPairs(order, k)
           At(k) == pos + Len(W[k])
           S == {k \in 0 .. n : Reads(P[k], data, chars, F(k), At(k))}
           count == read_cell(data, pos)
           r == read_properties(data, pos)
<1>1. /\ order \in Seq(Pairs(chars, numbers)) /\ n \in Nat /\ Len(data) \in Nat
      /\ numbers \subseteq Int
  BY DEF Listing, Alphabet, Cells
<1>2. /\ W[0] = <<n>> /\ Len(W[0]) = 1
      /\ \A k \in 1 .. n : W[k] = W[k - 1] \o write_pair(order[k])
      /\ \A k \in 0 .. n : W[k] \in Seq(numbers) /\ Len(W[k]) \in Nat /\ Len(W[k]) > k
  <2>1. W[0] = <<n>>
    BY <1>1, PropertiesWritten
  <2>2. Len(W[0]) = 1
    BY <2>1
  <2> QED BY <1>1, <2>1, <2>2, PropertiesWritten
<1>3. /\ Agree(data, pos, <<n>>)
      /\ \A k \in 1 .. n : Agree(data, At(k - 1), write_pair(order[k]))
  BY <1>1, AgreePairs
<1>4. /\ P[0] = Got({}, pos + 1)
      /\ \A k \in Nat : P[k + 1] = IF P[k].ok THEN read_pair(data, P[k].val, P[k].pos) ELSE P[k]
  BY PairsRead!StateAt DEF AndThen
<1>5. \A k \in 1 .. n : At(k) = At(k - 1) + Len(write_pair(order[k]))
  <2> TAKE k \in 1 .. n
  <2>1. /\ W[k] = W[k - 1] \o write_pair(order[k]) /\ W[k - 1] \in Seq(numbers)
        /\ write_pair(order[k]) \in Seq(numbers) /\ Len(write_pair(order[k])) \in Nat \ {0}
    <3>1. k - 1 \in 0 .. n /\ order[k] \in Pairs(chars, numbers)
      BY <1>1
    <3> QED BY <1>2, <3>1, AnyPairWritten
  <2>2. Len(W[k]) = Len(W[k - 1]) + Len(write_pair(order[k]))
    BY <2>1, ConcatProperties
  <2>3. Len(W[k - 1]) \in Nat /\ Len(write_pair(order[k])) \in Nat
    BY <2>1
  <2> DEFINE a == Len(W[k - 1])
             b == Len(write_pair(order[k]))
  <2>4. a \in Nat /\ b \in Nat /\ Len(W[k]) = a + b
    BY <2>2, <2>3
  <2> HIDE DEF W, a, b
  <2>5. pos + Len(W[k]) = (pos + a) + b
    BY <2>4
  <2> QED BY <2>5 DEF a, b
<1>6. \A k \in 0 .. n : At(k) \in Nat \ {0} /\ At(k) > pos + k
  <2> TAKE k \in 0 .. n
  <2>1. Len(W[k]) \in Nat /\ Len(W[k]) > k
    BY <1>2
  <2> HIDE DEF W
  <2> QED BY <1>1, <2>1
<1>7. Reads(count, data, chars, n, pos + 1)
  BY <1>1, <1>3, ReadsCell
<1>8. At(0) = pos + 1 /\ At(n) = pos + Len(write_properties(order))
  BY <1>2 DEF write_properties
<1>9. ~count.ok => r = count
  BY DEF read_properties, AndThen
<1>10. r = IF count.ok
           THEN PairsRead!State([data |-> data, pos |-> count.pos])
                    [IF count.val \in 0 .. Len(data) THEN count.val ELSE Len(data) + 1]
           ELSE count
  BY DEF read_properties, AndThen
<1> HIDE DEF W, F, At
<1>11. ASSUME (pos + 1) - 1 =< Len(data) PROVE Reads(r, data, chars, F(n), At(n))
  <2>1. count = Got(n, pos + 1)
    BY <1>7, <1>11 DEF Reads
  <2>2. r = P[IF n \in 0 .. Len(data) THEN n ELSE Len(data) + 1]
    BY <1>10, <2>1 DEF Got
  <2> HIDE DEF P, r, count
  <2>3. 0 \in S
    <3>1. F(0) = {}
      BY DEF F, FirstPairs
    <3>2. Reads(P[0], data, chars, F(0), At(0))
      BY <1>4, <1>8, <1>11, <3>1 DEF Reads
    <3> QED BY <1>1, <3>2
  <2>4. ASSUME NEW k \in 0 .. n - 1, k \in S PROVE k + 1 \in S
    <3>1. /\ k \in Nat /\ k \in 0 .. n /\ k + 1 \in 0 .. n /\ k + 1 \in 1 .. n /\ (k + 1) - 1 = k
          /\ order[k + 1] \in Pairs(chars, numbers)
      BY <1>1
    <3>2. PICK key \in Seq(chars), value \in Values(chars, numbers) : order[k + 1] = <<key, value>>
      BY <3>1, PairOf
    <3>3. Agree(data, At(k), write_pair(<<key, value>>))
      BY <1>3, <3>1, <3>2
    <3>4. /\ At(k) \in Nat \ {0} /\ At(k + 1) \in Nat /\ At(k + 1) = At(k) + Len(write_pair(<<key, value>>))
          /\ Len(write_pair(<<key, value>>)) \in Nat
      BY <1>5, <1>6, <3>1, <3>2, PairWritten
    <3>5. PutField(F(k), key, value) = F(k + 1)
      BY <3>2, PutNext DEF F
    <3>6. P[k + 1] = IF P[k].ok THEN read_pair(data, P[k].val, P[k].pos) ELSE P[k]
      BY <1>4, <3>1
    <3>7. Reads(P[k], data, chars, F(k), At(k))
      BY <2>4
    <3>8. ASSUME At(k) - 1 =< Len(data) PROVE Reads(P[k + 1], data, chars, F(k + 1), At(k + 1))
      <4>1. P[k] = Got(F(k), At(k))
        BY <3>7, <3>8 DEF Reads
      <4>2. P[k + 1] = read_pair(data, F(k), At(k))
        BY <3>6, <4>1 DEF Got
      <4> QED BY <3>3, <3>4, <3>5, <4>2, ReadsPair
    <3>9. At(k) =< At(k + 1)
      BY <3>4
    <3>10. Reads(P[k + 1], data, chars, F(k + 1), At(k + 1))
      BY <3>4, <3>6, <3>7, <3>8, <3>9, ReadsOn
    <3> QED BY <3>1, <3>10
  <2> HIDE DEF S
  <2>5. \A k \in 0 .. n : k \in S
    BY <1>1, <2>3, <2>4, UpTo
  <2>6. \A k \in 0 .. n : Reads(P[k], data, chars, F(k), At(k))
    BY <2>5 DEF S
  <2>7. CASE n =< Len(data)
    <3>1. r = P[n] /\ n \in 0 .. n
      BY <1>1, <2>2, <2>7
    <3> QED BY <2>6, <3>1
  <2>8. CASE n > Len(data)
    <3> DEFINE m == Len(data) + 1
    <3>1. m \in 0 .. n /\ n \in 0 .. n /\ r = P[m]
      BY <1>1, <2>2, <2>8
    <3>2. ~(At(m) - 1 =< Len(data)) /\ ~(At(n) - 1 =< Len(data))
      <4>1. At(m) > pos + m /\ At(n) > pos + n /\ At(m) \in Nat /\ At(n) \in Nat
        BY <1>6, <3>1
      <4> QED BY <1>1, <2>8, <4>1
    <3> HIDE DEF m
    <3>3. Reads(r, data, chars, F(m), At(m))
      BY <2>6, <3>1
    <3> QED BY <3>2, <3>3 DEF Reads
  <2> QED BY <1>1, <2>7, <2>8
<1> HIDE DEF r, count
<1>12. /\ At(n) \in Nat /\ pos + 1 =< At(n) /\ pos + 1 \in Nat
  <2>1. n \in 0 .. n /\ At(n) \in Nat /\ At(n) > pos + n
    BY <1>1, <1>6
  <2> QED BY <1>1, <2>1
<1>13. Reads(r, data, chars, F(n), At(n))
  BY <1>7, <1>9, <1>11, <1>12, ReadsOn
<1> QED
  BY <1>8, <1>13 DEF r, F

\* The HashMap of properties in any order that it may be iterated in.
LEMMA Listings ==
    ASSUME NEW chars, NEW numbers, NEW fields \in FieldSets(chars, numbers),
           NEW order \in SetToSeqs(fields)
    PROVE  Listing(order, chars, numbers) /\ FirstPairs(order, Len(order)) = fields
<1> DEFINE D == 1 .. Cardinality(fields)
<1>1. /\ IsFiniteSet(fields) /\ fields \subseteq Pairs(chars, numbers)
      /\ \A f, g \in fields : f[1] = g[1] => f = g
  BY DEF FieldSets, Pairs
<1>2. Cardinality(fields) \in Nat
  BY <1>1, FS_CardinalityType
<1>3. order \in [D -> fields] /\ \A i, j \in D : i # j => order[i] # order[j]
  BY DEF SetToSeqs
<1>4. order \in Seq(Pairs(chars, numbers)) /\ Len(order) = Cardinality(fields)
  <2>1. order \in [D -> Pairs(chars, numbers)]
    BY <1>1, <1>3
  <2> QED BY <1>2, <2>1
<1>5. \A i, j \in 1 .. Len(order) : i # j => order[i][1] # order[j][1]
  BY <1>1, <1>3, <1>4
<1>6. \A f \in fields : \E i \in D : order[i] = f
  <2>1. IsFiniteSet(D) /\ Cardinality(D) = Cardinality(fields)
    BY <1>2, FS_Interval
  <2>2. order \in Injection(D, fields)
    BY <1>3 DEF Injection, IsInjective
  <2>3. order \in Surjection(D, fields)
    BY <1>1, <2>1, <2>2, FS_SurjSameCardinalityImpliesInj, FS_Injection
  <2> QED BY <2>3 DEF Surjection
<1> QED
  BY <1>3, <1>4, <1>5, <1>6 DEF Listing, FirstPairs

-----------------------------------------------------------------------------
(* Records.                                                                *)

LEMMA AgreeTwo ==
    ASSUME NEW data \in Cells, NEW pos \in Nat \ {0}, NEW x \in Int, NEW y \in Int,
           Agree(data, pos, <<x, y>>)
    PROVE  Agree(data, pos, <<x>>) /\ Agree(data, pos + 1, <<y>>)
<1>1. /\ Len(<<x, y>>) = 2 /\ <<x, y>>[1] = x /\ <<x, y>>[2] = y
      /\ Len(<<x>>) = 1 /\ <<x>>[1] = x /\ Len(<<y>>) = 1 /\ <<y>>[1] = y
  OBVIOUS
<1>2. /\ pos =< Len(data) => data[pos] = x
      /\ pos + 1 =< Len(data) => data[pos + 1] = y
  <2>1. 1 \in 1 .. 2 /\ 2 \in 1 .. 2 /\ pos + 1 - 1 = pos /\ pos + 2 - 1 = pos + 1
    OBVIOUS
  <2> QED BY <1>1, <2>1 DEF Agree
<1>3. \A i \in 1 .. 1 : i = 1
  OBVIOUS
<1>4. pos + 1 - 1 = pos /\ (pos + 1) + 1 - 1 = pos + 1
  OBVIOUS
<1> QED
  BY <1>1, <1>2, <1>3, <1>4 DEF Agree

\* The properties of a record in any order that its HashMap is iterated in.
LEMMA ReadsFields ==
    ASSUME NEW chars, NEW numbers, Alphabet(chars, numbers),
           NEW fields \in FieldSets(chars, numbers), NEW order \in SetToSeqs(fields),
           NEW data \in Cells, NEW pos \in Nat \ {0}, Agree(data, pos, write_properties(order))
    PROVE  Reads(read_properties(data, pos), data, chars, fields,
                 pos + Len(write_properties(order)))
BY Listings, ReadsProperties

LEMMA FieldsWritten ==
    ASSUME NEW chars, NEW numbers, Alphabet(chars, numbers),
           NEW fields \in FieldSets(chars, numbers), NEW order \in SetToSeqs(fields)
    PROVE  write_properties(order) \in Seq(numbers) /\ Len(write_properties(order)) \in Nat \ {0}
<1>1. order \in Seq(Pairs(chars, numbers))
  BY Listings DEF Listing
<1> DEFINE n == Len(order)
           W == PairsWritten!State(order)
<1>2. n \in Nat /\ n \in 0 .. n
  BY <1>1
<1>3. W[n] \in Seq(numbers) /\ Len(W[n]) \in Nat /\ Len(W[n]) > n
  BY <1>1, <1>2, PropertiesWritten
<1> QED
  BY <1>2, <1>3 DEF write_properties

LEMMA ReadsNode ==
    ASSUME NEW chars, NEW numbers, Alphabet(chars, numbers), NEW id \in numbers,
           NEW label \in Seq(chars),
           NEW fields \in FieldSets(chars, numbers), NEW order \in SetToSeqs(fields),
           NEW data \in Cells, NEW pos \in Nat \ {0}, NEW p \in Nat \ {0}, NEW q \in Nat \ {0},
           p = pos + 1, q = p + 1 + Len(label),
           Agree(data, pos, <<id>>), Agree(data, p, write_str(label)),
           Agree(data, q, write_properties(order))
    PROVE  Reads(decode_node(data, pos), data, chars,
                 [op |-> "UpsertNode", id |-> id, node |-> [label |-> label, fields |-> fields]],
                 q + Len(write_properties(order)))
<1> DEFINE node == [op |-> "UpsertNode", id |-> id, node |-> [label |-> label, fields |-> fields]]
           end == q + Len(write_properties(order))
           c == read_cell(data, pos)
           t == read_str(data, p)
           f == read_properties(data, q)
           r == decode_node(data, pos)
<1>1. id \in Int /\ chars \subseteq Ascii /\ Len(label) \in Nat /\ Len(data) \in Nat
  BY DEF Alphabet, Cells
<1>2. p =< q /\ q =< end /\ end \in Nat
  BY <1>1, FieldsWritten
<1>3. Reads(c, data, chars, id, p)
  BY <1>1, ReadsCell
<1>4. Reads(t, data, chars, label, q)
  BY <1>1, ReadsText
<1>5. Reads(f, data, chars, fields, end)
  BY ReadsFields
<1>6. ~c.ok => r = c
  BY DEF decode_node, AndThen
<1>7. c = Got(id, p) /\ ~t.ok => r = t
  BY DEF decode_node, AndThen, Got
<1>8. c = Got(id, p) /\ t = Got(label, q) /\ f = Got(fields, end) => r = Got(node, end)
  <2> DEFINE text == read_str(data, c.pos)
             rest == read_properties(data, text.pos)
  <2>1. r = IF c.ok
            THEN IF text.ok
                 THEN IF rest.ok
                      THEN Got([op |-> "UpsertNode", id |-> c.val,
                                node |-> [label |-> text.val, fields |-> rest.val]], rest.pos)
                      ELSE rest
                 ELSE text
            ELSE c
    BY DEF decode_node, AndThen
  <2> HAVE c = Got(id, p) /\ t = Got(label, q) /\ f = Got(fields, end)
  <2>2. c.ok /\ c.val = id /\ c.pos = p
    BY DEF Got
  <2>3. text = t
    BY <2>2
  <2>4. text.ok /\ text.val = label /\ text.pos = q
    BY <2>3 DEF Got
  <2>5. rest = f
    BY <2>4
  <2>6. rest.ok /\ rest.val = fields /\ rest.pos = end
    BY <2>5 DEF Got
  <2> HIDE DEF c, text, rest, r
  <2> QED BY <2>1, <2>2, <2>4, <2>6
<1>9. c = Got(id, p) /\ t = Got(label, q) /\ ~f.ok => r = f
  BY DEF decode_node, AndThen, Got
<1> HIDE DEF c, t, f, r, node, end
<1>10. q - 1 =< Len(data) => Reads(r, data, chars, node, end)
  <2> HAVE q - 1 =< Len(data)
  <2>1. c = Got(id, p) /\ t = Got(label, q)
    BY <1>1, <1>2, <1>3, <1>4 DEF Reads
  <2> QED BY <1>5, <1>8, <1>9, <2>1 DEF Reads
<1>11. p - 1 =< Len(data) => Reads(r, data, chars, node, end)
  <2> HAVE p - 1 =< Len(data)
  <2>1. c = Got(id, p)
    BY <1>3 DEF Reads
  <2> QED BY <1>2, <1>4, <1>7, <1>10, <2>1, ReadsOn
<1>12. Reads(r, data, chars, node, end)
  <2>1. p =< end
    BY <1>2
  <2> QED BY <1>2, <1>3, <1>6, <1>11, <2>1, ReadsOn
<1> QED
  BY <1>12 DEF r, node, end

LEMMA ReadsEdge ==
    ASSUME NEW chars, NEW numbers, Alphabet(chars, numbers), NEW id \in numbers,
           NEW src \in numbers, NEW tgt \in numbers, NEW label \in Seq(chars), NEW weight \in numbers,
           NEW fields \in FieldSets(chars, numbers), NEW order \in SetToSeqs(fields),
           NEW data \in Cells, NEW pos \in Nat \ {0}, NEW p \in Nat \ {0}, NEW q \in Nat \ {0},
           NEW m \in Nat \ {0}, NEW n \in Nat \ {0}, NEW o \in Nat \ {0},
           p = pos + 1, q = p + 1, m = q + 1, n = m + 1 + Len(label), o = n + 1,
           Agree(data, pos, <<id>>), Agree(data, p, <<src>>), Agree(data, q, <<tgt>>),
           Agree(data, m, write_str(label)), Agree(data, n, <<weight>>),
           Agree(data, o, write_properties(order))
    PROVE  Reads(decode_edge(data, pos), data, chars,
                 [op |-> "UpsertEdge", id |-> id,
                  edge |-> [src |-> src, tgt |-> tgt, label |-> label, weight |-> weight,
                            fields |-> fields]],
                 o + Len(write_properties(order)))
<1> DEFINE edge == [op |-> "UpsertEdge", id |-> id,
                    edge |-> [src |-> src, tgt |-> tgt, label |-> label, weight |-> weight,
                              fields |-> fields]]
           end == o + Len(write_properties(order))
           c == read_cell(data, pos)
           s == read_cell(data, p)
           t == read_cell(data, q)
           l == read_str(data, m)
           w == read_cell(data, n)
           f == read_properties(data, o)
           r == decode_edge(data, pos)
<1>1. /\ id \in Int /\ src \in Int /\ tgt \in Int /\ weight \in Int
      /\ chars \subseteq Ascii /\ Len(label) \in Nat /\ Len(data) \in Nat
  BY DEF Alphabet, Cells
<1>2. p =< q /\ q =< m /\ m =< n /\ n =< o /\ o =< end /\ end \in Nat
  BY <1>1, FieldsWritten
<1>3. Reads(c, data, chars, id, p)
  BY <1>1, ReadsCell
<1>4. Reads(s, data, chars, src, q)
  BY <1>1, ReadsCell
<1>5. Reads(t, data, chars, tgt, m)
  BY <1>1, ReadsCell
<1>6. Reads(l, data, chars, label, n)
  BY <1>1, ReadsText
<1>7. Reads(w, data, chars, weight, o)
  BY <1>1, ReadsCell
<1>8. Reads(f, data, chars, fields, end)
  BY ReadsFields
<1> DEFINE s0 == read_cell(data, c.pos)
           t0 == read_cell(data, s0.pos)
           l0 == read_str(data, t0.pos)
           w0 == read_cell(data, l0.pos)
           f0 == read_properties(data, w0.pos)
           made == Got([op |-> "UpsertEdge", id |-> c.val,
                        edge |-> [src |-> s0.val, tgt |-> t0.val, label |-> l0.val,
                                  weight |-> w0.val, fields |-> f0.val]], f0.pos)
<1>9. r = IF c.ok
          THEN IF s0.ok
               THEN IF t0.ok
                    THEN IF l0.ok
                         THEN IF w0.ok THEN IF f0.ok THEN made ELSE f0 ELSE w0
                         ELSE l0
                    ELSE t0
               ELSE s0
          ELSE c
  <2> HIDE DEF edge, end
  <2> QED BY DEF decode_edge, AndThen
<1>10. c = Got(id, p) => c.ok /\ c.val = id /\ s0 = s
  BY DEF Got
<1>11. s0 = Got(src, q) => s0.ok /\ s0.val = src /\ t0 = t
  BY DEF Got
<1>12. t0 = Got(tgt, m) => t0.ok /\ t0.val = tgt /\ l0 = l
  BY DEF Got
<1>13. l0 = Got(label, n) => l0.ok /\ l0.val = label /\ w0 = w
  BY DEF Got
<1>14. w0 = Got(weight, o) => w0.ok /\ w0.val = weight /\ f0 = f
  BY DEF Got
<1> DEFINE Edge(fs) == [op |-> "UpsertEdge", id |-> id,
                        edge |-> [src |-> src, tgt |-> tgt, label |-> label,
                                  weight |-> weight, fields |-> fs]]
<1>15. c = Got(id, p) /\ s = Got(src, q) /\ t = Got(tgt, m) /\ l = Got(label, n) /\ w = Got(weight, o)
       => r = IF f.ok THEN Got(Edge(f.val), f.pos) ELSE f
  <2> HIDE DEF c, s, t, l, w, f, r, s0, t0, l0, w0, f0, edge, end
  <2> QED BY <1>9, <1>10, <1>11, <1>12, <1>13, <1>14
<1>16. /\ ~c.ok => r = c
       /\ c = Got(id, p) => (~s.ok => r = s)
       /\ c = Got(id, p) /\ s = Got(src, q) => (~t.ok => r = t)
       /\ c = Got(id, p) /\ s = Got(src, q) /\ t = Got(tgt, m) => (~l.ok => r = l)
       /\ c = Got(id, p) /\ s = Got(src, q) /\ t = Got(tgt, m) /\ l = Got(label, n)
              => (~w.ok => r = w)
  <2> HIDE DEF c, s, t, l, w, f, r, s0, t0, l0, w0, f0, edge, end, made
  <2> QED BY <1>9, <1>10, <1>11, <1>12, <1>13, <1>14
<1> HIDE DEF c, s, t, l, w, f, r, s0, t0, l0, w0, f0, made, edge, end
<1>17. o - 1 =< Len(data) => Reads(r, data, chars, edge, end)
  <2> HAVE o - 1 =< Len(data)
  <2>1. p - 1 =< Len(data) /\ q - 1 =< Len(data) /\ m - 1 =< Len(data) /\ n - 1 =< Len(data)
    BY <1>1, <1>2
  <2>2. /\ c = Got(id, p) /\ s = Got(src, q) /\ t = Got(tgt, m) /\ l = Got(label, n)
        /\ w = Got(weight, o)
    BY <1>3, <1>4, <1>5, <1>6, <1>7, <2>1 DEF Reads
  <2>3. r = IF f.ok THEN Got(Edge(f.val), f.pos) ELSE f
    BY <1>15, <2>2
  <2>4. CASE end - 1 =< Len(data)
    <3>1. f = Got(fields, end)
      BY <1>8, <2>4 DEF Reads
    <3>2. f.ok /\ f.val = fields /\ f.pos = end
      BY <3>1 DEF Got
    <3> QED BY <2>3, <2>4, <3>2 DEF Reads, edge
  <2>5. CASE ~(end - 1 =< Len(data))
    BY <1>8, <2>3, <2>5 DEF Reads
  <2> QED BY <2>4, <2>5
<1>18. n - 1 =< Len(data) => Reads(r, data, chars, edge, end)
  <2> HAVE n - 1 =< Len(data)
  <2>1. p - 1 =< Len(data) /\ q - 1 =< Len(data) /\ m - 1 =< Len(data)
    BY <1>1, <1>2
  <2>2. c = Got(id, p) /\ s = Got(src, q) /\ t = Got(tgt, m) /\ l = Got(label, n)
    BY <1>3, <1>4, <1>5, <1>6, <2>1 DEF Reads
  <2> QED BY <1>2, <1>7, <1>16, <1>17, <2>2, ReadsOn
<1>19. n =< end
  BY <1>2
<1>20. m - 1 =< Len(data) => Reads(r, data, chars, edge, end)
  <2> HAVE m - 1 =< Len(data)
  <2>1. p - 1 =< Len(data) /\ q - 1 =< Len(data)
    BY <1>1, <1>2
  <2>2. c = Got(id, p) /\ s = Got(src, q) /\ t = Got(tgt, m)
    BY <1>3, <1>4, <1>5, <2>1 DEF Reads
  <2> QED BY <1>2, <1>6, <1>16, <1>18, <1>19, <2>2, ReadsOn
<1>21. m =< end
  BY <1>2
<1>22. q - 1 =< Len(data) => Reads(r, data, chars, edge, end)
  <2> HAVE q - 1 =< Len(data)
  <2>1. p - 1 =< Len(data)
    BY <1>1, <1>2
  <2>2. c = Got(id, p) /\ s = Got(src, q)
    BY <1>3, <1>4, <2>1 DEF Reads
  <2> QED BY <1>2, <1>5, <1>16, <1>20, <1>21, <2>2, ReadsOn
<1>23. p =< end /\ q =< end
  BY <1>2
<1>24. p - 1 =< Len(data) => Reads(r, data, chars, edge, end)
  <2> HAVE p - 1 =< Len(data)
  <2>1. c = Got(id, p)
    BY <1>3 DEF Reads
  <2> QED BY <1>2, <1>4, <1>16, <1>22, <1>23, <2>1, ReadsOn
<1>25. Reads(r, data, chars, edge, end)
  BY <1>2, <1>3, <1>16, <1>23, <1>24, ReadsOn
<1> QED
  BY <1>25 DEF r, edge, end

Records(chars, numbers) ==
    Upserts(chars, numbers) \cup Deletes(numbers) \cup TxnMarkers(numbers)

\* The records of each shape.
NodeRecord(id, label, fields) ==
    [op |-> "UpsertNode", id |-> id, node |-> [label |-> label, fields |-> fields]]

EdgeRecord(id, src, tgt, label, weight, fields) ==
    [op |-> "UpsertEdge", id |-> id,
     edge |-> [src |-> src, tgt |-> tgt, label |-> label, weight |-> weight, fields |-> fields]]

OtherRecord(type, id) == [op |-> Ops[type], id |-> id]

LEMMA RecordShapes ==
    ASSUME NEW chars, NEW numbers, NEW rec \in Records(chars, numbers)
    PROVE  \/ \E id \in numbers, label \in Seq(chars), fields \in FieldSets(chars, numbers) :
                  rec = NodeRecord(id, label, fields)
           \/ \E id \in numbers, src \in numbers, tgt \in numbers, label \in Seq(chars),
                 weight \in numbers, fields \in FieldSets(chars, numbers) :
                  rec = EdgeRecord(id, src, tgt, label, weight, fields)
           \/ \E type \in 3 .. 7, id \in numbers : rec = OtherRecord(type, id)
<1>1. CASE rec \in [op : {"UpsertNode"}, id : numbers, node : Nodes(chars, numbers)]
  <2>1. PICK id \in numbers, node \in Nodes(chars, numbers) :
            rec = [op |-> "UpsertNode", id |-> id, node |-> node]
    BY <1>1
  <2>2. PICK label \in Seq(chars), fields \in FieldSets(chars, numbers) :
            node = [label |-> label, fields |-> fields]
    BY DEF Nodes
  <2> QED BY <2>1, <2>2 DEF NodeRecord
<1>2. CASE rec \in [op : {"UpsertEdge"}, id : numbers, edge : Edges(chars, numbers)]
  <2>1. PICK id \in numbers, edge \in Edges(chars, numbers) :
            rec = [op |-> "UpsertEdge", id |-> id, edge |-> edge]
    BY <1>2
  <2>2. PICK src \in numbers, tgt \in numbers, label \in Seq(chars), weight \in numbers,
             fields \in FieldSets(chars, numbers) :
            edge = [src |-> src, tgt |-> tgt, label |-> label, weight |-> weight,
                    fields |-> fields]
    BY DEF Edges
  <2> QED BY <2>1, <2>2 DEF EdgeRecord
<1>3. CASE rec \in [op : {"DeleteNode", "DeleteEdge"}, id : numbers]
  <2>1. PICK what \in {"DeleteNode", "DeleteEdge"}, id \in numbers : rec = [op |-> what, id |-> id]
    BY <1>3
  <2>2. \E type \in 3 .. 7 : what = Ops[type]
    <3>1. Ops[3] = "DeleteNode" /\ Ops[4] = "DeleteEdge" /\ 3 \in 3 .. 7 /\ 4 \in 3 .. 7
      BY DEF Ops
    <3> QED BY <3>1
  <2> QED BY <2>1, <2>2 DEF OtherRecord
<1>4. CASE rec \in [op : {"BeginTxn", "CommitTxn", "RollbackTxn"}, id : numbers]
  <2>1. PICK what \in {"BeginTxn", "CommitTxn", "RollbackTxn"}, id \in numbers :
            rec = [op |-> what, id |-> id]
    BY <1>4
  <2>2. \E type \in 3 .. 7 : what = Ops[type]
    <3>1. /\ Ops[5] = "BeginTxn" /\ Ops[6] = "CommitTxn" /\ Ops[7] = "RollbackTxn"
          /\ 5 \in 3 .. 7 /\ 6 \in 3 .. 7 /\ 7 \in 3 .. 7
      BY DEF Ops
    <3> QED BY <3>1
  <2> QED BY <2>1, <2>2 DEF OtherRecord
<1> QED
  BY <1>1, <1>2, <1>3, <1>4 DEF Records, Upserts, Deletes, TxnMarkers

LEMMA NodePayload ==
    ASSUME NEW id, NEW label, NEW fields, NEW order
    PROVE  /\ Payload(NodeRecord(id, label, fields), order) =
                  <<1, id>> \o (write_str(label) \o write_properties(order))
           /\ Orders(NodeRecord(id, label, fields)) = SetToSeqs(fields)
<1> DEFINE rec == NodeRecord(id, label, fields)
<1>1. rec.op = "UpsertNode" /\ rec.id = id /\ rec.node.label = label /\ rec.node.fields = fields
  BY DEF NodeRecord
<1> HIDE DEF rec
<1>2. SelectInSeq(Ops, LAMBDA what : what = rec.op) = 1
  BY <1>1 DEF SelectInSeq, Ops, Min
<1>3. Payload(rec, order) = <<1, id>> \o (write_str(label) \o write_properties(order))
  BY <1>1, <1>2 DEF Payload
<1>4. Orders(rec) = SetToSeqs(fields)
  BY <1>1 DEF Orders
<1> QED
  BY <1>3, <1>4 DEF rec

LEMMA EdgePayload ==
    ASSUME NEW id, NEW src, NEW tgt, NEW label, NEW weight, NEW fields, NEW order
    PROVE  LET rec == EdgeRecord(id, src, tgt, label, weight, fields)
           IN  /\ Payload(rec, order) =
                      <<2, id>> \o (<<src, tgt>> \o write_str(label) \o <<weight>>
                                        \o write_properties(order))
               /\ Orders(rec) = SetToSeqs(fields)
<1> DEFINE rec == EdgeRecord(id, src, tgt, label, weight, fields)
<1>1. /\ rec.op = "UpsertEdge" /\ rec.id = id /\ rec.edge.src = src /\ rec.edge.tgt = tgt
      /\ rec.edge.label = label /\ rec.edge.weight = weight /\ rec.edge.fields = fields
  BY DEF EdgeRecord
<1> HIDE DEF rec
<1>2. SelectInSeq(Ops, LAMBDA what : what = rec.op) = 2
  BY <1>1 DEF SelectInSeq, Ops, Min
<1>3. Payload(rec, order) = <<2, id>> \o (<<src, tgt>> \o write_str(label) \o <<weight>>
                                              \o write_properties(order))
  BY <1>1, <1>2 DEF Payload
<1>4. Orders(rec) = SetToSeqs(fields)
  BY <1>1 DEF Orders
<1> QED
  BY <1>3, <1>4 DEF rec

LEMMA OtherPayload ==
    ASSUME NEW type \in 3 .. 7, NEW id, NEW order
    PROVE  /\ Payload(OtherRecord(type, id), order) = <<type, id>> \o <<>>
           /\ Orders(OtherRecord(type, id)) = {<<>>}
<1> DEFINE rec == OtherRecord(type, id)
<1>1. rec.op = Ops[type] /\ rec.id = id
  BY DEF OtherRecord
<1> HIDE DEF rec
<1>2. \A i \in 1 .. Len(Ops) : Ops[i] = rec.op <=> i = type
  BY <1>1 DEF Ops
<1>3. SelectInSeq(Ops, LAMBDA what : what = rec.op) = type
  <2>1. Len(Ops) = 7
    BY DEF Ops
  <2>2. {i \in 1 .. Len(Ops) : Ops[i] = rec.op} = {type}
    BY <1>2, <2>1
  <2>3. Min({type}) = type
    BY DEF Min
  <2> QED BY <2>2, <2>3 DEF SelectInSeq
<1>4. rec.op # "UpsertNode" /\ rec.op # "UpsertEdge"
  BY <1>1 DEF Ops
<1>5. Payload(rec, order) = <<type, id>> \o <<>>
  BY <1>1, <1>3, <1>4 DEF Payload
<1>6. Orders(rec) = {<<>>}
  BY <1>4 DEF Orders
<1> QED
  BY <1>5, <1>6 DEF rec

LEMMA DecodeTypes ==
    ASSUME NEW data, NEW pos
    PROVE  /\ decode_record(1, data, pos) = decode_node(data, pos)
           /\ decode_record(2, data, pos) = decode_edge(data, pos)
           /\ \A type \in 3 .. 7 :
                 decode_record(type, data, pos) =
                     IF read_cell(data, pos).ok
                     THEN Got([op |-> Ops[type], id |-> read_cell(data, pos).val],
                              read_cell(data, pos).pos)
                     ELSE read_cell(data, pos)
           /\ \A type \in Int \ 1 .. 7 : decode_record(type, data, pos) = Err(pos)
<1>1. decode_record(1, data, pos) = decode_node(data, pos)
  BY DEF decode_record
<1>2. decode_record(2, data, pos) = decode_edge(data, pos)
  BY DEF decode_record
<1>3. ASSUME NEW type \in 3 .. 7
      PROVE  decode_record(type, data, pos) =
                     IF read_cell(data, pos).ok
                     THEN Got([op |-> Ops[type], id |-> read_cell(data, pos).val],
                              read_cell(data, pos).pos)
                     ELSE read_cell(data, pos)
  <2>1. type # 1 /\ type # 2
    OBVIOUS
  <2> QED BY <2>1 DEF decode_record, AndThen
<1>4. ASSUME NEW type \in Int \ 1 .. 7 PROVE decode_record(type, data, pos) = Err(pos)
  <2>1. type # 1 /\ type # 2 /\ type \notin 3 .. 7
    OBVIOUS
  <2> QED BY <2>1 DEF decode_record
<1> QED
  BY <1>1, <1>2, <1>3, <1>4

LEMMA NumbersAreCells ==
    ASSUME NEW chars, NEW numbers, Alphabet(chars, numbers)
    PROVE  Seq(numbers) \subseteq Cells
BY SeqMonotonic DEF Alphabet, Cells

LEMMA Heading ==
    ASSUME NEW numbers, NEW x \in numbers, NEW y \in numbers, NEW rest \in Seq(numbers)
    PROVE  /\ <<x, y>> \o rest \in Seq(numbers)
           /\ Len(<<x, y>> \o rest) \in Nat
           /\ Len(<<x, y>> \o rest) = 2 + Len(rest)
           /\ (<<x, y>> \o rest)[1] = x
<1>1. <<x, y>> \in Seq(numbers) /\ Len(<<x, y>>) = 2
  OBVIOUS
<1> QED
  BY <1>1, ConcatProperties

\* The cells of a record, the first of which is its type, are read as the record.
ReadsBack(payload, type, rec, chars, numbers) ==
    /\ payload \in Seq(numbers) /\ Len(payload) \in Nat /\ Len(payload) >= 2
    /\ payload[1] = type
    /\ \A data \in Cells, pos \in Nat \ {0} :
          Agree(data, pos, payload) =>
              Reads(decode_record(type, data, pos + 1), data, chars, rec, pos + Len(payload))

LEMMA NodeRead ==
    ASSUME NEW chars, NEW numbers, Alphabet(chars, numbers), NEW id \in numbers,
           NEW label \in Seq(chars),
           NEW fields \in FieldSets(chars, numbers), NEW order \in SetToSeqs(fields)
    PROVE  ReadsBack(<<1, id>> \o (write_str(label) \o write_properties(order)),
                     1, NodeRecord(id, label, fields), chars, numbers)
<1> DEFINE payload == <<1, id>> \o (write_str(label) \o write_properties(order))
<1> DEFINE wl == write_str(label)
           wf == write_properties(order)
<1>1. /\ Nat \subseteq numbers /\ numbers \subseteq Int /\ Len(label) \in Nat
      /\ wl \in Seq(numbers) /\ wl \in Cells /\ Len(wl) = 1 + Len(label)
      /\ wf \in Seq(numbers) /\ wf \in Cells /\ Len(wf) \in Nat \ {0}
  <2>1. Nat \subseteq numbers /\ numbers \subseteq Int
    BY DEF Alphabet
  <2>2. wl \in Seq(numbers) /\ Len(wl) = 1 + Len(label)
    BY TextWritten
  <2>3. wf \in Seq(numbers) /\ Len(wf) \in Nat \ {0}
    BY FieldsWritten
  <2> HIDE DEF wl, wf
  <2> QED BY <2>1, <2>2, <2>3, NumbersAreCells, LenProperties
<1>2. <<1, id>> \in Seq(numbers) /\ Len(<<1, id>>) = 2 /\ <<1, id>> \in Cells /\ <<1, id>>[1] = 1
  BY <1>1 DEF Cells
<1> HIDE DEF wl, wf
<1>3. /\ wl \o wf \in Seq(numbers) /\ wl \o wf \in Cells /\ Len(wl \o wf) = Len(wl) + Len(wf)
  BY <1>1, ConcatProperties DEF Cells
<1>4. payload = <<1, id>> \o (wl \o wf)
  BY DEF wl, wf
<1> HIDE DEF payload
<1>5. /\ payload \in Seq(numbers) /\ Len(payload) = 2 + Len(wl \o wf)
      /\ payload[1] = 1 /\ Len(payload) \in Nat
  <2>1. 1 \in numbers
    BY <1>1
  <2>2. (wl \o wf) \in Seq(numbers)
    BY <1>3
  <2>3. /\ <<1, id>> \o (wl \o wf) \in Seq(numbers) /\ Len(<<1, id>> \o (wl \o wf)) \in Nat
        /\ Len(<<1, id>> \o (wl \o wf)) = 2 + Len((wl \o wf)) /\ (<<1, id>> \o (wl \o wf))[1] = 1
    BY <2>1, <2>2, Heading
  <2> QED BY <1>3, <1>4, <2>3
<1>6. Len(payload) = 2 + 1 + Len(label) + Len(wf)
  <2>1. Len(payload) = 2 + (Len(wl) + Len(wf))
    BY <1>3, <1>5
  <2> QED BY <1>1, <2>1
<1> DEFINE l == Len(label)
           f == Len(wf)
           len == Len(payload)
<1>7. l \in Nat /\ f \in Nat /\ len = 2 + 1 + l + f /\ Len(wl) = 1 + l
  BY <1>1, <1>6
<1>8. ASSUME NEW data \in Cells, NEW pos \in Nat \ {0}, Agree(data, pos, payload)
      PROVE  Reads(decode_record(1, data, pos + 1), data, chars,
                   NodeRecord(id, label, fields), pos + len)
  <2> DEFINE p == pos + 2
             q == p + 1 + l
  <2>1. Agree(data, pos, <<1, id>>) /\ Agree(data, p, wl \o wf)
    BY <1>2, <1>3, <1>4, <1>8, AgreeSplits
  <2>2. Agree(data, pos + 1, <<id>>)
    BY <1>1, <2>1, AgreeTwo
  <2> HIDE DEF l, f, len
  <2>3. /\ pos + 1 \in Nat \ {0} /\ p \in Nat \ {0} /\ q \in Nat \ {0} /\ p = (pos + 1) + 1
        /\ q = p + 1 + l /\ p + Len(wl) = q /\ q + f = pos + len
    BY <1>7
  <2> HIDE DEF p, q
  <2>4. Agree(data, p, wl) /\ Agree(data, q, wf)
    <3>1. Agree(data, p, wl \o wf)
      BY <2>1
    <3>2. Agree(data, p, wl) /\ Agree(data, p + Len(wl), wf)
      <4>1. p \in Nat \ {0} /\ wl \in Cells /\ wf \in Cells
        BY <1>1, <2>3
      <4> HIDE DEF p
      <4> QED BY <3>1, <4>1, AgreeSplits
    <3> QED BY <2>3, <3>2
  <2>5. Reads(decode_node(data, pos + 1), data, chars, NodeRecord(id, label, fields), q + f)
    BY <2>2, <2>3, <2>4, ReadsNode DEF NodeRecord, wl, wf, l, f
  <2> QED BY <2>3, <2>5, DecodeTypes
<1>9. Len(payload) >= 2
  BY <1>1, <1>6
<1> QED
  BY <1>5, <1>8, <1>9 DEF ReadsBack, payload

LEMMA EdgeRead ==
    ASSUME NEW chars, NEW numbers, Alphabet(chars, numbers), NEW id \in numbers,
           NEW src \in numbers, NEW tgt \in numbers, NEW label \in Seq(chars), NEW weight \in numbers,
           NEW fields \in FieldSets(chars, numbers), NEW order \in SetToSeqs(fields)
    PROVE  ReadsBack(<<2, id>> \o (<<src, tgt>> \o write_str(label) \o <<weight>>
                                       \o write_properties(order)),
                     2, EdgeRecord(id, src, tgt, label, weight, fields), chars, numbers)
<1> DEFINE payload == <<2, id>> \o (<<src, tgt>> \o write_str(label) \o <<weight>>
                                       \o write_properties(order))
<1> DEFINE wl == write_str(label)
           wf == write_properties(order)
           ends == <<src, tgt>>
           a == ends \o wl
           b == a \o <<weight>>
           rest == b \o wf
<1>1. /\ Nat \subseteq numbers /\ numbers \subseteq Int /\ Len(label) \in Nat
      /\ wl \in Seq(numbers) /\ wl \in Cells /\ Len(wl) = 1 + Len(label)
      /\ wf \in Seq(numbers) /\ wf \in Cells /\ Len(wf) \in Nat \ {0}
  <2>1. Nat \subseteq numbers /\ numbers \subseteq Int
    BY DEF Alphabet
  <2>2. wl \in Seq(numbers) /\ Len(wl) = 1 + Len(label)
    BY TextWritten
  <2>3. wf \in Seq(numbers) /\ Len(wf) \in Nat \ {0}
    BY FieldsWritten
  <2> HIDE DEF wl, wf
  <2> QED BY <2>1, <2>2, <2>3, NumbersAreCells, LenProperties
<1>2. /\ <<2, id>> \in Seq(numbers) /\ Len(<<2, id>>) = 2 /\ <<2, id>> \in Cells /\ <<2, id>>[1] = 2
      /\ ends \in Seq(numbers) /\ Len(ends) = 2 /\ ends \in Cells
      /\ <<weight>> \in Seq(numbers) /\ Len(<<weight>>) = 1 /\ <<weight>> \in Cells
  BY <1>1 DEF Cells
<1>3. payload = <<2, id>> \o rest
  OBVIOUS
<1> HIDE DEF payload
<1> HIDE DEF wl, wf, ends
<1>4. a \in Seq(numbers) /\ a \in Cells /\ Len(a) = 3 + Len(label)
  <2>1. a \in Seq(numbers) /\ a \in Cells /\ Len(a) = Len(ends) + Len(wl)
    BY <1>1, <1>2, ConcatProperties, ZenonT(60) DEF Cells
  <2> QED BY <1>1, <1>2, <2>1
<1>5. b \in Seq(numbers) /\ b \in Cells /\ Len(b) = 4 + Len(label)
  <2>1. b \in Seq(numbers) /\ b \in Cells /\ Len(b) = Len(a) + 1
    BY <1>2, <1>4, ConcatProperties DEF Cells
  <2> QED BY <1>1, <1>4, <2>1
<1>6. rest \in Seq(numbers) /\ rest \in Cells /\ Len(rest) = 4 + Len(label) + Len(wf)
  <2>1. rest \in Seq(numbers) /\ rest \in Cells /\ Len(rest) = Len(b) + Len(wf)
    BY <1>1, <1>5, ConcatProperties DEF Cells
  <2> QED BY <1>1, <1>5, <2>1
<1> HIDE DEF rest
<1>7. /\ payload \in Seq(numbers) /\ Len(payload) = 2 + Len(rest) /\ payload[1] = 2
      /\ Len(payload) \in Nat
  <2>1. 2 \in numbers
    BY <1>1
  <2>2. rest \in Seq(numbers)
    BY <1>6
  <2>3. /\ <<2, id>> \o rest \in Seq(numbers) /\ Len(<<2, id>> \o rest) \in Nat
        /\ Len(<<2, id>> \o rest) = 2 + Len(rest) /\ (<<2, id>> \o rest)[1] = 2
    BY <2>1, <2>2, Heading
  <2> QED BY <1>3, <2>3
<1>8. Len(payload) = 6 + Len(label) + Len(wf)
  BY <1>1, <1>6, <1>7
<1> DEFINE l == Len(label)
           f == Len(wf)
           len == Len(payload)
<1>9. /\ l \in Nat /\ f \in Nat /\ len = 6 + l + f /\ Len(ends) = 2 /\ Len(a) = 3 + l
      /\ Len(b) = 4 + l
  BY <1>1, <1>2, <1>4, <1>5, <1>8
<1>10. ASSUME NEW data \in Cells, NEW pos \in Nat \ {0}, Agree(data, pos, payload)
       PROVE  Reads(decode_record(2, data, pos + 1), data, chars,
                    EdgeRecord(id, src, tgt, label, weight, fields), pos + len)
  <2> DEFINE m == pos + 2
             n == m + 2 + 1 + l
             o == n + 1
  <2>1. Agree(data, pos, <<2, id>>) /\ Agree(data, m, rest)
    <3>1. Agree(data, pos, <<2, id>> \o rest) /\ <<2, id>> \in Cells /\ rest \in Cells
      BY <1>2, <1>3, <1>6, <1>10
    <3>2. Agree(data, pos, <<2, id>>) /\ Agree(data, pos + Len(<<2, id>>), rest)
      BY <3>1, AgreeSplits
    <3> QED BY <1>2, <3>2
  <2>2. Agree(data, pos + 1, <<id>>)
    BY <1>1, <2>1, AgreeTwo
  <2> HIDE DEF l, f, len
  <2>3. /\ pos + 1 \in Nat \ {0} /\ m \in Nat \ {0} /\ m + 1 \in Nat \ {0}
        /\ m + 2 \in Nat \ {0} /\ n \in Nat \ {0} /\ o \in Nat \ {0}
        /\ m = (pos + 1) + 1 /\ m + 2 = (m + 1) + 1 /\ n = (m + 2) + 1 + l /\ o = n + 1
        /\ m + (4 + l) = o /\ m + (3 + l) = n /\ o + f = pos + len
    BY <1>9
  <2> HIDE DEF m, n, o
  <2>4. Agree(data, m, b) /\ Agree(data, o, wf)
    <3>1. m \in Nat \ {0} /\ b \in Cells /\ wf \in Cells /\ Agree(data, m, b \o wf)
      BY <1>1, <1>5, <2>1, <2>3 DEF rest
    <3> HIDE DEF b
    <3>2. Agree(data, m, b) /\ Agree(data, m + Len(b), wf)
      BY <3>1, AgreeSplits
    <3> QED BY <1>9, <2>3, <3>2
  <2> HIDE DEF b
  <2>5. Agree(data, m, a) /\ Agree(data, n, <<weight>>)
    <3>1. /\ m \in Nat \ {0} /\ a \in Cells /\ <<weight>> \in Cells
          /\ Agree(data, m, a \o <<weight>>)
      BY <1>2, <1>4, <2>3, <2>4 DEF b
    <3> HIDE DEF a
    <3>2. Agree(data, m, a) /\ Agree(data, m + Len(a), <<weight>>)
      BY <3>1, AgreeSplits
    <3> QED BY <1>9, <2>3, <3>2
  <2> HIDE DEF a
  <2>6. Agree(data, m, ends) /\ Agree(data, m + 2, wl)
    BY <1>1, <1>2, <1>9, <2>3, <2>5, AgreeSplits, ZenonT(60) DEF a
  <2>7. Agree(data, m, <<src>>) /\ Agree(data, m + 1, <<tgt>>)
    BY <1>1, <2>3, <2>6, AgreeTwo DEF ends
  <2>8. Agree(data, m + 2, write_str(label)) /\ Agree(data, o, write_properties(order))
    BY <2>4, <2>6 DEF wl, wf
  <2>9. n = (m + 2) + 1 + Len(label)
    BY <2>3 DEF l
  <2>10. Reads(decode_edge(data, pos + 1), data, chars,
               [op |-> "UpsertEdge", id |-> id,
                edge |-> [src |-> src, tgt |-> tgt, label |-> label, weight |-> weight,
                          fields |-> fields]], o + Len(write_properties(order)))
    BY <2>2, <2>3, <2>5, <2>7, <2>8, <2>9, ReadsEdge
  <2> QED BY <2>3, <2>10, DecodeTypes DEF EdgeRecord, wf, f
<1>11. Len(payload) >= 2
  BY <1>1, <1>7, <1>8
<1> QED
  BY <1>7, <1>10, <1>11 DEF ReadsBack, payload

LEMMA OtherRead ==
    ASSUME NEW chars, NEW numbers, Alphabet(chars, numbers), NEW id \in numbers,
           NEW type \in 3 .. 7
    PROVE  ReadsBack(<<type, id>> \o <<>>,
                     type, OtherRecord(type, id), chars, numbers)
<1> DEFINE payload == <<type, id>> \o <<>>
<1>1. Nat \subseteq numbers /\ numbers \subseteq Int
  BY DEF Alphabet
<1>2. payload = <<type, id>>
  BY <1>1
<1> HIDE DEF payload
<1>3. payload \in Seq(numbers) /\ Len(payload) = 2 /\ payload[1] = type
  BY <1>1, <1>2
<1>4. ASSUME NEW data \in Cells, NEW pos \in Nat \ {0}, Agree(data, pos, payload)
      PROVE  Reads(decode_record(type, data, pos + 1), data, chars,
                   OtherRecord(type, id), pos + Len(payload))
  <2> DEFINE c == read_cell(data, pos + 1)
             r == decode_record(type, data, pos + 1)
  <2>1. Agree(data, pos + 1, <<id>>)
    <3>1. type \in Int /\ id \in Int /\ Agree(data, pos, <<type, id>>)
      BY <1>1, <1>2, <1>4
    <3> QED BY <3>1, AgreeTwo
  <2>2. Reads(c, data, chars, id, (pos + 1) + 1)
    BY <1>1, <2>1, ReadsCell
  <2>3. r = IF c.ok THEN Got([op |-> Ops[type], id |-> c.val], c.pos) ELSE c
    BY DecodeTypes
  <2>4. (pos + 1) + 1 = pos + Len(payload)
    BY <1>3
  <2> HIDE DEF c, r
  <2>5. Reads(r, data, chars, OtherRecord(type, id), (pos + 1) + 1)
    <3>1. CASE ((pos + 1) + 1) - 1 =< Len(data)
      <4>1. c = Got(id, (pos + 1) + 1)
        BY <2>2, <3>1 DEF Reads
      <4>2. c.ok /\ c.val = id /\ c.pos = (pos + 1) + 1
        BY <4>1 DEF Got
      <4> QED BY <2>3, <3>1, <4>2 DEF Reads, OtherRecord
    <3>2. CASE ~(((pos + 1) + 1) - 1 =< Len(data))
      BY <2>2, <2>3, <3>2 DEF Reads
    <3> QED BY <3>1, <3>2
  <2> QED BY <2>4, <2>5 DEF r
<1> QED
  BY <1>3, <1>4 DEF ReadsBack, payload

LEMMA RecordRead ==
    ASSUME NEW chars, NEW numbers, Alphabet(chars, numbers),
           NEW rec \in Records(chars, numbers), NEW order \in Orders(rec)
    PROVE  LET payload == Payload(rec, order)
           IN  /\ payload \in Seq(numbers) /\ Len(payload) \in Nat /\ Len(payload) >= 2
               /\ payload[1] \in 1 .. 7
               /\ rec \notin TxnMarkers(numbers) => payload[1] \in 1 .. 4
               /\ \A data \in Cells, pos \in Nat \ {0} :
                     Agree(data, pos, payload) =>
                         Reads(decode_record(payload[1], data, pos + 1), data, chars,
                               rec, pos + Len(payload))
<1>1. PICK type \in 1 .. 7 : /\ ReadsBack(Payload(rec, order), type, rec, chars, numbers)
                             /\ rec \notin TxnMarkers(numbers) => type \in 1 .. 4
  <2>1. ASSUME NEW id \in numbers, NEW label \in Seq(chars),
               NEW fields \in FieldSets(chars, numbers), rec = NodeRecord(id, label, fields)
        PROVE  ReadsBack(Payload(rec, order), 1, rec, chars, numbers)
    <3>1. order \in SetToSeqs(fields)
      BY <2>1, NodePayload
    <3> QED BY <2>1, <3>1, NodePayload, NodeRead
  <2>2. ASSUME NEW id \in numbers, NEW src \in numbers, NEW tgt \in numbers,
               NEW label \in Seq(chars), NEW weight \in numbers,
               NEW fields \in FieldSets(chars, numbers),
               rec = EdgeRecord(id, src, tgt, label, weight, fields)
        PROVE  ReadsBack(Payload(rec, order), 2, rec, chars, numbers)
    <3>1. order \in SetToSeqs(fields)
      BY <2>2, EdgePayload
    <3> DEFINE payload == <<2, id>> \o (<<src, tgt>> \o write_str(label) \o <<weight>>
                                            \o write_properties(order))
    <3>2. Payload(rec, order) = payload
      BY <2>2, EdgePayload
    <3>3. ReadsBack(payload, 2, EdgeRecord(id, src, tgt, label, weight, fields), chars, numbers)
      BY <3>1, EdgeRead
    <3> HIDE DEF payload
    <3> QED BY <2>2, <3>2, <3>3
  <2>3. ASSUME NEW type \in 3 .. 7, NEW id \in numbers, rec = OtherRecord(type, id)
        PROVE  /\ ReadsBack(Payload(rec, order), type, rec, chars, numbers)
               /\ rec \notin TxnMarkers(numbers) => type \in 1 .. 4
    <3>1. ReadsBack(Payload(rec, order), type, rec, chars, numbers)
      BY <2>3, OtherPayload, OtherRead
    <3>2. CASE type \in 5 .. 7
      <4>1. Ops[type] \in {"BeginTxn", "CommitTxn", "RollbackTxn"}
        BY <3>2 DEF Ops
      <4> QED BY <2>3, <3>1, <4>1 DEF OtherRecord, TxnMarkers
    <3>3. CASE type \notin 5 .. 7
      BY <3>1, <3>3
    <3> QED BY <3>2, <3>3
  <2>4. 1 \in 1 .. 7 /\ 1 \in 1 .. 4 /\ 2 \in 1 .. 7 /\ 2 \in 1 .. 4 /\ 3 .. 7 \subseteq 1 .. 7
    OBVIOUS
  <2> QED BY <2>1, <2>2, <2>3, <2>4, RecordShapes
<1> DEFINE payload == Payload(rec, order)
<1>2. payload[1] = type
  BY <1>1 DEF ReadsBack
<1> QED
  BY <1>1, <1>2 DEF ReadsBack

LEMMA AdlerTwoCells ==
    ASSUME NEW c \in Cells
    PROVE  adler32(c) \in Cells /\ Len(adler32(c)) = 2
<1> DEFINE n == Len(c)
           A == Adler!State(c)
           S == {k \in 0 .. n : A[k] \in Int \X Int}
<1>1. n \in Nat /\ \A i \in 1 .. n : c[i] \in Int
  BY DEF Cells
<1>2. A[0] = <<1, 0>> /\ \A k \in Nat : A[k + 1] = AddCell(A[k], c[k + 1])
  BY Adler!StateAt
<1> HIDE DEF A
<1>3. 0 \in S
  <2>1. A[0] \in Int \X Int
    BY <1>2
  <2> QED BY <1>1, <2>1
<1>4. \A k \in 0 .. n - 1 : k \in S => k + 1 \in S
  <2> SUFFICES ASSUME NEW k \in 0 .. n - 1, k \in S PROVE k + 1 \in S
    OBVIOUS
  <2>1. k \in Nat /\ k + 1 \in 0 .. n /\ k + 1 \in 1 .. n
    BY <1>1
  <2>2. A[k][1] \in Int /\ A[k][2] \in Int /\ c[k + 1] \in Int
    BY <1>1, <2>1
  <2>3. AddCell(A[k], c[k + 1]) \in Int \X Int
    BY <2>2 DEF AddCell
  <2> QED BY <1>2, <2>1, <2>3
<1> HIDE DEF S
<1>5. n \in S
  <2>1. n \in 0 .. n
    BY <1>1
  <2> QED BY <1>1, <1>3, <1>4, <2>1, UpTo
<1>6. A[n] \in Int \X Int
  BY <1>5 DEF S
<1>7. adler32(c) = <<A[n][2], A[n][1]>>
  BY DEF adler32, A
<1> QED
  BY <1>6, <1>7 DEF Cells

-----------------------------------------------------------------------------
(* A record in a file.                                                     *)

LEMMA StoredAre ==
    ASSUME NEW format \in {"binary", "json"}, NEW chars, chars \subseteq Ascii
    PROVE  /\ Alphabet(chars, Numbers(format))
           /\ StoredRecords(format, chars) \subseteq Records(chars, Numbers(format))
           /\ format = "json" =>
                 \A rec \in StoredRecords(format, chars) : rec \notin TxnMarkers(Numbers(format))
<1>1. Alphabet(chars, Numbers(format))
  BY DEF Alphabet, Numbers
<1>2. StoredRecords(format, chars) \subseteq Records(chars, Numbers(format))
  BY DEF StoredRecords, Records
<1>3. ASSUME format = "json", NEW rec \in StoredRecords(format, chars)
      PROVE  rec \notin TxnMarkers(Numbers(format))
  BY <1>3 DEF StoredRecords, TxnMarkers, Upserts, Deletes
<1> QED
  BY <1>1, <1>2, <1>3

\* What is written of a record is read as that record, whatever it holds and in
\* whatever order the HashMap of its properties is iterated, and the reader
\* stops behind it.
THEOREM CodecRoundTrip ==
    ASSUME NEW format \in {"binary", "json"}, NEW rec \in StoredRecords(format, Ascii),
           NEW order \in Orders(rec)
    PROVE  LET payload == Payload(rec, order)
           IN  decode_record(payload[1], payload, 2) = Got(rec, Len(payload) + 1)
<1> DEFINE payload == Payload(rec, order)
           numbers == Numbers(format)
<1>1. Alphabet(Ascii, numbers) /\ rec \in Records(Ascii, numbers)
  BY StoredAre
<1>2. /\ payload \in Cells /\ Len(payload) \in Nat
      /\ \A data \in Cells, pos \in Nat \ {0} :
            Agree(data, pos, payload) =>
                Reads(decode_record(payload[1], data, pos + 1), data, Ascii,
                      rec, pos + Len(payload))
  <2>1. payload \in Seq(numbers)
    BY <1>1, RecordRead
  <2> QED BY <1>1, <2>1, RecordRead, NumbersAreCells
<1> HIDE DEF payload
<1>3. Agree(payload, 1, payload)
  BY <1>2 DEF Agree
<1>4. Reads(decode_record(payload[1], payload, 1 + 1), payload, Ascii, rec, 1 + Len(payload))
  BY <1>2, <1>3
<1>5. 1 + 1 = 2 /\ (1 + Len(payload)) - 1 =< Len(payload) /\ 1 + Len(payload) = Len(payload) + 1
  BY <1>2
<1> QED
  BY <1>4, <1>5 DEF Reads, payload

-----------------------------------------------------------------------------
(* A turn of the replay of a binary file.                                  *)

At(p, d) == [ok |-> TRUE, pos |-> p, disk |-> d]

\* The replay has d, and there is nothing but characters where it goes on.
InText(data, s, d) == \E p \in Nat \ {0} : s = At(p, d) /\ OnlyText(data, p, Silent)

LEMMA AtMoved ==
    ASSUME NEW p, NEW d, NEW q, NEW r, r = [At(p, d) EXCEPT !.pos = q]
    PROVE  r = At(q, d)
BY DEF At

LEMMA AtChanged ==
    ASSUME NEW p, NEW d, NEW q, NEW e, NEW r, r = [At(p, d) EXCEPT !.pos = q, !.disk = e]
    PROVE  r = At(q, e)
BY DEF At

LEMMA AtFields ==
    ASSUME NEW p, NEW d
    PROVE  At(p, d).ok /\ At(p, d).pos = p /\ At(p, d).disk = d
BY DEF At

LEMMA SilentIs == \A x \in Silent : x \in Int \ 1 .. 7
<1>1. Len(Ops) = 7
  BY DEF Ops
<1> QED
  BY <1>1 DEF Silent, Ascii, NonAscii

LEMMA NoText ==
    ASSUME NEW data \in Cells, NEW chars
    PROVE  OnlyText(data, Len(data) + 1, chars) /\ Len(data) + 1 \in Nat \ {0}
<1>1. Len(data) \in Nat
  BY DEF Cells
<1> QED
  BY <1>1 DEF OnlyText

LEMMA BinaryPieceIs ==
    ASSUME NEW chars, chars \subseteq Ascii, NEW rec \in StoredRecords("binary", chars),
           NEW order \in Orders(rec)
    PROVE  LET payload == Payload(rec, order)
               piece == Encode("binary", rec, order)
           IN  /\ payload \in Cells /\ Len(payload) \in Nat /\ Len(payload) >= 2
               /\ adler32(payload) \in Cells /\ Len(adler32(payload)) = 2
               /\ piece = payload \o adler32(payload)
               /\ piece \in Cells /\ Len(piece) \in Nat /\ Len(piece) = Len(payload) + 2
<1> DEFINE payload == Payload(rec, order)
           piece == Encode("binary", rec, order)
<1>1. Alphabet(chars, Numbers("binary")) /\ rec \in Records(chars, Numbers("binary"))
  BY StoredAre
<1>2. payload \in Seq(Numbers("binary")) /\ Len(payload) \in Nat /\ Len(payload) >= 2
  BY <1>1, RecordRead
<1>3. payload \in Cells
  BY <1>1, <1>2, NumbersAreCells
<1>4. piece = payload \o adler32(payload)
  BY DEF Encode, with_checksum
<1> HIDE DEF payload, piece
<1>5. adler32(payload) \in Cells /\ Len(adler32(payload)) = 2
  BY <1>3, AdlerTwoCells
<1>6. piece \in Cells /\ Len(piece) = Len(payload) + Len(adler32(payload))
  BY <1>3, <1>4, <1>5, ConcatProperties DEF Cells
<1>7. Len(piece) \in Nat /\ Len(piece) = Len(payload) + 2
  BY <1>2, <1>5, <1>6
<1> QED
  BY <1>2, <1>3, <1>4, <1>5, <1>6, <1>7 DEF payload, piece

\* What decoding makes of a record that the data agrees with.
LEMMA PieceDecoded ==
    ASSUME NEW chars, chars \subseteq Ascii, NEW rec \in StoredRecords("binary", chars),
           NEW order \in Orders(rec), NEW data \in Cells, NEW p \in Nat \ {0}, p =< Len(data),
           Agree(data, p, Encode("binary", rec, order))
    PROVE  LET payload == Payload(rec, order)
           IN  /\ Agree(data, p, payload)
               /\ Agree(data, p + Len(payload), adler32(payload))
               /\ Reads(decode_record(data[p], data, p + 1), data, chars, rec, p + Len(payload))
<1> DEFINE payload == Payload(rec, order)
           csum == adler32(payload)
<1>1. /\ payload \in Cells /\ Len(payload) \in Nat /\ Len(payload) >= 2 /\ csum \in Cells
      /\ Encode("binary", rec, order) = payload \o csum
  BY BinaryPieceIs
<1>2. /\ \A c \in Cells, q \in Nat \ {0} :
            Agree(c, q, payload) =>
                Reads(decode_record(payload[1], c, q + 1), c, chars, rec, q + Len(payload))
  <2>1. Alphabet(chars, Numbers("binary")) /\ rec \in Records(chars, Numbers("binary"))
    BY StoredAre
  <2> QED BY <2>1, RecordRead
<1> HIDE DEF payload, csum
<1>3. Agree(data, p, payload) /\ Agree(data, p + Len(payload), csum)
  <2>1. Agree(data, p, payload \o csum)
    BY <1>1
  <2> QED BY <1>1, <2>1, AgreeSplits
<1>4. data[p] = payload[1]
  <2>1. 1 \in 1 .. Len(payload) /\ p + 1 - 1 = p
    BY <1>1
  <2> QED BY <1>3, <2>1 DEF Agree
<1> QED
  BY <1>2, <1>3, <1>4 DEF payload, csum

\* A record that is there whole is applied.
LEMMA WholeTurn ==
    ASSUME NEW rec \in StoredRecords("binary", Ascii), NEW order \in Orders(rec),
           NEW data \in Cells, NEW p \in Nat \ {0}, NEW d, NEW q,
           Agree(data, p, Encode("binary", rec, order)),
           q = p + Len(Encode("binary", rec, order)), q - 1 =< Len(data)
    PROVE  NextRecord(data, At(p, d)) = At(q, Apply(d, rec))
<1> DEFINE payload == Payload(rec, order)
           csum == adler32(payload)
           decoded == decode_record(data[p], data, p + 1)
           m == p + Len(payload)
           bytes == read_bytes(data, decoded.pos, 2)
<1>1. /\ payload \in Cells /\ Len(payload) \in Nat /\ Len(payload) >= 2 /\ csum \in Cells
      /\ Len(csum) = 2
      /\ Len(Encode("binary", rec, order)) = Len(payload) + 2
  BY BinaryPieceIs
<1>2. Len(data) \in Nat
  BY DEF Cells
<1>3. /\ q \in Nat /\ p =< Len(data) /\ m \in Nat \ {0} /\ q = m + 2
      /\ m - 1 =< Len(data) /\ m + 2 - 1 =< Len(data)
  BY <1>1, <1>2
<1>4. /\ Agree(data, p, payload) /\ Agree(data, m, csum)
      /\ Reads(decoded, data, Ascii, rec, m)
  BY <1>3, PieceDecoded
<1>5. decoded.ok /\ decoded.pos = m /\ decoded.val = rec
  BY <1>3, <1>4 DEF Reads, Got
<1> HIDE DEF payload, csum, decoded
<1>6. SubSeq(data, p, m - 1) = payload
  BY <1>1, <1>3, <1>4, HeldWhole
<1>7. SubSeq(data, m, m + 2 - 1) = csum
  <2>1. m + Len(csum) - 1 = m + 2 - 1
    BY <1>1
  <2> HIDE DEF m
  <2>2. SubSeq(data, m, m + Len(csum) - 1) = csum
    BY <1>1, <1>3, <1>4, <2>1, HeldWhole
  <2> QED BY <2>1, <2>2
<1> HIDE DEF m
<1>8. bytes.ok /\ bytes.val = csum /\ bytes.pos = q
  BY <1>2, <1>3, <1>5, <1>7 DEF read_bytes, Got
<1>9. ChecksumAgrees(bytes.val, SubSeq(data, p, decoded.pos - 1))
  BY <1>5, <1>6, <1>8 DEF ChecksumAgrees, csum
<1>10. At(p, d).pos = p /\ At(p, d).disk = d
  BY DEF At
<1>11. NextRecord(data, At(p, d)) = [At(p, d) EXCEPT !.pos = q, !.disk = Apply(@, rec)]
  BY <1>5, <1>8, <1>9, <1>10 DEF NextRecord, decoded
<1> QED
  BY <1>11 DEF At

\* Where nothing is decoded and only text follows, nothing is applied.
LEMMA NothingDecoded ==
    ASSUME NEW data \in Cells, NEW p \in Nat \ {0}, NEW d,
           ~decode_record(data[p], data, p + 1).ok,
           decode_record(data[p], data, p + 1).pos \in Nat \ {0},
           OnlyText(data, decode_record(data[p], data, p + 1).pos, Silent)
    PROVE  InText(data, NextRecord(data, At(p, d)), d)
<1> DEFINE decoded == decode_record(data[p], data, p + 1)
           m == decoded.pos
           bytes == read_bytes(data, m, 2)
           s == At(p, d)
           end == [s EXCEPT !.pos = Len(data) + 1, !.disk = d]
           r == NextRecord(data, s)
<1>1. Len(data) \in Nat /\ ~decoded.ok /\ m \in Nat \ {0} /\ OnlyText(data, m, Silent)
  BY DEF Cells
<1>2. s.pos = p /\ s.disk = d
  BY AtFields
<1>3. \/ r = end
      \/ bytes.ok /\ r = [s EXCEPT !.pos = bytes.pos]
  BY <1>1, <1>2 DEF NextRecord, Unfinished
<1>4. ASSUME r = end
      PROVE  r = At(Len(data) + 1, d) /\ OnlyText(data, Len(data) + 1, Silent)
  <2>1. r = [At(p, d) EXCEPT !.pos = Len(data) + 1, !.disk = d]
    BY <1>4
  <2> HIDE DEF r
  <2>2. r = At(Len(data) + 1, d)
    BY <2>1 DEF At
  <2> QED BY <2>2, NoText
<1>5. ASSUME bytes.ok, r = [s EXCEPT !.pos = bytes.pos]
      PROVE  r = At(m + 2, d) /\ OnlyText(data, m + 2, Silent)
  <2>1. bytes.pos = m + 2
    BY <1>5 DEF read_bytes, Got, Err
  <2>2. OnlyText(data, m + 2, Silent)
    BY <1>1 DEF OnlyText
  <2>3. r = At(bytes.pos, d)
    BY <1>5, AtMoved
  <2> QED BY <2>1, <2>2, <2>3
<1> HIDE DEF r, end, bytes, s, m, decoded
<1>6. Len(data) + 1 \in Nat \ {0} /\ m + 2 \in Nat \ {0}
  BY <1>1
<1>7. InText(data, r, d)
  BY <1>3, <1>4, <1>5, <1>6 DEF InText
<1> QED
  BY <1>7 DEF r, s

\* A record that is cut short is passed over, and what follows of it is text.
LEMMA TornTurn ==
    ASSUME NEW rec \in StoredRecords("binary", Silent), NEW order \in Orders(rec),
           NEW data \in Cells, NEW p \in Nat \ {0}, NEW d,
           Agree(data, p, Encode("binary", rec, order)),
           p =< Len(data), Len(data) < p + Len(Encode("binary", rec, order)) - 1
    PROVE  InText(data, NextRecord(data, At(p, d)), d)
<1> DEFINE payload == Payload(rec, order)
           decoded == decode_record(data[p], data, p + 1)
           m == p + Len(payload)
           bytes == read_bytes(data, decoded.pos, 2)
           s == At(p, d)
<1>1. /\ Silent \subseteq Ascii /\ Len(data) \in Nat
      /\ Len(payload) \in Nat /\ Len(Encode("binary", rec, order)) = Len(payload) + 2
  <2>1. Silent \subseteq Ascii /\ Len(data) \in Nat
    BY AsciiIsInt DEF Cells
  <2> QED BY <2>1, BinaryPieceIs
<1>2. Reads(decoded, data, Silent, rec, m)
  BY <1>1, PieceDecoded
<1>3. m \in Nat \ {0} /\ m + 1 > Len(data)
  BY <1>1
<1>4. CASE m - 1 =< Len(data)
  <2>1. decoded.ok /\ decoded.pos = m
    BY <1>2, <1>4 DEF Reads, Got
  <2> HIDE DEF decoded, m
  <2>2. ~bytes.ok
    <3>1. m + 2 - 1 > Len(data)
      BY <1>1, <1>3
    <3> QED BY <2>1, <3>1 DEF read_bytes, Err
  <2>3. s.pos = p /\ s.disk = d
    BY DEF At
  <2>4. NextRecord(data, s) = [s EXCEPT !.pos = Len(data) + 1, !.disk = d]
    BY <2>2, <2>3 DEF NextRecord, Unfinished, decoded
  <2>5. NextRecord(data, s) = At(Len(data) + 1, d) /\ OnlyText(data, Len(data) + 1, Silent)
    <3> DEFINE r == NextRecord(data, s)
    <3>1. r = [At(p, d) EXCEPT !.pos = Len(data) + 1, !.disk = d]
      BY <2>4
    <3> HIDE DEF r
    <3>2. r = At(Len(data) + 1, d)
      BY <3>1 DEF At
    <3> QED BY <3>2, NoText DEF r
  <2>6. Len(data) + 1 \in Nat \ {0}
    BY <1>1
  <2> QED BY <2>5, <2>6 DEF InText
<1>5. CASE ~(m - 1 =< Len(data))
  BY <1>2, <1>5, NothingDecoded DEF Reads
<1> QED
  BY <1>4, <1>5

\* A character is the type of no record.
LEMMA TextTurn ==
    ASSUME NEW data \in Cells, NEW s, NEW d, InText(data, s, d), s.pos =< Len(data)
    PROVE  InText(data, NextRecord(data, s), d)
<1>1. PICK p \in Nat \ {0} : s = At(p, d) /\ OnlyText(data, p, Silent)
  BY DEF InText
<1>2. s.pos = p /\ Len(data) \in Nat
  BY <1>1 DEF At, Cells
<1>3. data[p] \in Silent
  BY <1>1, <1>2 DEF OnlyText
<1>4. data[p] \in Int \ 1 .. 7
  BY <1>3, SilentIs
<1>5. decode_record(data[p], data, p + 1) = Err(p + 1)
  BY <1>4, DecodeTypes
<1>6. OnlyText(data, p + 1, Silent) /\ p + 1 \in Nat \ {0}
  BY <1>1 DEF OnlyText
<1> QED
  BY <1>1, <1>5, <1>6, NothingDecoded DEF Err

-----------------------------------------------------------------------------
(* A turn of the replay of a JSON file.                                    *)

LEMMA JsonKeepsValue ==
    ASSUME NEW v \in Values(Ascii, Nat)
    PROVE  JsonValue(v) = v
<1>1. v # [tag |-> VFloat, data |-> <<NaN>>]
  <2>1. SUFFICES ASSUME v = [tag |-> VFloat, data |-> <<NaN>>] PROVE FALSE
    OBVIOUS
  <2>2. v.tag = VFloat /\ v.data = <<NaN>> /\ v.data[1] = NaN
    BY <2>1
  <2>3. v.data \in [1 .. 1 -> Nat]
    BY <2>2 DEF Values, VNull, VBoolean, VInteger, VFloat, VText
  <2>4. v.data[1] \in Nat
    BY <2>3
  <2> QED BY <2>2, <2>4 DEF NaN
<1> QED
  BY <1>1 DEF JsonValue

\* JSON has a number for every value that is not the NaN.
LEMMA JsonLineIs ==
    ASSUME NEW rec \in StoredRecords("json", Ascii), NEW order \in Orders(rec)
    PROVE  JsonLine(rec, order) = (<<Open>> \o Payload(rec, order)) \o <<Close, Newline>>
<1> DEFINE numbers == Numbers("json")
           jsonOrder == [i \in DOMAIN order |-> <<order[i][1], JsonValue(order[i][2])>>]
           Goal == Payload(JsonRecord(rec), jsonOrder) = Payload(rec, order)
<1>1. numbers = Nat /\ Alphabet(Ascii, numbers) /\ rec \in Records(Ascii, numbers)
  BY StoredAre DEF Numbers
<1>2. ASSUME order \in Seq(Pairs(Ascii, Nat)) PROVE jsonOrder = order
  <2>1. order = [i \in DOMAIN order |-> order[i]] /\ DOMAIN order = 1 .. Len(order)
    BY <1>2
  <2>2. ASSUME NEW i \in DOMAIN order
        PROVE  <<order[i][1], JsonValue(order[i][2])>> = order[i]
    <3>1. order[i] \in Pairs(Ascii, Nat)
      BY <1>2, <2>1
    <3>2. PICK key \in Seq(Ascii), value \in Values(Ascii, Nat) : order[i] = <<key, value>>
      BY <3>1, PairOf
    <3>3. order[i][1] = key /\ order[i][2] = value
      BY <3>2
    <3> QED BY <3>2, <3>3, JsonKeepsValue
  <2> QED BY <2>1, <2>2
<1>3. ASSUME NEW id \in numbers, NEW label \in Seq(Ascii), NEW fields \in FieldSets(Ascii, numbers),
             rec = NodeRecord(id, label, fields)
      PROVE  Goal
  <2>1. order \in SetToSeqs(fields)
    BY <1>3, NodePayload
  <2>2. order \in Seq(Pairs(Ascii, Nat))
    BY <1>1, <2>1, Listings DEF Listing
  <2>3. JsonRecord(rec) = rec
    BY <1>3 DEF JsonRecord, NodeRecord
  <2> QED BY <1>2, <2>2, <2>3
<1>4. ASSUME NEW id \in numbers, NEW src \in numbers, NEW tgt \in numbers,
             NEW label \in Seq(Ascii), NEW weight \in numbers,
             NEW fields \in FieldSets(Ascii, numbers),
             rec = EdgeRecord(id, src, tgt, label, weight, fields)
      PROVE  Goal
  <2>1. order \in SetToSeqs(fields)
    BY <1>4, EdgePayload
  <2>2. order \in Seq(Pairs(Ascii, Nat))
    BY <1>1, <2>1, Listings DEF Listing
  <2>3. JsonRecord(rec) = rec
    <3>1. rec.edge.weight = weight /\ weight # NaN
      BY <1>1, <1>4 DEF EdgeRecord, NaN
    <3> QED BY <3>1 DEF JsonRecord
  <2> QED BY <1>2, <2>2, <2>3
<1>5. ASSUME NEW type \in 3 .. 7, NEW id \in numbers, rec = OtherRecord(type, id)
      PROVE  Goal
  <2>1. rec.op = Ops[type] /\ Ops[type] # "UpsertEdge"
    BY <1>5 DEF OtherRecord, Ops
  <2>2. JsonRecord(rec) = rec
    BY <2>1 DEF JsonRecord
  <2> QED BY <1>5, <2>2, OtherPayload
<1>6. Goal
  BY <1>1, <1>3, <1>4, <1>5, RecordShapes
<1> QED
  BY <1>6 DEF JsonLine

LEMMA LineEndIs ==
    ASSUME NEW data, NEW p \in Nat, NEW end \in p .. Len(data), Len(data) \in Nat,
           data[end] = Newline, \A i \in p .. end - 1 : data[i] # Newline
    PROVE  LineEnd(data, p) = end
<1> DEFINE P(e) == /\ e =< Len(data) => data[e] = Newline
                   /\ \A i \in p .. e - 1 : data[i] # Newline
<1>1. end \in p .. Len(data) + 1 /\ P(end)
  OBVIOUS
<1>2. ASSUME NEW e \in p .. Len(data) + 1, P(e) PROVE e = end
  <2>1. ~(e < end)
    <3> SUFFICES ASSUME e < end PROVE FALSE
      OBVIOUS
    <3>1. e \in p .. end - 1 /\ e =< Len(data)
      OBVIOUS
    <3> QED BY <1>2, <3>1
  <2>2. ~(end < e)
    <3> SUFFICES ASSUME end < e PROVE FALSE
      OBVIOUS
    <3>1. end \in p .. e - 1
      OBVIOUS
    <3> QED BY <1>2, <3>1
  <2> QED BY <2>1, <2>2
<1>3. LineEnd(data, p) = CHOOSE e \in p .. Len(data) + 1 : P(e)
  BY DEF LineEnd
<1> HIDE DEF P
<1> QED
  BY <1>1, <1>2, <1>3

\* A line of the JSON log is read as the record that was written.
THEOREM LineRoundTrip ==
    ASSUME NEW rec \in StoredRecords("json", Ascii), NEW order \in Orders(rec),
           NEW line, line = <<Open>> \o Payload(rec, order) \o <<Close>>
    PROVE  from_str(line).ok /\ from_str(line).val = rec
<1> DEFINE payload == Payload(rec, order)
           len == Len(payload)
           n == Len(line)
<1>1. /\ Alphabet(Ascii, Numbers("json")) /\ Numbers("json") = Nat
      /\ rec \in Records(Ascii, Numbers("json")) /\ rec \notin TxnMarkers(Numbers("json"))
  BY StoredAre DEF Numbers
<1>2. payload \in Seq(Nat) /\ len \in Nat /\ len >= 2 /\ payload[1] \in 1 .. 4
  BY <1>1, RecordRead
<1>3. payload \in Cells /\ \A i \in 1 .. len : payload[i] \in Nat
  BY <1>1, <1>2, NumbersAreCells, ElementOfSeq
<1> HIDE DEF payload
<1>4. line = (<<Open>> \o payload) \o <<Close>>
  BY DEF payload
<1>5. /\ <<Open>> \o payload \in Cells /\ Len(<<Open>> \o payload) = 1 + len
      /\ (<<Open>> \o payload)[1] = Open
      /\ \A i \in 1 .. len : (<<Open>> \o payload)[i + 1] = payload[i]
  <2>1. <<Open>> \in Cells /\ Len(<<Open>>) = 1 /\ <<Open>>[1] = Open
    BY DEF Cells, Open
  <2> QED BY <1>2, <1>3, <2>1 DEF Cells
<1>6. /\ line \in Cells /\ n = len + 2 /\ line[1] = Open /\ line[n] = Close
      /\ \A i \in 1 .. len : line[i + 1] = payload[i]
  <2> DEFINE head == <<Open>> \o payload
  <2>1. <<Close>> \in Cells /\ Len(<<Close>>) = 1 /\ <<Close>>[1] = Close
    BY DEF Cells, Close
  <2>2. head \in Cells /\ Len(head) = 1 + len /\ line = head \o <<Close>>
    BY <1>4, <1>5
  <2> HIDE DEF head, len
  <2>3. /\ line \in Cells /\ Len(line) = (1 + len) + 1
        /\ \A i \in 1 .. (1 + len) + 1 :
              line[i] = IF i <= 1 + len THEN head[i] ELSE <<Close>>[i - (1 + len)]
    <3>1. /\ head \o <<Close>> \in Cells
          /\ Len(head \o <<Close>>) = Len(head) + Len(<<Close>>)
          /\ \A i \in 1 .. Len(head) + Len(<<Close>>) :
                (head \o <<Close>>)[i] =
                    IF i <= Len(head) THEN head[i] ELSE <<Close>>[i - Len(head)]
      BY <2>1, <2>2, ConcatProperties DEF Cells
    <3> QED BY <2>1, <2>2, <3>1
  <2>4. line[1] = Open /\ line[n] = Close
    <3>1. 1 \in 1 .. (1 + len) + 1 /\ 1 <= 1 + len /\ n \in 1 .. (1 + len) + 1 /\ ~(n <= 1 + len)
          /\ n - (1 + len) = 1
      BY <1>2, <2>3
    <3> QED BY <1>5, <2>1, <2>3, <3>1 DEF head
  <2>5. ASSUME NEW i \in 1 .. len PROVE line[i + 1] = payload[i]
    <3>1. i + 1 \in 1 .. (1 + len) + 1 /\ i + 1 <= 1 + len
      BY <1>2
    <3> QED BY <1>5, <2>3, <3>1 DEF head, len
  <2> QED BY <1>2, <2>3, <2>4, <2>5
<1>7. SubSeq(line, 2, n - 1) = payload
  <2> DEFINE e == n - 1
  <2>1. e \in Nat /\ e =< Len(line) /\ 2 =< e + 1 /\ e - 2 + 1 = len /\ 2 \in Nat \ {0}
    BY <1>2, <1>6
  <2> HIDE DEF e
  <2>2. /\ SubSeq(line, 2, e) \in Cells
        /\ Len(SubSeq(line, 2, e)) = e - 2 + 1
        /\ \A i \in 1 .. e - 2 + 1 : SubSeq(line, 2, e)[i] = line[2 + i - 1]
    BY <1>6, <2>1, CutOut
  <2>3. \A i \in 1 .. len : line[2 + i - 1] = payload[i]
    <3> TAKE i \in 1 .. len
    <3>1. 2 + i - 1 = i + 1
      BY <1>2
    <3> QED BY <1>6, <3>1
  <2>4. SubSeq(line, 2, e) = payload
    <3> DEFINE cut == SubSeq(line, 2, e)
    <3>1. cut \in Seq(Int) /\ Len(cut) = Len(payload) /\ payload \in Seq(Int)
      BY <1>3, <2>1, <2>2 DEF Cells
    <3>2. \A i \in 1 .. Len(cut) : cut[i] = payload[i]
      BY <2>1, <2>2, <2>3
    <3> HIDE DEF cut
    <3>3. cut = payload
      BY <3>1, <3>2, SeqEqual
    <3> QED BY <3>3 DEF cut
  <2> QED BY <2>4 DEF e
<1> DEFINE r == decode_record(payload[1], payload, 2)
<1>8. r.ok /\ r.val = rec /\ r.pos = n - 1
  <2>1. r = Got(rec, len + 1)
    BY CodecRoundTrip DEF payload
  <2>2. len + 1 = n - 1
    BY <1>2, <1>6
  <2> HIDE DEF r, n, len
  <2> QED BY <2>1, <2>2 DEF Got
<1>9. ~(\E i \in DOMAIN payload : payload[i] < 0)
  <2>1. \A x \in Nat : ~(x < 0)
    OBVIOUS
  <2>2. DOMAIN payload = 1 .. len
    BY <1>2
  <2> QED BY <1>3, <2>1, <2>2
<1>10. ~(n < 4)
  BY <1>2, <1>6
<1> HIDE DEF r
<1>11. from_str(line) = r
  BY <1>2, <1>6, <1>7, <1>8, <1>9, <1>10 DEF from_str, r
<1> QED
  BY <1>8, <1>11

\* A line that is there whole is applied.
LEMMA LineTurn ==
    ASSUME NEW rec \in StoredRecords("json", Ascii), NEW order \in Orders(rec),
           NEW data \in Cells, NEW p \in Nat \ {0}, NEW d, NEW q,
           Agree(data, p, Encode("json", rec, order)),
           q = p + Len(Encode("json", rec, order)), q - 1 =< Len(data)
    PROVE  NextLine(data, At(p, d)) = At(q, Apply(d, rec))
<1> DEFINE payload == Payload(rec, order)
           len == Len(payload)
           piece == Encode("json", rec, order)
           body == (<<Open>> \o payload) \o <<Close>>
           end == p + len + 2
           line == SubSeq(data, p, end - 1)
<1>1. /\ Alphabet(Ascii, Numbers("json")) /\ Numbers("json") = Nat
      /\ rec \in Records(Ascii, Numbers("json"))
  BY StoredAre DEF Numbers
<1>2. payload \in Seq(Nat) /\ len \in Nat
  BY <1>1, RecordRead
<1>3. payload \in Cells /\ \A i \in 1 .. len : payload[i] \in Nat
  BY <1>1, <1>2, NumbersAreCells, ElementOfSeq
<1>4. piece = (<<Open>> \o payload) \o <<Close, Newline>>
  BY JsonLineIs DEF Encode
<1>5. from_str(body).ok /\ from_str(body).val = rec
  BY LineRoundTrip
<1> HIDE DEF payload, piece
<1>6. /\ <<Open>> \o payload \in Cells /\ Len(<<Open>> \o payload) = 1 + len
      /\ (<<Open>> \o payload)[1] = Open
      /\ \A i \in 1 .. len : (<<Open>> \o payload)[i + 1] = payload[i]
  <2>1. <<Open>> \in Cells /\ Len(<<Open>>) = 1 /\ <<Open>>[1] = Open
    BY DEF Cells, Open
  <2> QED BY <1>2, <1>3, <2>1 DEF Cells
<1> DEFINE head == <<Open>> \o payload
<1>7. <<Close>> \in Cells /\ <<Newline>> \in Cells /\ <<Close, Newline>> = <<Close>> \o <<Newline>>
      /\ Len(<<Close>>) = 1 /\ Len(<<Newline>>) = 1 /\ <<Newline>>[1] = Newline
      /\ <<Close>>[1] = Close
  BY DEF Cells, Close, Newline
<1>8. head \in Cells /\ Len(head) = 1 + len /\ body = head \o <<Close>>
      /\ piece = (head \o <<Close>>) \o <<Newline>>
  <2>1. head \in Cells /\ Len(head) = 1 + len
    BY <1>6
  <2>2. (head \o <<Close>>) \o <<Newline>> = head \o (<<Close>> \o <<Newline>>)
    BY <1>7, <2>1, ConcatAssociative, SMTT(30) DEF Cells
  <2> HIDE DEF head
  <2> QED BY <1>4, <1>7, <2>1, <2>2 DEF head
<1>9. /\ body \in Cells /\ Len(body) = len + 2
      /\ \A i \in 1 .. len + 1 : body[i] = head[i]
      /\ body[len + 2] = Close
  <2> HIDE DEF head, len
  <2>1. /\ body \in Cells /\ Len(body) = (1 + len) + 1
        /\ \A i \in 1 .. (1 + len) + 1 :
              body[i] = IF i <= 1 + len THEN head[i] ELSE <<Close>>[i - (1 + len)]
    <3>1. /\ head \o <<Close>> \in Cells
          /\ Len(head \o <<Close>>) = Len(head) + Len(<<Close>>)
          /\ \A i \in 1 .. Len(head) + Len(<<Close>>) :
                (head \o <<Close>>)[i] =
                    IF i <= Len(head) THEN head[i] ELSE <<Close>>[i - Len(head)]
      BY <1>7, <1>8, ConcatProperties DEF Cells
    <3> HIDE DEF body
    <3> QED BY <1>7, <1>8, <3>1 DEF head
  <2>2. ASSUME NEW i \in 1 .. len + 1 PROVE body[i] = head[i]
    <3>1. i \in 1 .. (1 + len) + 1 /\ i <= 1 + len
      BY <1>2
    <3> QED BY <2>1, <3>1
  <2>3. body[len + 2] = Close
    <3>1. len + 2 \in 1 .. (1 + len) + 1 /\ ~(len + 2 <= 1 + len) /\ (len + 2) - (1 + len) = 1
      BY <1>2
    <3> QED BY <1>7, <2>1, <3>1
  <2> QED BY <1>2, <2>1, <2>2, <2>3, SMTT(30)
<1>10. \A i \in 1 .. len + 2 : body[i] # Newline
  <2> SUFFICES ASSUME NEW i \in 1 .. len + 2 PROVE body[i] # Newline
    OBVIOUS
  <2>1. CASE i = 1
    BY <1>2, <1>6, <1>9, <2>1 DEF Open, Newline
  <2>2. CASE i \in 2 .. len + 1
    <3>1. i - 1 \in 1 .. len /\ (i - 1) + 1 = i /\ i \in 1 .. len + 1
      BY <1>2, <2>2
    <3>2. body[i] = payload[i - 1]
      BY <1>6, <1>9, <3>1
    <3> QED BY <1>3, <3>1, <3>2 DEF Newline
  <2>3. CASE i = len + 2
    BY <1>9, <2>3 DEF Close, Newline
  <2> HIDE DEF head, body, len
  <2>4. i = 1 \/ i \in 2 .. len + 1 \/ i = len + 2
    BY <1>2
  <2> QED BY <2>1, <2>2, <2>3, <2>4
<1> HIDE DEF head, body, len
<1>11. Len(piece) = len + 3 /\ piece = body \o <<Newline>>
  <2>1. piece = body \o <<Newline>>
    BY <1>8 DEF body, head
  <2>2. Len(piece) = Len(body) + 1
    BY <1>7, <1>9, <2>1, ConcatProperties DEF Cells
  <2> QED BY <1>2, <1>9, <2>1, <2>2
<1>12. q = end + 1 /\ end \in p .. Len(data) /\ Len(data) \in Nat /\ end = p + Len(body)
       /\ end \in Nat \ {0} /\ end - 1 = p + Len(body) - 1 /\ p + Len(body) - 1 =< Len(data)
  <2>1. Len(data) \in Nat
    BY DEF Cells
  <2>2. q = p + (len + 3) /\ q - 1 =< Len(data)
    BY <1>11 DEF piece
  <2>3. len \in Nat /\ Len(body) = len + 2
    BY <1>2, <1>9 DEF len
  <2> HIDE DEF piece
  <2> QED BY <2>1, <2>2, <2>3
<1>13. Agree(data, p, body) /\ Agree(data, end, <<Newline>>)
  <2>1. Agree(data, p, body \o <<Newline>>)
    BY <1>11 DEF piece
  <2>2. Agree(data, p, body) /\ Agree(data, p + Len(body), <<Newline>>)
    BY <1>7, <1>9, <2>1, AgreeSplits
  <2> QED BY <1>12, <2>2
<1>14. LineEnd(data, p) = end
  <2>1. data[end] = Newline
    <3>1. 1 \in 1 .. Len(<<Newline>>) /\ end + 1 - 1 = end
      BY <1>7, <1>12
    <3> QED BY <1>7, <1>12, <1>13, <3>1 DEF Agree
  <2>2. ASSUME NEW i \in p .. end - 1 PROVE data[i] # Newline
    <3>1. i - p + 1 \in 1 .. Len(body) /\ p + (i - p + 1) - 1 = i /\ i =< Len(data)
      BY <1>12
    <3>2. data[i] = body[i - p + 1]
      BY <1>13, <3>1 DEF Agree
    <3> QED BY <1>9, <1>10, <3>1, <3>2
  <2> HIDE DEF end
  <2>3. p \in Nat
    OBVIOUS
  <2> QED BY <1>12, <2>1, <2>2, <2>3, LineEndIs
<1>15. line = body
  BY <1>9, <1>12, <1>13, HeldWhole
<1>16. line # <<>>
  <2>1. Len(line) # Len(<<>>)
    BY <1>2, <1>9, <1>15
  <2> QED BY <2>1
<1> HIDE DEF end
<1>17. At(p, d).pos = p /\ At(p, d).disk = d
  BY AtFields
<1> DEFINE r == NextLine(data, At(p, d))
<1>18. r = [At(p, d) EXCEPT !.pos = q, !.disk = Apply(@, rec)]
  BY <1>5, <1>12, <1>14, <1>15, <1>16, <1>17 DEF NextLine, body
<1> HIDE DEF r
<1>19. r = At(q, Apply(d, rec))
  BY <1>18 DEF At
<1> QED
  BY <1>19 DEF r

-----------------------------------------------------------------------------
(* The replay of a file.                                                   *)

LEMMA PieceIs ==
    ASSUME NEW format \in {"binary", "json"}, NEW rec \in StoredRecords(format, Ascii),
           NEW order \in Orders(rec)
    PROVE  Encode(format, rec, order) \in Cells /\ Len(Encode(format, rec, order)) \in Nat \ {0}
<1>1. CASE format = "binary"
  <2> DEFINE payload == Payload(rec, order)
             piece == Encode("binary", rec, order)
  <2>1. /\ Len(payload) \in Nat /\ Len(payload) >= 2
        /\ piece \in Cells /\ Len(piece) \in Nat /\ Len(piece) = Len(payload) + 2
    BY <1>1, BinaryPieceIs
  <2> HIDE DEF payload, piece
  <2>2. Len(piece) \in Nat \ {0}
    BY <2>1
  <2> QED BY <1>1, <2>1, <2>2 DEF piece
<1>2. CASE format = "json"
  <2> DEFINE payload == Payload(rec, order)
             piece == Encode("json", rec, order)
  <2>1. Alphabet(Ascii, Numbers("json")) /\ rec \in Records(Ascii, Numbers("json"))
    BY <1>2, StoredAre
  <2>2. payload \in Cells /\ Len(payload) \in Nat
    BY <2>1, RecordRead, NumbersAreCells
  <2>3. piece = (<<Open>> \o payload) \o <<Close, Newline>>
    BY <1>2, JsonLineIs DEF Encode
  <2> HIDE DEF payload, piece
  <2>4. <<Open>> \in Cells /\ Len(<<Open>>) = 1 /\ <<Close, Newline>> \in Cells
        /\ Len(<<Close, Newline>>) = 2
    BY DEF Cells, Open, Close, Newline
  <2>5. <<Open>> \o payload \in Cells /\ Len(<<Open>> \o payload) = 1 + Len(payload)
    BY <2>2, <2>4, ConcatProperties DEF Cells
  <2> DEFINE head == <<Open>> \o payload
  <2>6. head \in Cells /\ Len(head) = 1 + Len(payload) /\ piece = head \o <<Close, Newline>>
    BY <2>3, <2>5
  <2> HIDE DEF head
  <2>7. piece \in Cells /\ Len(piece) = Len(head) + 2
    BY <2>4, <2>6, ConcatProperties DEF Cells
  <2>8. Len(piece) \in Nat \ {0}
    BY <2>2, <2>6, <2>7
  <2> QED BY <1>2, <2>7, <2>8 DEF piece
<1> QED
  BY <1>1, <1>2

LEMMA HeaderIs ==
    ASSUME NEW format \in {"binary", "json"}
    PROVE  NewFile(format) \in Cells /\ Len(NewFile(format)) \in Nat
BY DEF NewFile, Header, Magic, Version, Cells

\* One turn of the loop over the file.
ScanTurn(format, data, s) ==
    IF ~s.ok \/ s.pos > Len(data) THEN s
    ELSE IF format = "binary" THEN NextRecord(data, s) ELSE NextLine(data, s)

States(format, data) == Scan!State([format |-> format, data |-> data])

LEMMA ScanIs ==
    ASSUME NEW format, NEW data
    PROVE  /\ States(format, data)[0] = At(Len(NewFile(format)) + 1, EmptyDisk)
           /\ \A k \in Nat :
                 States(format, data)[k + 1] = ScanTurn(format, data, States(format, data)[k])
           /\ Scanned(format, data) = States(format, data)[Len(data)]
<1> DEFINE f == [format |-> format, data |-> data]
           S == Scan!State(f)
<1>1. S[0] = [ok |-> TRUE, pos |-> Len(NewFile(f.format)) + 1, disk |-> EmptyDisk]
  BY Scan!StateAt
<1>2. \A k \in Nat :
         S[k + 1] = IF ~S[k].ok \/ S[k].pos > Len(f.data) THEN S[k]
                    ELSE IF f.format = "binary" THEN NextRecord(f.data, S[k])
                    ELSE NextLine(f.data, S[k])
  BY Scan!StateAt
<1> HIDE DEF S
<1>3. f.format = format /\ f.data = data
  OBVIOUS
<1> HIDE DEF f
<1>4. S[0] = At(Len(NewFile(format)) + 1, EmptyDisk)
  BY <1>1, <1>3 DEF At
<1>5. \A k \in Nat : S[k + 1] = ScanTurn(format, data, S[k])
  BY <1>2, <1>3 DEF ScanTurn
<1>6. States(format, data) = S /\ Scanned(format, data) = S[Len(data)]
  BY DEF States, Scanned, S, f
<1> QED
  BY <1>4, <1>5, <1>6

LEMMA FoldIs ==
    ASSUME NEW records
    PROVE  /\ Fold!State(records)[0] = EmptyDisk
           /\ \A k \in Nat :
                 Fold!State(records)[k + 1] = Apply(Fold!State(records)[k], records[k + 1])
BY Fold!StateAt

LEMMA PieceTurn ==
    ASSUME NEW format \in {"binary", "json"}, NEW rec \in StoredRecords(format, Ascii),
           NEW order \in Orders(rec), NEW data \in Cells, NEW p \in Nat \ {0}, NEW d, NEW q,
           Agree(data, p, Encode(format, rec, order)),
           q = p + Len(Encode(format, rec, order)), q - 1 =< Len(data)
    PROVE  ScanTurn(format, data, At(p, d)) = At(q, Apply(d, rec))
<1>1. p =< Len(data) /\ Len(data) \in Nat
  <2> DEFINE len == Len(Encode(format, rec, order))
  <2>1. len \in Nat \ {0} /\ q = p + len /\ Len(data) \in Nat
    BY PieceIs DEF Cells
  <2> HIDE DEF len
  <2> QED BY <2>1
<1>2. ~(~At(p, d).ok \/ At(p, d).pos > Len(data))
  BY <1>1, AtFields
<1>3. CASE format = "binary"
  BY <1>2, <1>3, WholeTurn DEF ScanTurn
<1>4. CASE format = "json"
  BY <1>2, <1>4, LineTurn DEF ScanTurn
<1> QED
  BY <1>3, <1>4

\* The data is what a file of the records begins with, the k-th of which ends
\* at marks[k].
Laid(format, chars, data, records, marks) ==
    /\ data \in Cells
    /\ records \in Seq(StoredRecords(format, chars))
    /\ marks \in [0 .. Len(records) -> Nat]
    /\ marks[0] = Len(NewFile(format))
    /\ Agree(data, 1, NewFile(format))
    /\ \A k \in 1 .. Len(records) : \E order \in Orders(records[k]) :
          /\ marks[k] = marks[k - 1] + Len(Encode(format, records[k], order))
          /\ Agree(data, marks[k - 1] + 1, Encode(format, records[k], order))

LEMMA AsciiToo ==
    ASSUME NEW format \in {"binary", "json"}, NEW chars, chars \subseteq Ascii
    PROVE  StoredRecords(format, chars) \subseteq StoredRecords(format, Ascii)
<1>1. Seq(chars) \subseteq Seq(Ascii)
  BY SeqMonotonic
<1> DEFINE numbers == Numbers(format)
<1>2. Values(chars, numbers) \subseteq Values(Ascii, numbers)
  <2> SUFFICES ASSUME NEW v \in Values(chars, numbers) PROVE v \in Values(Ascii, numbers)
    OBVIOUS
  <2>1. CASE v \in [tag : {VText}, data : Seq(chars)]
    BY <1>1, <2>1 DEF Values
  <2>2. CASE v \notin [tag : {VText}, data : Seq(chars)]
    BY <2>2 DEF Values
  <2> QED BY <2>1, <2>2
<1>3. FieldSets(chars, numbers) \subseteq FieldSets(Ascii, numbers)
  BY <1>1, <1>2 DEF FieldSets
<1>4. Nodes(chars, numbers) \subseteq Nodes(Ascii, numbers)
  BY <1>1, <1>3 DEF Nodes
<1>5. Edges(chars, numbers) \subseteq Edges(Ascii, numbers)
  BY <1>1, <1>3 DEF Edges
<1>6. Upserts(chars, numbers) \subseteq Upserts(Ascii, numbers)
  BY <1>4, <1>5 DEF Upserts
<1> QED
  BY <1>6 DEF StoredRecords

LEMMA LaidAscii ==
    ASSUME NEW format \in {"binary", "json"}, NEW chars, chars \subseteq Ascii,
           NEW data, NEW records, NEW marks, Laid(format, chars, data, records, marks)
    PROVE  Laid(format, Ascii, data, records, marks)
<1>1. records \in Seq(StoredRecords(format, Ascii))
  BY AsciiToo, SeqMonotonic DEF Laid
<1> QED
  BY <1>1 DEF Laid

LEMMA MarksGrow ==
    ASSUME NEW format \in {"binary", "json"}, NEW data, NEW records, NEW marks,
           Laid(format, Ascii, data, records, marks)
    PROVE  /\ \A k \in 0 .. Len(records) : marks[k] \in Nat /\ k =< marks[k]
           /\ \A n \in 0 .. Len(records) : \A k \in 0 .. n : marks[k] =< marks[n]
<1> DEFINE m == Len(records)
<1>1. m \in Nat /\ \A k \in 0 .. m : marks[k] \in Nat
  <2>1. records \in Seq(StoredRecords(format, Ascii)) /\ marks \in [0 .. m -> Nat]
    BY DEF Laid
  <2>2. m \in Nat
    BY <2>1, LenProperties
  <2> HIDE DEF m
  <2> QED BY <2>1, <2>2
<1>2. \A k \in 1 .. m : marks[k - 1] < marks[k]
  <2> TAKE k \in 1 .. m
  <2>1. records[k] \in StoredRecords(format, Ascii)
    BY ElementOfSeq DEF Laid
  <2>2. PICK order \in Orders(records[k]) :
            marks[k] = marks[k - 1] + Len(Encode(format, records[k], order))
    BY DEF Laid
  <2> DEFINE len == Len(Encode(format, records[k], order))
  <2>3. len \in Nat \ {0} /\ marks[k] = marks[k - 1] + len
    BY <2>1, <2>2, PieceIs
  <2>4. k - 1 \in 0 .. m
    BY <1>1
  <2> HIDE DEF len
  <2> QED BY <1>1, <2>3, <2>4
<1> HIDE DEF m
<1>3. \A k \in 0 .. m : k =< marks[k]
  <2> DEFINE S == {k \in 0 .. m : k =< marks[k]}
  <2>1. 0 \in S
    BY <1>1
  <2>2. \A k \in 0 .. m - 1 : k \in S => k + 1 \in S
    <3> TAKE k \in 0 .. m - 1
    <3>1. k + 1 \in 1 .. m /\ (k + 1) - 1 = k /\ k + 1 \in 0 .. m /\ k \in 0 .. m
      BY <1>1
    <3>2. marks[k] < marks[k + 1] /\ marks[k] \in Nat /\ marks[k + 1] \in Nat
      BY <1>1, <1>2, <3>1
    <3> QED BY <3>1, <3>2
  <2> HIDE DEF S
  <2>3. \A k \in 0 .. m : k \in S
    BY <1>1, <2>1, <2>2, UpTo
  <2> QED BY <2>3 DEF S
<1>4. ASSUME NEW n \in 0 .. m PROVE \A k \in 0 .. n : marks[k] =< marks[n]
  <2> DEFINE S == {j \in 0 .. n : marks[n - j] =< marks[n]}
  <2>0. n \in Nat
    BY <1>1
  <2>1. 0 \in S
    BY <1>1, <2>0
  <2>2. \A j \in 0 .. n - 1 : j \in S => j + 1 \in S
    <3> SUFFICES ASSUME NEW j \in 0 .. n - 1, marks[n - j] =< marks[n]
                 PROVE  marks[n - (j + 1)] =< marks[n]
      BY <2>0
    <3>1. n - j \in 1 .. m /\ (n - j) - 1 = n - (j + 1) /\ n - j \in 0 .. m /\ n - (j + 1) \in 0 .. m
      BY <1>1, <2>0
    <3>2. marks[n - (j + 1)] < marks[n - j]
      BY <1>2, <3>1
    <3>3. marks[n - (j + 1)] \in Nat /\ marks[n - j] \in Nat /\ marks[n] \in Nat
      BY <1>1, <3>1
    <3> QED BY <3>2, <3>3
  <2> HIDE DEF S
  <2>3. \A j \in 0 .. n : j \in S
    BY <2>0, <2>1, <2>2, UpTo
  <2> TAKE k \in 0 .. n
  <2>4. n - k \in 0 .. n /\ n - (n - k) = k
    BY <2>0
  <2>5. n - k \in S
    BY <2>3, <2>4
  <2> QED BY <2>4, <2>5 DEF S
<1> QED
  BY <1>1, <1>3, <1>4 DEF m

\* After n turns the first n records have been applied, if they are there whole.
LEMMA ScanOfLaid ==
    ASSUME NEW format \in {"binary", "json"}, NEW data, NEW records, NEW marks,
           Laid(format, Ascii, data, records, marks),
           NEW n \in 0 .. Len(records), marks[n] =< Len(data)
    PROVE  States(format, data)[n] = At(marks[n] + 1, Fold!State(records)[n])
<1> DEFINE S == States(format, data)
           D == Fold!State(records)
           Done == {k \in 0 .. n : S[k] = At(marks[k] + 1, D[k])}
<1>1. data \in Cells /\ Len(data) \in Nat /\ n \in Nat /\ Len(records) \in Nat
  BY DEF Laid, Cells
<1>2. 0 \in Done
  <2>1. marks[0] = Len(NewFile(format)) /\ 0 \in 0 .. n
    BY <1>1 DEF Laid
  <2> QED BY <2>1, ScanIs, FoldIs
<1>3. \A k \in 0 .. n - 1 : k \in Done => k + 1 \in Done
  <2> SUFFICES ASSUME NEW k \in 0 .. n - 1, S[k] = At(marks[k] + 1, D[k])
               PROVE  S[k + 1] = At(marks[k + 1] + 1, D[k + 1])
    BY <1>1
  <2>1. /\ k \in Nat /\ k \in 0 .. Len(records) /\ k + 1 \in 1 .. Len(records) /\ (k + 1) - 1 = k
        /\ k + 1 \in 0 .. Len(records) /\ k + 1 \in 0 .. n
    BY <1>1
  <2> DEFINE rec == records[k + 1]
             p == marks[k] + 1
             q == marks[k + 1] + 1
  <2>2. rec \in StoredRecords(format, Ascii)
    BY <2>1, ElementOfSeq DEF Laid
  <2>3. PICK order \in Orders(rec) :
            /\ marks[k + 1] = marks[k] + Len(Encode(format, rec, order))
            /\ Agree(data, p, Encode(format, rec, order))
    BY <2>1 DEF Laid
  <2>4. marks[k] \in Nat /\ marks[k + 1] \in Nat /\ marks[k + 1] =< marks[n] /\ marks[n] \in Nat
    BY <2>1, MarksGrow
  <2> DEFINE len == Len(Encode(format, rec, order))
  <2>5. len \in Nat /\ marks[k + 1] = marks[k] + len
    BY <2>2, <2>3, PieceIs
  <2>6. p \in Nat \ {0} /\ q = p + len /\ q - 1 =< Len(data)
    <3> HIDE DEF len
    <3>1. p \in Nat \ {0}
      BY <2>4
    <3>2. q = p + len
      BY <2>4, <2>5
    <3>3. q - 1 =< Len(data)
      <4>1. marks[k + 1] =< Len(data)
        BY <1>1, <2>4
      <4> QED BY <2>4, <4>1
    <3> QED BY <3>1, <3>2, <3>3
  <2> HIDE DEF p, q, S, D, rec
  <2>7. ScanTurn(format, data, At(p, D[k])) = At(q, Apply(D[k], rec))
    BY <1>1, <2>2, <2>3, <2>6, PieceTurn
  <2>8. S[k + 1] = ScanTurn(format, data, S[k])
    BY <2>1, ScanIs DEF S
  <2>9. D[k + 1] = Apply(D[k], rec)
    BY <2>1, FoldIs DEF D, rec
  <2>10. S[k] = At(p, D[k])
    BY DEF p
  <2> QED BY <2>7, <2>8, <2>9, <2>10 DEF q
<1> HIDE DEF Done
<1>4. n \in Done
  <2>1. n \in 0 .. n
    BY <1>1
  <2> QED BY <1>1, <1>2, <1>3, <2>1, UpTo
<1> QED
  BY <1>4 DEF Done

\* Behind the end of the file nothing changes any more.
LEMMA ScanEnds ==
    ASSUME NEW format, NEW data \in Cells, NEW n \in 0 .. Len(data), NEW d,
           States(format, data)[n] = At(Len(data) + 1, d)
    PROVE  Scanned(format, data) = At(Len(data) + 1, d)
<1> DEFINE S == States(format, data)
           m == Len(data)
           s == At(m + 1, d)
           Same == {j \in 0 .. m - n : S[n + j] = s}
<1>1. m \in Nat /\ n \in Nat /\ n =< m /\ m - n \in Nat
  BY DEF Cells
<1>2. ScanTurn(format, data, s) = s
  <2>1. s.pos = m + 1 /\ m + 1 > Len(data)
    BY <1>1, AtFields
  <2> QED BY <2>1 DEF ScanTurn
<1>3. \A k \in Nat : S[k + 1] = ScanTurn(format, data, S[k])
  BY ScanIs
<1> HIDE DEF S, s
<1>4. 0 \in Same
  BY <1>1 DEF S, s
<1>5. \A j \in 0 .. (m - n) - 1 : j \in Same => j + 1 \in Same
  <2> SUFFICES ASSUME NEW j \in 0 .. (m - n) - 1, S[n + j] = s PROVE S[n + (j + 1)] = s
    BY <1>1
  <2>1. n + j \in Nat /\ n + (j + 1) = (n + j) + 1
    BY <1>1
  <2> QED BY <1>2, <1>3, <2>1
<1> HIDE DEF Same
<1>6. m - n \in Same
  <2>1. m - n \in 0 .. m - n
    BY <1>1
  <2> QED BY <1>1, <1>4, <1>5, <2>1, UpTo
<1>7. S[m] = s
  <2>1. n + (m - n) = m
    BY <1>1
  <2> QED BY <1>6, <2>1 DEF Same
<1>8. Scanned(format, data) = S[m]
  BY ScanIs DEF S
<1> QED
  BY <1>7, <1>8 DEF s

\* Of a binary file, text is passed over to its end.
LEMMA ScanOfText ==
    ASSUME NEW data \in Cells, NEW n \in 0 .. Len(data), NEW d,
           InText(data, States("binary", data)[n], d)
    PROVE  InText(data, Scanned("binary", data), d)
<1> DEFINE S == States("binary", data)
           m == Len(data)
           Same == {j \in 0 .. m - n : InText(data, S[n + j], d)}
<1>1. m \in Nat /\ n \in Nat /\ n =< m /\ m - n \in Nat
  BY DEF Cells
<1>2. ASSUME NEW s, InText(data, s, d) PROVE InText(data, ScanTurn("binary", data, s), d)
  <2>1. PICK p \in Nat : s = At(p, d)
    BY <1>2 DEF InText
  <2>2. s.ok /\ s.pos \in Nat
    BY <2>1, AtFields
  <2>3. CASE s.pos =< Len(data)
    <3>1. ScanTurn("binary", data, s) = NextRecord(data, s)
      BY <1>1, <2>2, <2>3 DEF ScanTurn
    <3> QED BY <1>2, <2>3, <3>1, TextTurn
  <2>4. CASE s.pos > Len(data)
    BY <1>2, <2>4 DEF ScanTurn
  <2> QED BY <1>1, <2>2, <2>3, <2>4
<1>3. \A k \in Nat : S[k + 1] = ScanTurn("binary", data, S[k])
  BY ScanIs
<1>4. 0 \in Same
  BY <1>1
<1> HIDE DEF S
<1>5. \A j \in 0 .. (m - n) - 1 : j \in Same => j + 1 \in Same
  <2> SUFFICES ASSUME NEW j \in 0 .. (m - n) - 1, InText(data, S[n + j], d)
               PROVE  InText(data, S[n + (j + 1)], d)
    BY <1>1
  <2>1. n + j \in Nat /\ n + (j + 1) = (n + j) + 1
    BY <1>1
  <2> QED BY <1>2, <1>3, <2>1
<1> HIDE DEF Same
<1>6. m - n \in Same
  <2>1. m - n \in 0 .. m - n
    BY <1>1
  <2> QED BY <1>1, <1>4, <1>5, <2>1, UpTo
<1>7. InText(data, S[m], d)
  <2>1. n + (m - n) = m
    BY <1>1
  <2> QED BY <1>6, <2>1 DEF Same
<1>8. Scanned("binary", data) = S[m]
  BY ScanIs DEF S
<1> QED
  BY <1>7, <1>8

\* A file that begins with its header replays to what the scan ends with.
LEMMA ReplayOfScan ==
    ASSUME NEW format \in {"binary", "json"}, NEW data \in Cells, NEW p, NEW d,
           Agree(data, 1, NewFile(format)), Len(NewFile(format)) =< Len(data),
           Scanned(format, data) = At(p, d)
    PROVE  Replay(format, data) = Ok(d)
<1>1. SubSeq(data, 1, Len(NewFile(format))) = NewFile(format)
  <2> DEFINE len == Len(NewFile(format))
  <2>1. NewFile(format) \in Cells /\ len \in Nat
    BY HeaderIs
  <2>2. 1 + len - 1 = len /\ 1 \in Nat \ {0}
    BY <2>1
  <2>3. SubSeq(data, 1, 1 + len - 1) = NewFile(format)
    <3>1. 1 + len - 1 =< Len(data)
      BY <2>2
    <3> QED BY <2>1, <2>2, <3>1, HeldWhole
  <2> QED BY <2>2, <2>3
<1>2. ~(Len(data) < Len(NewFile(format)))
  BY HeaderIs DEF Cells
<1>3. Scanned(format, data).ok /\ Scanned(format, data).disk = d
  BY AtFields
<1> QED
  BY <1>1, <1>2, <1>3 DEF Replay

\* A file replays to the fold of the records that are whole in it.
THEOREM ReplayOfLaid ==
    ASSUME NEW format \in {"binary", "json"}, NEW data, NEW records, NEW marks,
           NEW chars, chars \subseteq Ascii,
           Laid(format, chars, data, records, marks),
           NEW n \in 0 .. Len(records),
           \/ marks[n] = Len(data)
           \/ /\ format = "binary" /\ chars = Silent
              /\ n < Len(records) /\ marks[n] < Len(data) /\ Len(data) < marks[n + 1]
    PROVE  Replay(format, data) = Ok(Fold!State(records)[n])
<1> DEFINE S == States(format, data)
           d == Fold!State(records)[n]
<1>1. Laid(format, Ascii, data, records, marks)
  BY LaidAscii
<1>2. data \in Cells /\ Len(data) \in Nat /\ n \in Nat /\ Len(records) \in Nat
  BY DEF Laid, Cells
<1>3. /\ marks[n] \in Nat /\ n =< marks[n] /\ 0 \in 0 .. n /\ marks[0] =< marks[n]
      /\ marks[n] =< Len(data)
  <2>1. marks[n] \in Nat /\ n =< marks[n] /\ 0 \in 0 .. n /\ marks[0] =< marks[n]
    BY <1>1, <1>2, MarksGrow
  <2>2. marks[n] =< Len(data)
    BY <1>2, <2>1
  <2> QED BY <2>1, <2>2
<1>4. S[n] = At(marks[n] + 1, d)
  BY <1>1, <1>3, ScanOfLaid
<1>5. n \in 0 .. Len(data)
  BY <1>2, <1>3
<1>6. \E p : Scanned(format, data) = At(p, d)
  <2>1. CASE marks[n] = Len(data)
    BY <1>2, <1>4, <1>5, <2>1, ScanEnds
  <2>2. CASE /\ format = "binary" /\ chars = Silent
             /\ n < Len(records) /\ marks[n] < Len(data) /\ Len(data) < marks[n + 1]
    <3>1. n + 1 \in 1 .. Len(records) /\ (n + 1) - 1 = n
      BY <1>2, <2>2
    <3> DEFINE rec == records[n + 1]
               p == marks[n] + 1
    <3>2. rec \in StoredRecords("binary", Silent)
      BY <2>2, <3>1, ElementOfSeq DEF Laid
    <3>3. PICK order \in Orders(rec) :
              /\ marks[n + 1] = marks[n] + Len(Encode("binary", rec, order))
              /\ Agree(data, p, Encode("binary", rec, order))
      BY <2>2, <3>1 DEF Laid
    <3> DEFINE len == Len(Encode("binary", rec, order))
    <3>4. len \in Nat
      BY <1>1, <2>2, <3>1, PieceIs, ElementOfSeq DEF Laid
    <3>5. p \in Nat \ {0} /\ p =< Len(data) /\ Len(data) < p + len - 1
      <4>1. marks[n + 1] = marks[n] + len
        BY <3>3
      <4> HIDE DEF len
      <4> QED BY <1>2, <1>3, <2>2, <3>4, <4>1
    <3>6. InText(data, NextRecord(data, At(p, d)), d)
      <4> HIDE DEF p, d
      <4> QED BY <1>2, <3>2, <3>3, <3>5, TornTurn
    <3>7. S[n + 1] = ScanTurn(format, data, S[n])
      BY <1>2, ScanIs
    <3>8. ScanTurn(format, data, S[n]) = NextRecord(data, At(p, d))
      <4>1. S[n].ok /\ S[n].pos = p
        BY <1>4, AtFields
      <4>2. ~(~S[n].ok \/ S[n].pos > Len(data))
        BY <1>2, <3>5, <4>1
      <4> HIDE DEF S, d
      <4> QED BY <1>4, <2>2, <4>2 DEF ScanTurn
    <3>9. InText(data, States("binary", data)[n + 1], d)
      BY <2>2, <3>6, <3>7, <3>8
    <3>10. n + 1 \in 0 .. Len(data)
      BY <1>2, <1>3, <2>2
    <3> HIDE DEF d
    <3>11. InText(data, Scanned("binary", data), d)
      BY <1>2, <3>9, <3>10, ScanOfText
    <3> QED BY <2>2, <3>11 DEF InText
  <2> QED BY <2>1, <2>2
<1>7. Agree(data, 1, NewFile(format)) /\ marks[0] = Len(NewFile(format))
  BY DEF Laid
<1>8. Len(NewFile(format)) =< Len(data)
  <2>1. marks[0] \in Nat
    BY <1>7, HeaderIs
  <2> QED BY <1>2, <1>3, <1>7, <2>1
<1> HIDE DEF d
<1>9. Replay(format, data) = Ok(d)
  BY <1>2, <1>6, <1>7, <1>8, ReplayOfScan
<1> QED
  BY <1>9 DEF d

-----------------------------------------------------------------------------
(* Whatever is read is something that can be written.                      *)

Typed(r, T) == r.pos \in Nat \ {0} /\ (r.ok => r.val \in T)

LEMMA TypedThen ==
    ASSUME NEW r1, NEW r2, NEW T1, NEW T, Typed(r1, T1),
           r1.ok /\ r1.val \in T1 /\ r1.pos \in Nat \ {0} => Typed(r2, T)
    PROVE  Typed(IF r1.ok THEN r2 ELSE r1, T)
BY DEF Typed

LEMMA TypedGot ==
    ASSUME NEW val, NEW pos \in Nat \ {0}, NEW T, val \in T
    PROVE  Typed(Got(val, pos), T)
BY DEF Typed, Got

LEMMA TypedErr ==
    ASSUME NEW pos \in Nat \ {0}, NEW T
    PROVE  Typed(Err(pos), T)
BY DEF Typed, Err

LEMMA TypedCell ==
    ASSUME NEW numbers, NEW data \in Seq(numbers), NEW pos \in Nat \ {0}
    PROVE  Typed(read_cell(data, pos), numbers)
<1>1. CASE pos > Len(data)
  BY <1>1, TypedErr DEF read_cell
<1>2. CASE ~(pos > Len(data))
  <2>1. pos \in 1 .. Len(data)
    BY <1>2
  <2>2. data[pos] \in numbers /\ pos + 1 \in Nat \ {0}
    BY <2>1
  <2>3. read_cell(data, pos) = Got(data[pos], pos + 1)
    BY <1>2 DEF read_cell
  <2> QED BY <2>2, <2>3, TypedGot
<1> QED
  BY <1>1, <1>2

LEMMA TypedBytes ==
    ASSUME NEW numbers, NEW data \in Seq(numbers), NEW pos \in Nat \ {0}, NEW n \in Int
    PROVE  Typed(read_bytes(data, pos, n), Seq(numbers))
<1>1. CASE n < 0 \/ pos + n - 1 > Len(data)
  BY <1>1, TypedErr DEF read_bytes
<1>2. CASE ~(n < 0 \/ pos + n - 1 > Len(data))
  <2>1. read_bytes(data, pos, n) = Got(SubSeq(data, pos, pos + n - 1), pos + n)
    BY <1>2 DEF read_bytes
  <2>2. pos + n \in Nat \ {0} /\ \A i \in pos .. pos + n - 1 : i \in 1 .. Len(data)
    BY <1>2
  <2>3. \A i \in pos .. pos + n - 1 : data[i] \in numbers
    BY <2>2
  <2>4. SubSeq(data, pos, pos + n - 1) \in Seq(numbers)
    BY <2>3, SubSeqProperties
  <2> QED BY <2>1, <2>2, <2>4, TypedGot
<1> QED
  BY <1>1, <1>2

LEMMA TypedText ==
    ASSUME NEW numbers, numbers \subseteq Int, NEW data \in Seq(numbers), NEW pos \in Nat \ {0}
    PROVE  Typed(read_str(data, pos), Seq(Ascii))
<1> DEFINE len == read_cell(data, pos)
           b == read_bytes(data, len.pos, len.val)
           whole == IF \A i \in DOMAIN b.val : b.val[i] \in Ascii
                    THEN Got(b.val, b.pos) ELSE Err(b.pos)
           bytes == IF b.ok THEN whole ELSE b
<1>1. read_str(data, pos) = IF len.ok THEN bytes ELSE len
  BY DEF read_str, AndThen
<1>2. Typed(len, numbers)
  BY TypedCell
<1>3. ASSUME len.ok, len.val \in numbers, len.pos \in Nat \ {0} PROVE Typed(bytes, Seq(Ascii))
  <2>1. Typed(b, Seq(numbers))
    BY <1>3, TypedBytes
  <2>2. ASSUME b.val \in Seq(numbers), b.pos \in Nat \ {0} PROVE Typed(whole, Seq(Ascii))
    <3> HIDE DEF b
    <3>1. CASE \A i \in DOMAIN b.val : b.val[i] \in Ascii
      <4>1. b.val \in Seq(Ascii)
        <5>1. Len(b.val) \in Nat /\ b.val \in [1 .. Len(b.val) -> Ascii]
          BY <2>2, <3>1
        <5> QED BY <5>1
      <4> QED BY <2>2, <3>1, <4>1, TypedGot
    <3>2. CASE ~(\A i \in DOMAIN b.val : b.val[i] \in Ascii)
      BY <2>2, <3>2, TypedErr
    <3> QED BY <3>1, <3>2
  <2> HIDE DEF b, whole
  <2> QED BY <2>1, <2>2, TypedThen
<1> HIDE DEF len, bytes
<1>4. Typed(IF len.ok THEN bytes ELSE len, Seq(Ascii))
  BY <1>2, <1>3, TypedThen
<1> QED
  BY <1>1, <1>4

LEMMA InCells ==
    ASSUME NEW numbers, numbers \subseteq Int, NEW data \in Seq(numbers)
    PROVE  data \in Cells
BY SeqMonotonic DEF Cells

LEMMA ReadCellIs ==
    ASSUME NEW data \in Cells, NEW pos \in Nat \ {0}
    PROVE  \/ read_cell(data, pos) = Err(pos)
           \/ pos \in 1 .. Len(data) /\ read_cell(data, pos) = Got(data[pos], pos + 1)
<1>1. Len(data) \in Nat
  BY DEF Cells
<1>2. CASE pos > Len(data)
  BY <1>2 DEF read_cell
<1>3. CASE ~(pos > Len(data))
  BY <1>1, <1>3 DEF read_cell
<1> QED
  BY <1>2, <1>3

LEMMA TypedMap ==
    ASSUME NEW r1, NEW T1, NEW T, NEW v, NEW r, Typed(r1, T1), r1.val \in T1 => v \in T,
           r = IF r1.ok THEN Got(v, r1.pos) ELSE r1
    PROVE  Typed(r, T)
<1>1. CASE r1.ok
  <2>1. r = Got(v, r1.pos) /\ v \in T /\ r1.pos \in Nat \ {0}
    BY <1>1 DEF Typed
  <2> QED BY <2>1, TypedGot
<1>2. CASE ~r1.ok
  BY <1>2 DEF Typed
<1> QED
  BY <1>1, <1>2

LEMMA TypedValue ==
    ASSUME NEW numbers, numbers \subseteq Int, NEW data \in Seq(numbers), NEW pos \in Nat \ {0}
    PROVE  Typed(read_value(data, pos), Values(Ascii, numbers))
<1>1. data \in Cells
  BY InCells
<1>2. CASE read_cell(data, pos) = Err(pos)
  <2>1. read_value(data, pos) = Err(pos)
    BY <1>2 DEF read_value, AndThen, Err
  <2> QED BY <2>1, TypedErr
<1>3. ASSUME NEW p \in Nat \ {0}, NEW tag, read_cell(data, pos) = Got(tag, p)
      PROVE  Typed(read_value(data, pos), Values(Ascii, numbers))
  <2>1. Typed(read_cell(data, p), numbers)
    BY TypedCell
  <2>2. Typed(read_str(data, p), Seq(Ascii))
    BY TypedText
  <2>3. CASE tag = VNull
    <3>1. [tag |-> VNull, data |-> <<>>] \in Values(Ascii, numbers)
      BY DEF Values
    <3>2. Typed(Got([tag |-> VNull, data |-> <<>>], p), Values(Ascii, numbers))
      BY <3>1, TypedGot
    <3> QED BY <1>3, <2>3, <3>2, NullRead
  <2>4. CASE tag = VBoolean
    <3>1. [tag |-> VBoolean, data |-> <<IF read_cell(data, p).val = 0 THEN 0 ELSE 1>>]
              \in Values(Ascii, numbers)
      BY DEF Values
    <3> QED BY <1>3, <2>1, <2>4, <3>1, BooleanRead, TypedMap
  <2>5. ASSUME NEW t \in {VInteger, VFloat}, tag = t
        PROVE  Typed(read_value(data, pos), Values(Ascii, numbers))
    <3>1. ASSUME NEW x \in numbers PROVE [tag |-> t, data |-> <<x>>] \in Values(Ascii, numbers)
      BY DEF Values
    <3> DEFINE v == [tag |-> t, data |-> <<read_cell(data, p).val>>]
    <3>2. read_cell(data, p).val \in numbers => v \in Values(Ascii, numbers)
      BY <3>1
    <3>3. read_cell(data, pos) = Got(t, p)
      BY <1>3, <2>5
    <3>4. read_value(data, pos) =
              IF read_cell(data, p).ok THEN Got(v, read_cell(data, p).pos)
              ELSE read_cell(data, p)
      BY <3>3, NumberRead, ZenonT(60)
    <3> HIDE DEF v
    <3> QED BY <2>1, <3>2, <3>4, TypedMap
  <2>6. CASE tag = VText
    <3>1. ASSUME NEW s \in Seq(Ascii)
          PROVE  [tag |-> VText, data |-> s] \in Values(Ascii, numbers)
      BY DEF Values
    <3>2. read_str(data, p).val \in Seq(Ascii) =>
              [tag |-> VText, data |-> read_str(data, p).val] \in Values(Ascii, numbers)
      BY <3>1
    <3> QED BY <1>3, <2>2, <2>6, <3>2, TextRead, TypedMap, ZenonT(60)
  <2>7. CASE tag \notin {VNull, VBoolean, VInteger, VFloat, VText}
    BY <1>3, <2>7, NothingRead, TypedErr
  <2>8. CASE tag \in {VInteger, VFloat}
    BY <2>5, <2>8
  <2> QED BY <2>3, <2>4, <2>6, <2>7, <2>8
<1>4. pos + 1 \in Nat \ {0}
  OBVIOUS
<1> QED
  BY <1>1, <1>2, <1>3, <1>4, ReadCellIs

LEMMA PutKeeps ==
    ASSUME NEW numbers, NEW fields \in FieldSets(Ascii, numbers),
           NEW key \in Seq(Ascii), NEW value \in Values(Ascii, numbers)
    PROVE  PutField(fields, key, value) \in FieldSets(Ascii, numbers)
<1> DEFINE kept == {kv \in fields : kv[1] # key}
           put == kept \cup {<<key, value>>}
<1>1. /\ fields \subseteq Seq(Ascii) \X Values(Ascii, numbers) /\ IsFiniteSet(fields)
      /\ \A f, g \in fields : f[1] = g[1] => f = g
  BY DEF FieldSets
<1>2. put \subseteq Seq(Ascii) \X Values(Ascii, numbers)
  BY <1>1
<1>3. IsFiniteSet(put)
  <2>1. IsFiniteSet(kept)
    BY <1>1, FS_Subset
  <2>2. IsFiniteSet({<<key, value>>})
    BY FS_Singleton
  <2> QED BY <2>1, <2>2, FS_Union
<1>4. \A f, g \in put : f[1] = g[1] => f = g
  BY <1>1
<1>5. put \in FieldSets(Ascii, numbers)
  <2> HIDE DEF put
  <2> QED BY <1>2, <1>3, <1>4 DEF FieldSets
<1> QED
  BY <1>5 DEF PutField

LEMMA TypedPair ==
    ASSUME NEW numbers, numbers \subseteq Int, NEW data \in Seq(numbers), NEW pos \in Nat \ {0},
           NEW fields \in FieldSets(Ascii, numbers)
    PROVE  Typed(read_pair(data, fields, pos), FieldSets(Ascii, numbers))
<1> DEFINE F == FieldSets(Ascii, numbers)
           key == read_str(data, pos)
           value == read_value(data, key.pos)
           rest == IF value.ok THEN Got(PutField(fields, key.val, value.val), value.pos) ELSE value
<1>1. read_pair(data, fields, pos) = IF key.ok THEN rest ELSE key
  BY DEF read_pair, AndThen
<1>2. Typed(key, Seq(Ascii))
  BY TypedText
<1>3. ASSUME key.val \in Seq(Ascii), key.pos \in Nat \ {0} PROVE Typed(rest, F)
  <2>1. Typed(value, Values(Ascii, numbers))
    BY <1>3, TypedValue
  <2>2. value.val \in Values(Ascii, numbers) => PutField(fields, key.val, value.val) \in F
    BY <1>3, PutKeeps
  <2> HIDE DEF value, key, F
  <2> QED BY <2>1, <2>2, TypedMap
<1> HIDE DEF key, rest, F
<1>4. Typed(IF key.ok THEN rest ELSE key, F)
  BY <1>2, <1>3, TypedThen
<1> QED
  BY <1>1, <1>4 DEF F

LEMMA PairsReadIs ==
    ASSUME NEW data, NEW p
    PROVE  LET S == PairsRead!State([data |-> data, pos |-> p])
           IN  /\ S[0] = Got({}, p)
               /\ \A k \in Nat : S[k + 1] = IF S[k].ok THEN read_pair(data, S[k].val, S[k].pos)
                                            ELSE S[k]
<1> DEFINE from == [data |-> data, pos |-> p]
<1>1. from.data = data /\ from.pos = p
  OBVIOUS
<1> HIDE DEF from
<1>2. PairsRead!State(from)[0] = Got({}, p)
  BY <1>1, PairsRead!StateAt
<1>3. ASSUME NEW k \in Nat
      PROVE  PairsRead!State(from)[k + 1] =
                 IF PairsRead!State(from)[k].ok
                 THEN read_pair(data, PairsRead!State(from)[k].val, PairsRead!State(from)[k].pos)
                 ELSE PairsRead!State(from)[k]
  BY <1>1, PairsRead!StateAt DEF AndThen
<1> QED
  BY <1>2, <1>3 DEF from

LEMMA TypedProperties ==
    ASSUME NEW numbers, numbers \subseteq Int, NEW data \in Seq(numbers), NEW pos \in Nat \ {0}
    PROVE  Typed(read_properties(data, pos), FieldSets(Ascii, numbers))
<1> DEFINE F == FieldSets(Ascii, numbers)
           count == read_cell(data, pos)
           n == IF count.val \in 0 .. Len(data) THEN count.val ELSE Len(data) + 1
           S == PairsRead!State([data |-> data, pos |-> count.pos])
<1>1. read_properties(data, pos) = IF count.ok THEN S[n] ELSE count
  BY DEF read_properties, AndThen
<1>2. Typed(count, numbers)
  BY TypedCell
<1>3. ASSUME count.pos \in Nat \ {0} PROVE Typed(S[n], F)
  <2>1. S[0] = Got({}, count.pos) /\ \A k \in Nat : S[k + 1] = IF S[k].ok THEN read_pair(data, S[k].val, S[k].pos) ELSE S[k]
    BY PairsReadIs
  <2>2. {} \in F
    BY FS_EmptySet DEF FieldSets
  <2>3. n \in Nat
    BY DEF Cells
  <2> HIDE DEF n, S, count, F
  <2>4. Typed(S[0], F)
    BY <1>3, <2>1, <2>2, TypedGot, ZenonT(60)
  <2>5. ASSUME NEW k \in 0 .. n - 1, Typed(S[k], F) PROVE Typed(S[k + 1], F)
    <3>1. k \in Nat
      BY <2>3
    <3> DEFINE s == S[k]
               next == read_pair(data, s.val, s.pos)
    <3>2. s.ok /\ s.val \in F /\ s.pos \in Nat \ {0} => Typed(next, F)
      BY TypedPair DEF F
    <3>3. Typed(s, F)
      BY <2>5
    <3> HIDE DEF s, next
    <3>4. Typed(IF s.ok THEN next ELSE s, F)
      BY <3>2, <3>3, TypedThen
    <3> QED BY <2>1, <3>1, <3>4 DEF s, next
  <2> DEFINE Good == {k \in 0 .. n : Typed(S[k], F)}
  <2>6. 0 \in Good
    BY <2>3, <2>4
  <2>7. \A k \in 0 .. n - 1 : k \in Good => k + 1 \in Good
    BY <2>3, <2>5
  <2> HIDE DEF Good
  <2>8. \A k \in 0 .. n : k \in Good
    BY <2>3, <2>6, <2>7, UpTo
  <2> QED BY <2>3, <2>8 DEF Good
<1> HIDE DEF n, S, count, F
<1>4. Typed(IF count.ok THEN S[n] ELSE count, F)
  BY <1>2, <1>3, TypedThen
<1> QED
  BY <1>1, <1>4 DEF F

LEMMA RecordTypes ==
    ASSUME NEW numbers
    PROVE  /\ \A id \in numbers, label \in Seq(Ascii), fields \in FieldSets(Ascii, numbers) :
                 NodeRecord(id, label, fields) \in Upserts(Ascii, numbers)
           /\ \A id \in numbers, src \in numbers, tgt \in numbers, label \in Seq(Ascii),
                 weight \in numbers, fields \in FieldSets(Ascii, numbers) :
                 EdgeRecord(id, src, tgt, label, weight, fields) \in Upserts(Ascii, numbers)
           /\ \A type \in 3 .. 4, id \in numbers : OtherRecord(type, id) \in Deletes(numbers)
           /\ \A type \in 5 .. 7, id \in numbers : OtherRecord(type, id) \in TxnMarkers(numbers)
<1>1. \A id \in numbers, label \in Seq(Ascii), fields \in FieldSets(Ascii, numbers) :
          NodeRecord(id, label, fields) \in Upserts(Ascii, numbers)
  BY DEF NodeRecord, Upserts, Nodes
<1>2. \A id \in numbers, src \in numbers, tgt \in numbers, label \in Seq(Ascii),
          weight \in numbers, fields \in FieldSets(Ascii, numbers) :
          EdgeRecord(id, src, tgt, label, weight, fields) \in Upserts(Ascii, numbers)
  BY DEF EdgeRecord, Upserts, Edges
<1>3. ASSUME NEW id \in numbers PROVE \A type \in 3 .. 4 : OtherRecord(type, id) \in Deletes(numbers)
  <2>1. Ops[3] = "DeleteNode" /\ Ops[4] = "DeleteEdge"
    BY DEF Ops
  <2>2. OtherRecord(3, id) \in Deletes(numbers) /\ OtherRecord(4, id) \in Deletes(numbers)
    BY <2>1 DEF OtherRecord, Deletes
  <2> QED BY <2>2
<1>4. ASSUME NEW id \in numbers PROVE \A type \in 5 .. 7 : OtherRecord(type, id) \in TxnMarkers(numbers)
  <2>1. Ops[5] = "BeginTxn" /\ Ops[6] = "CommitTxn" /\ Ops[7] = "RollbackTxn"
    BY DEF Ops
  <2>2. /\ OtherRecord(5, id) \in TxnMarkers(numbers) /\ OtherRecord(6, id) \in TxnMarkers(numbers)
        /\ OtherRecord(7, id) \in TxnMarkers(numbers)
    BY <2>1 DEF OtherRecord, TxnMarkers
  <2> QED BY <2>2
<1> QED
  BY <1>1, <1>2, <1>3, <1>4

LEMMA TypedNode ==
    ASSUME NEW numbers, numbers \subseteq Int, NEW data \in Seq(numbers), NEW pos \in Nat \ {0}
    PROVE  Typed(decode_node(data, pos), Upserts(Ascii, numbers))
<1> DEFINE T == Upserts(Ascii, numbers)
           F == FieldSets(Ascii, numbers)
           S == Seq(Ascii)
           N == Nat \ {0}
           id == read_cell(data, pos)
           label == read_str(data, id.pos)
           fields == read_properties(data, label.pos)
           node == NodeRecord(id.val, label.val, fields.val)
           r3 == IF fields.ok THEN Got(node, fields.pos) ELSE fields
           r2 == IF label.ok THEN r3 ELSE label
           r1 == IF id.ok THEN r2 ELSE id
<1>1. decode_node(data, pos) = r1
  BY DEF decode_node, AndThen, NodeRecord
<1>2. Typed(id, numbers)
  BY TypedCell
<1>3. id.pos \in N => Typed(label, S)
  BY TypedText
<1>4. label.pos \in N => Typed(fields, F)
  BY TypedProperties
<1>5. id.val \in numbers /\ label.val \in S /\ fields.val \in F => node \in T
  BY RecordTypes
<1> HIDE DEF T, F, S, N, id, label, fields, node, r1, r2, r3
<1>6. id.val \in numbers /\ label.val \in S /\ label.pos \in N => Typed(r3, T)
  <2> SUFFICES ASSUME id.val \in numbers, label.val \in S, label.pos \in N PROVE Typed(r3, T)
    OBVIOUS
  <2>1. Typed(fields, F) /\ (fields.val \in F => node \in T)
    BY <1>4, <1>5
  <2>2. r3 = IF fields.ok THEN Got(node, fields.pos) ELSE fields
    BY DEF r3
  <2> QED BY <2>1, <2>2, TypedMap
<1>7. id.val \in numbers /\ id.pos \in N => Typed(r2, T)
  BY <1>3, <1>6, TypedThen DEF r2, N
<1>8. Typed(r1, T)
  BY <1>2, <1>7, TypedThen DEF r1, N
<1> QED
  BY <1>1, <1>8 DEF T

LEMMA TypedEdge ==
    ASSUME NEW numbers, numbers \subseteq Int, NEW data \in Seq(numbers), NEW pos \in Nat \ {0}
    PROVE  Typed(decode_edge(data, pos), Upserts(Ascii, numbers))
<1> DEFINE T == Upserts(Ascii, numbers)
           F == FieldSets(Ascii, numbers)
           S == Seq(Ascii)
           N == Nat \ {0}
           id == read_cell(data, pos)
           src == read_cell(data, id.pos)
           tgt == read_cell(data, src.pos)
           label == read_str(data, tgt.pos)
           weight == read_cell(data, label.pos)
           fields == read_properties(data, weight.pos)
           edge == EdgeRecord(id.val, src.val, tgt.val, label.val, weight.val, fields.val)
           r6 == IF fields.ok THEN Got(edge, fields.pos) ELSE fields
           r5 == IF weight.ok THEN r6 ELSE weight
           r4 == IF label.ok THEN r5 ELSE label
           r3 == IF tgt.ok THEN r4 ELSE tgt
           r2 == IF src.ok THEN r3 ELSE src
           r1 == IF id.ok THEN r2 ELSE id
<1>1. decode_edge(data, pos) = r1
  BY DEF decode_edge, AndThen, EdgeRecord
<1>2. Typed(id, numbers)
  BY TypedCell
<1>3. id.pos \in N => Typed(src, numbers)
  BY TypedCell
<1>4. src.pos \in N => Typed(tgt, numbers)
  BY TypedCell
<1>5. tgt.pos \in N => Typed(label, S)
  BY TypedText
<1>6. label.pos \in N => Typed(weight, numbers)
  BY TypedCell
<1>7. weight.pos \in N => Typed(fields, F)
  BY TypedProperties
<1>8. /\ id.val \in numbers /\ src.val \in numbers /\ tgt.val \in numbers
      /\ label.val \in S /\ weight.val \in numbers /\ fields.val \in F
      => edge \in T
  BY RecordTypes
<1> HIDE DEF T, F, S, N, id, src, tgt, label, weight, fields, edge, r1, r2, r3, r4, r5, r6
<1> DEFINE v1 == id.val \in numbers
           v2 == v1 /\ src.val \in numbers
           v3 == v2 /\ tgt.val \in numbers
           v4 == v3 /\ label.val \in S
           v5 == v4 /\ weight.val \in numbers
<1>9. v5 /\ weight.pos \in N => Typed(r6, T)
  <2> SUFFICES ASSUME v5, weight.pos \in N PROVE Typed(r6, T)
    OBVIOUS
  <2>1. Typed(fields, F) /\ (fields.val \in F => edge \in T)
    BY <1>7, <1>8
  <2>2. r6 = IF fields.ok THEN Got(edge, fields.pos) ELSE fields
    BY DEF r6
  <2> QED BY <2>1, <2>2, TypedMap
<1> HIDE DEF v5
<1>10. v4 /\ label.pos \in N => Typed(r5, T)
  BY <1>6, <1>9, TypedThen DEF r5, N, v5
<1> HIDE DEF v4
<1>11. v3 /\ tgt.pos \in N => Typed(r4, T)
  BY <1>5, <1>10, TypedThen DEF r4, N, v4
<1> HIDE DEF v3
<1>12. v2 /\ src.pos \in N => Typed(r3, T)
  BY <1>4, <1>11, TypedThen DEF r3, N, v3
<1> HIDE DEF v2
<1>13. v1 /\ id.pos \in N => Typed(r2, T)
  BY <1>3, <1>12, TypedThen DEF r2, N, v2
<1>14. Typed(r1, T)
  BY <1>2, <1>13, TypedThen DEF r1, N
<1> QED
  BY <1>1, <1>14 DEF T

LEMMA TypedWider ==
    ASSUME NEW r, NEW T, NEW U, T \subseteq U, Typed(r, T)
    PROVE  Typed(r, U)
BY DEF Typed

\* What is decoded is a record, and a marker only from the type of one.
LEMMA TypedRecord ==
    ASSUME NEW numbers, numbers \subseteq Int, NEW data \in Seq(numbers), NEW pos \in Nat \ {0},
           NEW type \in Int
    PROVE  /\ Typed(decode_record(type, data, pos), Records(Ascii, numbers))
           /\ type \in 1 .. 4 => Typed(decode_record(type, data, pos),
                                       Upserts(Ascii, numbers) \cup Deletes(numbers))
<1> DEFINE R == Records(Ascii, numbers)
           E == Upserts(Ascii, numbers) \cup Deletes(numbers)
           r == decode_record(type, data, pos)
           c == read_cell(data, pos)
<1>1. E \subseteq R /\ Upserts(Ascii, numbers) \subseteq E /\ Deletes(numbers) \subseteq E
      /\ TxnMarkers(numbers) \subseteq R
  BY DEF Records
<1>2. CASE type = 1
  <2>1. r = decode_node(data, pos)
    BY <1>2, DecodeTypes
  <2>2. Typed(r, Upserts(Ascii, numbers))
    BY <2>1, TypedNode
  <2> HIDE DEF R, E, r
  <2>3. Typed(r, E)
    BY <1>1, <2>2, TypedWider
  <2>4. Typed(r, R)
    BY <1>1, <2>3, TypedWider
  <2> QED BY <2>3, <2>4 DEF R, E, r
<1>3. CASE type = 2
  <2>1. r = decode_edge(data, pos)
    BY <1>3, DecodeTypes
  <2>2. Typed(r, Upserts(Ascii, numbers))
    BY <2>1, TypedEdge
  <2> HIDE DEF R, E, r
  <2>3. Typed(r, E)
    BY <1>1, <2>2, TypedWider
  <2>4. Typed(r, R)
    BY <1>1, <2>3, TypedWider
  <2> QED BY <2>3, <2>4 DEF R, E, r
<1>4. CASE type \in 3 .. 7
  <2>1. r = IF c.ok THEN Got(OtherRecord(type, c.val), c.pos) ELSE c
    BY <1>4, DecodeTypes DEF OtherRecord
  <2>2. Typed(c, numbers)
    BY TypedCell
  <2>3. c.val \in numbers => OtherRecord(type, c.val) \in R
    BY <1>1, <1>4, RecordTypes
  <2>4. type \in 1 .. 4 /\ c.val \in numbers => OtherRecord(type, c.val) \in E
    BY <1>1, <1>4, RecordTypes
  <2> HIDE DEF R, E, r, c
  <2>5. Typed(r, R)
    BY <2>1, <2>2, <2>3, TypedMap
  <2>6. type \in 1 .. 4 => Typed(r, E)
    <3> SUFFICES ASSUME type \in 1 .. 4 PROVE Typed(r, E)
      OBVIOUS
    <3>1. c.val \in numbers => OtherRecord(type, c.val) \in E
      BY <2>4
    <3> QED BY <2>1, <2>2, <3>1, TypedMap
  <2> QED BY <2>5, <2>6 DEF R, E, r
<1>5. CASE type \in Int \ 1 .. 7
  <2>1. r = Err(pos)
    BY <1>5, DecodeTypes
  <2> HIDE DEF R, E, r
  <2>2. Typed(r, R) /\ ~(type \in 1 .. 4)
    BY <1>5, <2>1, TypedErr
  <2> QED BY <2>2 DEF R, E, r
<1> QED
  BY <1>2, <1>3, <1>4, <1>5

\* A line that parses is a record that a line can be written for.
LEMMA TypedLine ==
    ASSUME NEW line \in Cells, from_str(line).ok
    PROVE  from_str(line).val \in StoredRecords("json", Ascii)
<1> DEFINE n == Len(line)
           body == SubSeq(line, 2, n - 1)
           r == decode_record(body[1], body, 2)
<1>1. /\ ~(n < 4 \/ line[1] # Open \/ line[n] # Close \/ body[1] \notin 1 .. 4
              \/ (\E i \in DOMAIN body : body[i] < 0))
      /\ r.ok /\ r.pos = n - 1 /\ from_str(line) = r
  BY DEF from_str, Err
<1>2. n \in Nat /\ n >= 4 /\ n - 1 >= 3 /\ n - 1 \in Nat
  BY <1>1 DEF Cells
<1>3. body \in Cells
  BY <1>2, CutOut
<1>4. body \in Seq(Nat) /\ body[1] \in 1 .. 4
  <2> HIDE DEF body, n
  <2>1. \A i \in 1 .. Len(body) : body[i] \in Int /\ ~(body[i] < 0)
    BY <1>1, <1>3 DEF Cells
  <2>2. \A i \in 1 .. Len(body) : body[i] \in Nat
    BY <2>1
  <2>3. body \in [1 .. Len(body) -> Nat] /\ Len(body) \in Nat
    BY <1>3, <2>2 DEF Cells
  <2> QED BY <1>1, <2>3
<1>5. Typed(r, Upserts(Ascii, Nat) \cup Deletes(Nat))
  <2> HIDE DEF body
  <2>1. 2 \in Nat \ {0} /\ Nat \subseteq Int /\ body[1] \in Int
    BY <1>4
  <2> QED BY <1>4, <2>1, TypedRecord
<1>6. Upserts(Ascii, Nat) \cup Deletes(Nat) \subseteq StoredRecords("json", Ascii)
  BY DEF StoredRecords, Numbers
<1> HIDE DEF r
<1> QED
  BY <1>1, <1>5, <1>6 DEF Typed

-----------------------------------------------------------------------------
(* What a replay knows is made of what can be written.                     *)

NodeMaps(format, chars) == [NodeIds -> Nodes(chars, Numbers(format)) \cup {Absent}]
EdgeMaps(format, chars) == [EdgeIds -> Edges(chars, Numbers(format)) \cup {Absent}]

Disks(format, chars) ==
    [nodes : NodeMaps(format, chars), edges : EdgeMaps(format, chars),
     buf : [open : BOOLEAN, txn : Int,
            nIns : NodeMaps(format, chars), eIns : EdgeMaps(format, chars),
            nDel : SUBSET Int, eDel : SUBSET Int]]

LEMMA FreshTyped ==
    ASSUME NEW format, NEW chars, NEW open \in BOOLEAN, NEW txn \in Int,
           NEW d \in Disks(format, chars)
    PROVE  [d EXCEPT !.buf = FreshBuffer(open, txn)] \in Disks(format, chars)
<1> DEFINE NM == NodeMaps(format, chars)
           EM == EdgeMaps(format, chars)
           B == [open : BOOLEAN, txn : Int, nIns : NM, eIns : EM, nDel : SUBSET Int, eDel : SUBSET Int]
<1>1. NoNodes \in NM /\ NoEdges \in EM
  BY DEF NoNodes, NoEdges, NodeMaps, EdgeMaps
<1>2. d \in [nodes : NM, edges : EM, buf : B]
  BY DEF Disks
<1> HIDE DEF NM, EM
<1>3. FreshBuffer(open, txn) \in B
  BY <1>1 DEF FreshBuffer
<1> HIDE DEF B
<1>4. [d EXCEPT !.buf = FreshBuffer(open, txn)] \in [nodes : NM, edges : EM, buf : B]
  BY <1>2, <1>3
<1> QED
  BY <1>4 DEF Disks, NM, EM, B

LEMMA EmptyTyped ==
    ASSUME NEW format, NEW chars
    PROVE  EmptyDisk \in Disks(format, chars)
<1> DEFINE NM == NodeMaps(format, chars)
           EM == EdgeMaps(format, chars)
<1>1. NoNodes \in NM /\ NoEdges \in EM
  BY DEF NoNodes, NoEdges, NodeMaps, EdgeMaps
<1> HIDE DEF NM, EM
<1>2. EmptyDisk \in [nodes : NM, edges : EM,
                     buf : [open : BOOLEAN, txn : Int, nIns : NM, eIns : EM,
                            nDel : SUBSET Int, eDel : SUBSET Int]]
  BY <1>1 DEF EmptyDisk, NoBuffer, FreshBuffer
<1> QED
  BY <1>2 DEF Disks, NM, EM

LEMMA NodeTyped ==
    ASSUME NEW format, NEW chars, NEW d \in Disks(format, chars), NEW id \in Int,
           NEW node \in Nodes(chars, Numbers(format)) \cup {Absent}
    PROVE  /\ SaveNode(d, id, node) \in Disks(format, chars)
           /\ DeleteNode(d, id) \in Disks(format, chars)
<1> DEFINE NM == NodeMaps(format, chars)
           EM == EdgeMaps(format, chars)
           B == [open : BOOLEAN, txn : Int, nIns : NM, eIns : EM, nDel : SUBSET Int, eDel : SUBSET Int]
<1>1. ASSUME NEW f \in NM, NEW v \in Nodes(chars, Numbers(format)) \cup {Absent}
      PROVE  [f EXCEPT ![id] = v] \in NM
  BY DEF NodeMaps
<1>2. d \in [nodes : NM, edges : EM, buf : B]
  BY DEF Disks
<1>3. Absent \in Nodes(chars, Numbers(format)) \cup {Absent}
  OBVIOUS
<1> HIDE DEF NM, EM
<1>4. d.nodes \in NM /\ d.buf \in B /\ d.buf.nIns \in NM /\ d.buf.nDel \in SUBSET Int
  BY <1>2
<1>5. [d EXCEPT !.nodes[id] = node] \in [nodes : NM, edges : EM, buf : B]
  <2>1. [d.nodes EXCEPT ![id] = node] \in NM
    BY <1>1, <1>4
  <2> HIDE DEF B
  <2> QED BY <1>2, <2>1
<1>6. [d EXCEPT !.nodes[id] = Absent] \in [nodes : NM, edges : EM, buf : B]
  <2>1. [d.nodes EXCEPT ![id] = Absent] \in NM
    BY <1>1, <1>3, <1>4
  <2> HIDE DEF B
  <2> QED BY <1>2, <2>1
<1>7. [d EXCEPT !.buf.nIns[id] = node] \in [nodes : NM, edges : EM, buf : B]
  <2>1. [d.buf.nIns EXCEPT ![id] = node] \in NM
    BY <1>1, <1>4
  <2>2. [d.buf EXCEPT !.nIns[id] = node] \in B
    BY <1>4, <2>1
  <2> HIDE DEF B
  <2> QED BY <1>2, <2>2
<1>8. [d EXCEPT !.buf.nDel = @ \cup {id}] \in [nodes : NM, edges : EM, buf : B]
  <2>1. [d.buf EXCEPT !.nDel = @ \cup {id}] \in B
    BY <1>4
  <2> HIDE DEF B
  <2> QED BY <1>2, <2>1
<1>9. Disks(format, chars) = [nodes : NM, edges : EM, buf : B]
  BY DEF Disks, NM, EM
<1> HIDE DEF B
<1> QED
  BY <1>5, <1>6, <1>7, <1>8, <1>9 DEF SaveNode, DeleteNode

LEMMA EdgeTyped ==
    ASSUME NEW format, NEW chars, NEW d \in Disks(format, chars), NEW id \in Int,
           NEW edge \in Edges(chars, Numbers(format)) \cup {Absent}
    PROVE  /\ SaveEdge(d, id, edge) \in Disks(format, chars)
           /\ DeleteEdge(d, id) \in Disks(format, chars)
<1> DEFINE NM == NodeMaps(format, chars)
           EM == EdgeMaps(format, chars)
           B == [open : BOOLEAN, txn : Int, nIns : NM, eIns : EM, nDel : SUBSET Int, eDel : SUBSET Int]
<1>1. ASSUME NEW f \in EM, NEW v \in Edges(chars, Numbers(format)) \cup {Absent}
      PROVE  [f EXCEPT ![id] = v] \in EM
  BY DEF EdgeMaps
<1>2. d \in [nodes : NM, edges : EM, buf : B]
  BY DEF Disks
<1>3. Absent \in Edges(chars, Numbers(format)) \cup {Absent}
  OBVIOUS
<1> HIDE DEF NM, EM
<1>4. d.edges \in EM /\ d.buf \in B /\ d.buf.eIns \in EM /\ d.buf.eDel \in SUBSET Int
  BY <1>2
<1>5. [d EXCEPT !.edges[id] = edge] \in [nodes : NM, edges : EM, buf : B]
  <2>1. [d.edges EXCEPT ![id] = edge] \in EM
    BY <1>1, <1>4
  <2> HIDE DEF B
  <2> QED BY <1>2, <2>1
<1>6. [d EXCEPT !.edges[id] = Absent] \in [nodes : NM, edges : EM, buf : B]
  <2>1. [d.edges EXCEPT ![id] = Absent] \in EM
    BY <1>1, <1>3, <1>4
  <2> HIDE DEF B
  <2> QED BY <1>2, <2>1
<1>7. [d EXCEPT !.buf.eIns[id] = edge] \in [nodes : NM, edges : EM, buf : B]
  <2>1. [d.buf.eIns EXCEPT ![id] = edge] \in EM
    BY <1>1, <1>4
  <2>2. [d.buf EXCEPT !.eIns[id] = edge] \in B
    BY <1>4, <2>1
  <2> HIDE DEF B
  <2> QED BY <1>2, <2>2
<1>8. [d EXCEPT !.buf.eDel = @ \cup {id}] \in [nodes : NM, edges : EM, buf : B]
  <2>1. [d.buf EXCEPT !.eDel = @ \cup {id}] \in B
    BY <1>4
  <2> HIDE DEF B
  <2> QED BY <1>2, <2>1
<1>9. Disks(format, chars) = [nodes : NM, edges : EM, buf : B]
  BY DEF Disks, NM, EM
<1> HIDE DEF B
<1> QED
  BY <1>5, <1>6, <1>7, <1>8, <1>9 DEF SaveEdge, DeleteEdge

LEMMA MarkerTyped ==
    ASSUME NEW format, NEW chars, NEW d \in Disks(format, chars), NEW txn \in Int
    PROVE  /\ BeginTxn(d, txn) \in Disks(format, chars)
           /\ CommitTxn(d, txn) \in Disks(format, chars)
           /\ RollbackTxn(d) \in Disks(format, chars)
<1> DEFINE NM == NodeMaps(format, chars)
           EM == EdgeMaps(format, chars)
           B == [open : BOOLEAN, txn : Int, nIns : NM, eIns : EM, nDel : SUBSET Int, eDel : SUBSET Int]
           D == Disks(format, chars)
<1>1. D = [nodes : NM, edges : EM, buf : B]
  BY DEF Disks
<1>2. [d EXCEPT !.buf = FreshBuffer(TRUE, txn)] \in D
  BY FreshTyped
<1>3. [d EXCEPT !.buf = NoBuffer] \in D
  <2>1. FALSE \in BOOLEAN /\ 0 \in Int
    OBVIOUS
  <2>2. [d EXCEPT !.buf = FreshBuffer(FALSE, 0)] \in D
    BY <2>1, FreshTyped
  <2> QED BY <2>2 DEF NoBuffer
<1>4. NoBuffer \in B
  BY DEF NoBuffer, FreshBuffer, NoNodes, NoEdges, NodeMaps, EdgeMaps
<1>5. d.nodes \in NM /\ d.edges \in EM /\ d.buf.nIns \in NM /\ d.buf.eIns \in EM
  BY <1>1
<1>6. AppliedNodes(d) \in NM
  BY <1>5 DEF AppliedNodes, NodeMaps
<1>7. AppliedEdges(d) \in EM
  BY <1>5 DEF AppliedEdges, EdgeMaps
<1> HIDE DEF NM, EM, B
<1>8. [nodes |-> AppliedNodes(d), edges |-> AppliedEdges(d), buf |-> NoBuffer] \in D
  BY <1>1, <1>4, <1>6, <1>7
<1> HIDE DEF D
<1> QED
  BY <1>2, <1>3, <1>8 DEF BeginTxn, CommitTxn, RollbackTxn, D

LEMMA ApplyTyped ==
    ASSUME NEW format, NEW chars, Numbers(format) \subseteq Int, NEW d \in Disks(format, chars),
           NEW rec \in Records(chars, Numbers(format))
    PROVE  Apply(d, rec) \in Disks(format, chars)
<1> DEFINE N == Numbers(format)
           D == Disks(format, chars)
<1>1. ASSUME NEW id \in N, NEW label \in Seq(chars), NEW fields \in FieldSets(chars, N),
             rec = NodeRecord(id, label, fields)
      PROVE  Apply(d, rec) \in D
  <2>1. rec.op = "UpsertNode" /\ rec.id = id /\ rec.node \in Nodes(chars, N)
    BY <1>1 DEF NodeRecord, Nodes
  <2>2. Apply(d, rec) = SaveNode(d, rec.id, rec.node)
    BY <2>1 DEF Apply
  <2> QED BY <2>1, <2>2, NodeTyped
<1>2. ASSUME NEW id \in N, NEW src \in N, NEW tgt \in N, NEW label \in Seq(chars),
             NEW weight \in N, NEW fields \in FieldSets(chars, N),
             rec = EdgeRecord(id, src, tgt, label, weight, fields)
      PROVE  Apply(d, rec) \in D
  <2>1. rec.op = "UpsertEdge" /\ rec.id = id /\ rec.edge \in Edges(chars, N)
    BY <1>2 DEF EdgeRecord, Edges
  <2>2. Apply(d, rec) = SaveEdge(d, rec.id, rec.edge)
    BY <2>1 DEF Apply
  <2> QED BY <2>1, <2>2, EdgeTyped
<1>3. ASSUME NEW type \in 3 .. 7, NEW id \in N, rec = OtherRecord(type, id)
      PROVE  Apply(d, rec) \in D
  <2>1. rec.op = Ops[type] /\ rec.id = id
    BY <1>3 DEF OtherRecord
  <2>2. Ops[type] \in {"DeleteNode", "DeleteEdge", "BeginTxn", "CommitTxn", "RollbackTxn"}
    <3>1. Ops[3] = "DeleteNode" /\ Ops[4] = "DeleteEdge" /\ Ops[5] = "BeginTxn"
          /\ Ops[6] = "CommitTxn" /\ Ops[7] = "RollbackTxn"
      BY DEF Ops
    <3>2. type = 3 \/ type = 4 \/ type = 5 \/ type = 6 \/ type = 7
      OBVIOUS
    <3> QED BY <3>1, <3>2
  <2>3. Apply(d, rec) \in {DeleteNode(d, id), DeleteEdge(d, id), BeginTxn(d, id), CommitTxn(d, id),
                           RollbackTxn(d)}
    BY <2>1, <2>2 DEF Apply
  <2>4. Absent \in Nodes(chars, N) \cup {Absent} /\ Absent \in Edges(chars, N) \cup {Absent}
        /\ id \in Int
    OBVIOUS
  <2>5. DeleteNode(d, id) \in D /\ DeleteEdge(d, id) \in D
    BY <2>4, NodeTyped, EdgeTyped
  <2>6. BeginTxn(d, id) \in D /\ CommitTxn(d, id) \in D /\ RollbackTxn(d) \in D
    BY <2>4, MarkerTyped
  <2> HIDE DEF D
  <2> QED BY <2>3, <2>5, <2>6
<1> QED
  BY <1>1, <1>2, <1>3, RecordShapes

ScanStates(format) == [ok : BOOLEAN, pos : Nat \ {0}, disk : Disks(format, Ascii)]

LEMMA TypedNextRecord ==
    ASSUME NEW data \in Cells, NEW s \in ScanStates("binary"), s.pos =< Len(data)
    PROVE  NextRecord(data, s) \in ScanStates("binary")
<1> DEFINE D == Disks("binary", Ascii)
           decoded == decode_record(data[s.pos], data, s.pos + 1)
           csum == read_bytes(data, decoded.pos, 2)
           d == s.disk
           Stop == [s EXCEPT !.pos = Len(data) + 1, !.disk = d]
           Skip == [s EXCEPT !.pos = csum.pos]
           Done == [s EXCEPT !.pos = csum.pos, !.disk = Apply(@, decoded.val)]
<1>1. NextRecord(data, s) \in {Stop, Skip} \/ (decoded.ok /\ NextRecord(data, s) = Done)
  <2> HIDE DEF decoded, csum, D, Stop, Skip, Done
  <2>1. CASE ~csum.ok
    <3>1. NextRecord(data, s) = Stop
      BY <2>1 DEF NextRecord, Unfinished, decoded, csum, Stop
    <3> QED BY <3>1
  <2>2. CASE csum.ok
    <3>1. CASE ~ChecksumAgrees(csum.val, SubSeq(data, s.pos, decoded.pos - 1))
      <4>1. NextRecord(data, s) = Skip
        BY <2>2, <3>1 DEF NextRecord, decoded, csum, Skip
      <4> QED BY <4>1
    <3>2. CASE ChecksumAgrees(csum.val, SubSeq(data, s.pos, decoded.pos - 1)) /\ decoded.ok
      <4>1. NextRecord(data, s) = Done
        BY <2>2, <3>2 DEF NextRecord, decoded, csum, Done
      <4> QED BY <3>2, <4>1
    <3>3. CASE ChecksumAgrees(csum.val, SubSeq(data, s.pos, decoded.pos - 1)) /\ ~decoded.ok
      <4>1. NextRecord(data, s) = Stop
        BY <2>2, <3>3 DEF NextRecord, decoded, csum, Stop
      <4> QED BY <4>1
    <3> QED BY <3>1, <3>2, <3>3
  <2> QED BY <2>1, <2>2
<1>2. /\ Len(data) \in Nat /\ data \in Seq(Int) /\ s.pos \in Nat \ {0}
      /\ s.pos + 1 \in Nat \ {0} /\ data[s.pos] \in Int
  BY DEF Cells, ScanStates
<1>3. Typed(decoded, Records(Ascii, Int))
  BY <1>2, TypedRecord
<1>4. decoded.pos \in Nat \ {0}
  BY <1>3 DEF Typed
<1>5. Typed(csum, Seq(Int))
  <2> HIDE DEF decoded
  <2> QED BY <1>2, <1>4, TypedBytes
<1>6. csum.pos \in Nat \ {0}
  BY <1>5 DEF Typed
<1>7. s.disk \in D
  BY DEF ScanStates
<1>8. decoded.ok => Apply(s.disk, decoded.val) \in D
  <2> HIDE DEF decoded
  <2>1. Numbers("binary") = Int
    BY DEF Numbers
  <2>2. decoded.ok => decoded.val \in Records(Ascii, Numbers("binary"))
    BY <1>3, <2>1 DEF Typed
  <2> QED BY <1>7, <2>1, <2>2, ApplyTyped
<1> DEFINE e == Apply(s.disk, decoded.val)
           q == csum.pos
<1>9. s \in [ok : BOOLEAN, pos : Nat \ {0}, disk : D] /\ Len(data) + 1 \in Nat \ {0}
  BY <1>2 DEF ScanStates
<1>10. Done = [s EXCEPT !.pos = q, !.disk = e] /\ Skip = [s EXCEPT !.pos = q]
  OBVIOUS
<1> HIDE DEF decoded, csum, D, e, q, Done, Skip
<1>11. Stop \in [ok : BOOLEAN, pos : Nat \ {0}, disk : D]
  BY <1>7, <1>9
<1>12. Skip \in [ok : BOOLEAN, pos : Nat \ {0}, disk : D]
  BY <1>6, <1>9, <1>10 DEF q
<1>13. decoded.ok => Done \in [ok : BOOLEAN, pos : Nat \ {0}, disk : D]
  <2>1. q \in Nat \ {0} /\ (decoded.ok => e \in D)
    BY <1>6, <1>8 DEF q, e
  <2> QED BY <1>9, <1>10, <2>1
<1> HIDE DEF Stop
<1> QED
  BY <1>1, <1>11, <1>12, <1>13 DEF ScanStates, D

LEMMA LineEndExists ==
    ASSUME NEW data \in Cells, NEW p \in Nat \ {0}, p =< Len(data)
    PROVE  LineEnd(data, p) \in p .. Len(data) + 1
<1> DEFINE ends == {i \in p .. Len(data) : data[i] = Newline}
           P(end) == /\ end =< Len(data) => data[end] = Newline
                     /\ \A i \in p .. end - 1 : data[i] # Newline
<1>1. Len(data) \in Nat
  BY DEF Cells
<1>2. \E end \in p .. Len(data) + 1 : P(end)
  <2>1. CASE ends = {}
    <3>1. \A i \in p .. Len(data) : data[i] # Newline
      BY <2>1
    <3>2. Len(data) + 1 \in p .. Len(data) + 1 /\ ~(Len(data) + 1 =< Len(data))
          /\ (Len(data) + 1) - 1 = Len(data)
      BY <1>1
    <3>3. P(Len(data) + 1)
      BY <3>1, <3>2
    <3> QED BY <3>2, <3>3
  <2>2. CASE ends # {}
    <3>1. ends \subseteq Nat
      BY <1>1
    <3>2. PICK m \in ends : \A n \in ends : m =< n
      BY <2>2, <3>1, Adler!LeastNumber
    <3>3. m \in p .. Len(data) /\ data[m] = Newline
      BY <3>2
    <3>4. \A i \in p .. m - 1 : i \notin ends
      BY <1>1, <3>2, <3>3
    <3>5. \A i \in p .. m - 1 : data[i] # Newline
      BY <1>1, <3>3, <3>4
    <3> QED BY <1>1, <3>3, <3>5
  <2> QED BY <2>1, <2>2
<1> QED
  BY <1>2 DEF LineEnd

LEMMA TypedNextLine ==
    ASSUME NEW data \in Cells, NEW s \in ScanStates("json"), s.pos =< Len(data)
    PROVE  NextLine(data, s) \in ScanStates("json")
<1> DEFINE D == Disks("json", Ascii)
           end == LineEnd(data, s.pos)
           line == SubSeq(data, s.pos, end - 1)
           e == Apply(s.disk, from_str(line).val)
           Skip == [s EXCEPT !.pos = end + 1]
           Done == [s EXCEPT !.pos = end + 1, !.disk = Apply(@, from_str(line).val)]
           Bad == [s EXCEPT !.ok = FALSE]
<1>1. NextLine(data, s) \in {Skip, Bad} \/ (from_str(line).ok /\ NextLine(data, s) = Done)
  <2> HIDE DEF D, e, Skip, Done, Bad
  <2>1. CASE line = <<>>
    <3>1. NextLine(data, s) = Skip
      BY <2>1 DEF NextLine, Skip
    <3> QED BY <3>1
  <2>2. CASE line # <<>>
    <3>1. CASE from_str(line).ok
      <4>1. NextLine(data, s) = Done
        BY <2>2, <3>1 DEF NextLine, Done
      <4> QED BY <3>1, <4>1
    <3>2. CASE ~from_str(line).ok
      <4>1. NextLine(data, s) = Bad
        BY <2>2, <3>2 DEF NextLine, Bad
      <4> QED BY <4>1
    <3> QED BY <3>1, <3>2
  <2> QED BY <2>1, <2>2
<1>2. /\ Len(data) \in Nat /\ s.pos \in Nat \ {0} /\ s.disk \in D
      /\ s \in [ok : BOOLEAN, pos : Nat \ {0}, disk : D]
  BY DEF Cells, ScanStates
<1>3. end \in s.pos .. Len(data) + 1
  BY <1>2, LineEndExists
<1>4. end + 1 \in Nat \ {0} /\ end - 1 \in Nat /\ end - 1 =< Len(data) /\ s.pos =< (end - 1) + 1
  <2> HIDE DEF end
  <2> QED BY <1>2, <1>3
<1>5. line \in Cells
  <2> HIDE DEF end
  <2> QED BY <1>2, <1>4, CutOut
<1>6. from_str(line).ok => e \in D
  <2> HIDE DEF line
  <2>1. from_str(line).ok => from_str(line).val \in StoredRecords("json", Ascii)
    BY <1>5, TypedLine
  <2>2. /\ StoredRecords("json", Ascii) \subseteq Records(Ascii, Numbers("json"))
        /\ Numbers("json") \subseteq Int
    BY StoredAre DEF Numbers
  <2> QED BY <1>2, <2>1, <2>2, ApplyTyped
<1>8. Done = [s EXCEPT !.pos = end + 1, !.disk = e]
  OBVIOUS
<1> HIDE DEF e, end, line, D, Done
<1>7. /\ Skip \in [ok : BOOLEAN, pos : Nat \ {0}, disk : D]
      /\ Bad \in [ok : BOOLEAN, pos : Nat \ {0}, disk : D]
      /\ from_str(line).ok => Done \in [ok : BOOLEAN, pos : Nat \ {0}, disk : D]
  BY <1>2, <1>4, <1>6, <1>8
<1> HIDE DEF Skip, Bad
<1> QED
  BY <1>1, <1>7 DEF ScanStates, D

LEMMA TypedScan ==
    ASSUME NEW format \in {"binary", "json"}, NEW data \in Cells
    PROVE  Scanned(format, data) \in ScanStates(format)
<1> DEFINE S == States(format, data)
           n == Len(data)
           Good == {k \in 0 .. n : S[k] \in ScanStates(format)}
<1>1. n \in Nat
  BY DEF Cells
<1>2. /\ S[0] = At(Len(NewFile(format)) + 1, EmptyDisk)
      /\ \A k \in Nat : S[k + 1] = ScanTurn(format, data, S[k])
      /\ Scanned(format, data) = S[n]
  BY ScanIs
<1> HIDE DEF S
<1>3. S[0] \in ScanStates(format)
  <2>1. EmptyDisk \in Disks(format, Ascii)
    BY EmptyTyped
  <2>2. Len(NewFile(format)) + 1 \in Nat \ {0}
    BY HeaderIs
  <2> QED BY <1>2, <2>1, <2>2 DEF At, ScanStates
<1>4. ASSUME NEW k \in 0 .. n - 1, S[k] \in ScanStates(format)
      PROVE  S[k + 1] \in ScanStates(format)
  <2> DEFINE s == S[k]
  <2>1. S[k + 1] = ScanTurn(format, data, s) /\ s \in ScanStates(format)
    BY <1>1, <1>2, <1>4
  <2> HIDE DEF s
  <2>2. CASE ~s.ok \/ s.pos > n
    BY <2>1, <2>2 DEF ScanTurn
  <2>3. CASE ~(~s.ok \/ s.pos > n)
    <3>1. s.pos =< n
      BY <1>1, <2>1, <2>3 DEF ScanStates
    <3>2. CASE format = "binary"
      BY <2>1, <2>3, <3>1, <3>2, TypedNextRecord DEF ScanTurn
    <3>3. CASE format = "json"
      BY <2>1, <2>3, <3>1, <3>3, TypedNextLine DEF ScanTurn
    <3> QED BY <3>2, <3>3
  <2> QED BY <2>2, <2>3
<1>5. 0 \in Good
  BY <1>1, <1>3
<1>6. \A k \in 0 .. n - 1 : k \in Good => k + 1 \in Good
  BY <1>1, <1>4
<1> HIDE DEF Good
<1>7. n \in Good
  <2>1. \A k \in 0 .. n : k \in Good
    BY <1>1, <1>5, <1>6, UpTo
  <2> QED BY <1>1, <2>1
<1> QED
  BY <1>2, <1>7 DEF Good

\* Whatever the file has become, replay() finds a graph that can be written.
LEMMA TypedReplay ==
    ASSUME NEW format \in {"binary", "json"}, NEW data \in Cells
    PROVE  Replay(format, data).disk \in Disks(format, Ascii)
<1>1. Scanned(format, data).disk \in Disks(format, Ascii)
  BY TypedScan DEF ScanStates
<1>2. EmptyDisk \in Disks(format, Ascii)
  BY EmptyTyped
<1>3. Replay(format, data).disk \in {EmptyDisk, Scanned(format, data).disk}
  <2> HIDE DEF EmptyDisk
  <2> QED BY DEF Replay, Ok, Failed
<1> QED
  BY <1>1, <1>2, <1>3

-----------------------------------------------------------------------------
(* The fold of a log, and the records of a graph.                          *)

LEMMA FoldPrefix ==
    ASSUME NEW n \in Nat, NEW s, NEW t, \A i \in 1 .. n : s[i] = t[i]
    PROVE  \A k \in 0 .. n : Fold!State(s)[k] = Fold!State(t)[k]
<1> DEFINE F == Fold!State(s)
           G == Fold!State(t)
           same == {k \in 0 .. n : F[k] = G[k]}
<1>1. F[0] = EmptyDisk /\ \A k \in Nat : F[k + 1] = Apply(F[k], s[k + 1])
  BY FoldIs
<1>2. G[0] = EmptyDisk /\ \A k \in Nat : G[k + 1] = Apply(G[k], t[k + 1])
  BY FoldIs
<1> HIDE DEF F, G
<1>3. 0 \in same
  BY <1>1, <1>2
<1>4. \A k \in 0 .. n - 1 : k \in same => k + 1 \in same
  BY <1>1, <1>2
<1> HIDE DEF same
<1>5. \A k \in 0 .. n : k \in same
  BY <1>3, <1>4, UpTo
<1> QED
  BY <1>5 DEF same, F, G

LEMMA ExpectedAppend ==
    ASSUME NEW T, NEW records \in Seq(T), NEW rec \in T
    PROVE  /\ Expected(Append(records, rec)) = Apply(Expected(records), rec)
           /\ Fold!State(Append(records, rec))[Len(records)] = Expected(records)
<1> DEFINE n == Len(records)
           more == Append(records, rec)
<1>1. n \in Nat /\ Len(more) = n + 1 /\ more[n + 1] = rec /\ \A i \in 1 .. n : more[i] = records[i]
  OBVIOUS
<1> HIDE DEF more, n
<1>2. Fold!State(more)[n] = Fold!State(records)[n]
  <2>1. \A k \in 0 .. n : Fold!State(more)[k] = Fold!State(records)[k]
    BY <1>1, FoldPrefix
  <2> QED BY <1>1, <2>1
<1>3. Fold!State(more)[n + 1] = Apply(Fold!State(more)[n], more[n + 1])
  BY <1>1, FoldIs
<1> QED
  BY <1>1, <1>2, <1>3 DEF Expected, more, n

LEMMA ExpectedEmpty == Expected(<<>>) = EmptyDisk
<1>1. Len(<<>>) = 0
  OBVIOUS
<1> QED
  BY <1>1, FoldIs DEF Expected

LEMMA FoldTyped ==
    ASSUME NEW format \in {"binary", "json"}, NEW chars, chars \subseteq Ascii,
           NEW records \in Seq(StoredRecords(format, chars))
    PROVE  Expected(records) \in Disks(format, chars)
<1> DEFINE F == Fold!State(records)
           D == Disks(format, chars)
           n == Len(records)
           good == {k \in 0 .. n : F[k] \in D}
<1>1. F[0] = EmptyDisk /\ \A k \in Nat : F[k + 1] = Apply(F[k], records[k + 1])
  BY FoldIs
<1>2. /\ StoredRecords(format, chars) \subseteq Records(chars, Numbers(format))
      /\ Numbers(format) \subseteq Int
  BY StoredAre DEF Alphabet
<1>3. n \in Nat /\ \A i \in 1 .. n : records[i] \in Records(chars, Numbers(format))
  BY <1>2
<1> HIDE DEF F, n
<1>4. 0 \in good
  BY <1>1, <1>3, EmptyTyped
<1>5. ASSUME NEW k \in 0 .. n - 1, k \in good PROVE k + 1 \in good
  <2>1. k \in Nat /\ k + 1 \in 1 .. n /\ k + 1 \in 0 .. n /\ F[k] \in D
    BY <1>3, <1>5
  <2>2. Apply(F[k], records[k + 1]) \in D
    BY <1>2, <1>3, <2>1, ApplyTyped
  <2> QED BY <1>1, <2>1, <2>2
<1> HIDE DEF good
<1>6. n \in good
  <2>1. \A k \in 0 .. n : k \in good
    BY <1>3, <1>4, <1>5, UpTo
  <2> QED BY <1>3, <2>1
<1> QED
  BY <1>6 DEF good, F, n, Expected

NodeUpsert(id, node) == [op |-> "UpsertNode", id |-> id, node |-> node]
EdgeUpsert(id, edge) == [op |-> "UpsertEdge", id |-> id, edge |-> edge]

LEMMA LiveTyped ==
    ASSUME NEW format \in {"binary", "json"}, NEW chars, NEW d \in Disks(format, chars)
    PROVE  LiveRecords(d) \subseteq StoredRecords(format, chars)
<1>1. NodeIds \subseteq Numbers(format) /\ EdgeIds \subseteq Numbers(format)
  BY StorageAssumption DEF NodeIds, EdgeIds, Numbers
<1>2. d.nodes \in NodeMaps(format, chars) /\ d.edges \in EdgeMaps(format, chars)
  BY DEF Disks
<1>3. ASSUME NEW id \in LiveNodes(d)
      PROVE  NodeUpsert(id, d.nodes[id]) \in StoredRecords(format, chars)
  <2>1. id \in Numbers(format) /\ d.nodes[id] \in Nodes(chars, Numbers(format))
    BY <1>1, <1>2 DEF LiveNodes, NodeMaps
  <2> QED BY <2>1 DEF NodeUpsert, StoredRecords, Upserts
<1>4. ASSUME NEW id \in LiveEdges(d)
      PROVE  EdgeUpsert(id, d.edges[id]) \in StoredRecords(format, chars)
  <2>1. id \in Numbers(format) /\ d.edges[id] \in Edges(chars, Numbers(format))
    BY <1>1, <1>2 DEF LiveEdges, EdgeMaps
  <2> QED BY <2>1 DEF EdgeUpsert, StoredRecords, Upserts
<1> QED
  BY <1>3, <1>4 DEF LiveRecords, NodeUpsert, EdgeUpsert

-----------------------------------------------------------------------------
(* A file that holds records.                                              *)

\* It holds them and nothing more.
Held(format, chars, data, records) ==
    \E marks : Laid(format, chars, data, records, marks) /\ marks[Len(records)] = Len(data)

\* It holds them and a part of one more.
HeldTorn(format, chars, data, records) ==
    \E rec \in StoredRecords(format, chars) : \E marks :
        /\ Laid(format, chars, data, Append(records, rec), marks)
        /\ marks[Len(records)] < Len(data) /\ Len(data) < marks[Len(records) + 1]

LEMMA AgreeWhole ==
    ASSUME NEW data \in Cells, NEW pos \in Nat \ {0}, NEW piece \in Cells, NEW more \in Cells,
           Agree(data, pos, piece), pos + Len(piece) - 1 =< Len(data)
    PROVE  Agree(data \o more, pos, piece)
<1> DEFINE all == data \o more
           l == Len(data)
           m == Len(piece)
<1>1. l \in Nat /\ m \in Nat /\ Len(all) \in Nat /\ \A i \in 1 .. l : all[i] = data[i]
  BY DEF Cells
<1>2. \A i \in 1 .. m : pos + i - 1 =< l => data[pos + i - 1] = piece[i]
  BY DEF Agree
<1> HIDE DEF all, l, m
<1>3. ASSUME NEW i \in 1 .. m PROVE all[pos + i - 1] = piece[i]
  <2>1. pos + i - 1 =< l /\ pos + i - 1 \in 1 .. l
    BY <1>1 DEF l, m
  <2> QED BY <1>1, <1>2, <2>1
<1> QED
  BY <1>3 DEF Agree, all, m

LEMMA AgreeAdded ==
    ASSUME NEW data \in Cells, NEW piece \in Cells
    PROVE  Agree(data \o piece, Len(data) + 1, piece)
<1>1. Len(data) \in Nat /\ Len(piece) \in Nat
  BY DEF Cells
<1>2. ASSUME NEW i \in 1 .. Len(piece) PROVE (data \o piece)[Len(data) + 1 + i - 1] = piece[i]
  BY DEF Cells
<1> QED
  BY <1>2 DEF Agree

LEMMA AgreeCut ==
    ASSUME NEW data \in Cells, NEW pos \in Nat \ {0}, NEW piece \in Cells,
           NEW k \in 0 .. Len(data), Agree(data, pos, piece)
    PROVE  Agree(SubSeq(data, 1, k), pos, piece)
<1> DEFINE cut == SubSeq(data, 1, k)
           l == Len(data)
           m == Len(piece)
<1>1. l \in Nat /\ m \in Nat /\ k \in Nat /\ k =< l
  BY DEF Cells
<1>2. Len(cut) = k /\ \A i \in 1 .. k : cut[i] = data[i]
  BY DEF Cells
<1>3. \A i \in 1 .. m : pos + i - 1 =< l => data[pos + i - 1] = piece[i]
  BY DEF Agree
<1> HIDE DEF cut, l, m
<1>4. ASSUME NEW i \in 1 .. m, pos + i - 1 =< k PROVE cut[pos + i - 1] = piece[i]
  <2>1. pos + i - 1 =< l /\ pos + i - 1 \in 1 .. k
    BY <1>1, <1>4
  <2> QED BY <1>2, <1>3, <2>1
<1> QED
  BY <1>2, <1>4 DEF Agree, cut, m

LEMMA HeldNew ==
    ASSUME NEW format \in {"binary", "json"}, NEW chars
    PROVE  Held(format, chars, NewFile(format), <<>>)
<1> DEFINE marks == [k \in 0 .. 0 |-> Len(NewFile(format))]
<1>1. NewFile(format) \in Cells /\ Len(NewFile(format)) \in Nat
  BY HeaderIs
<1>2. Agree(NewFile(format), 1, NewFile(format))
  BY <1>1 DEF Agree
<1>3. Len(<<>>) = 0 /\ <<>> \in Seq(StoredRecords(format, chars))
  OBVIOUS
<1>4. marks[0] = Len(NewFile(format)) /\ marks \in [0 .. 0 -> Nat]
  BY <1>1
<1> HIDE DEF marks
<1>5. Laid(format, chars, NewFile(format), <<>>, marks)
  BY <1>1, <1>2, <1>3, <1>4 DEF Laid
<1> QED
  BY <1>3, <1>4, <1>5 DEF Held

\* It held records, and then holds one more.
Grown(format, chars, data, records, rec, piece) ==
    \E marks : /\ Laid(format, chars, data \o piece, Append(records, rec), marks)
               /\ marks[Len(records)] = Len(data)
               /\ marks[Len(records) + 1] = Len(data \o piece)

LEMMA LaidGrows ==
    ASSUME NEW format \in {"binary", "json"}, NEW chars, chars \subseteq Ascii,
           NEW data, NEW records, NEW rec \in StoredRecords(format, chars),
           NEW order \in Orders(rec), Held(format, chars, data, records)
    PROVE  Grown(format, chars, data, records, rec, Encode(format, rec, order))
<1> DEFINE piece == Encode(format, rec, order)
           n == Len(records)
           all == data \o piece
           more == Append(records, rec)
<1>1. PICK old : Laid(format, chars, data, records, old) /\ old[n] = Len(data)
  BY DEF Held
<1> DEFINE marks == [k \in 0 .. n + 1 |-> IF k = n + 1 THEN Len(all) ELSE old[k]]
<1>2. rec \in StoredRecords(format, Ascii)
  BY AsciiToo
<1>3. piece \in Cells /\ Len(piece) \in Nat
  BY <1>2, PieceIs
<1>4. /\ data \in Cells /\ records \in Seq(StoredRecords(format, chars))
      /\ old \in [0 .. n -> Nat] /\ old[0] = Len(NewFile(format))
      /\ Agree(data, 1, NewFile(format))
  BY <1>1 DEF Laid
<1>5. /\ n \in Nat /\ Len(data) \in Nat
      /\ Len(more) = n + 1 /\ more[n + 1] = rec /\ \A i \in 1 .. n : more[i] = records[i]
      /\ more \in Seq(StoredRecords(format, chars))
  BY <1>4 DEF Cells
<1>6. all \in Cells /\ Len(all) = Len(data) + Len(piece)
  <2> HIDE DEF piece
  <2> QED BY <1>3, <1>4 DEF Cells
<1>7. /\ \A k \in 0 .. n : old[k] \in Nat /\ old[k] =< Len(data)
  <2>1. Laid(format, Ascii, data, records, old)
    BY <1>1, LaidAscii
  <2>2. n \in 0 .. n
    BY <1>5
  <2> QED BY <1>1, <2>1, <2>2, MarksGrow
<1>8. Agree(data, 1, NewFile(format)) => Agree(all, 1, NewFile(format))
  <2>1. NewFile(format) \in Cells /\ Len(NewFile(format)) \in Nat
    BY HeaderIs
  <2>2. 1 + Len(NewFile(format)) - 1 =< Len(data)
    BY <1>4, <1>5, <1>7, <2>1
  <2> HIDE DEF piece
  <2> QED BY <1>3, <1>4, <2>1, <2>2, AgreeWhole
<1> HIDE DEF piece, all, more, n
<1>9. /\ marks \in [0 .. n + 1 -> Nat] /\ marks[n + 1] = Len(all)
      /\ \A k \in 0 .. n : marks[k] = old[k]
  BY <1>3, <1>5, <1>6, <1>7
<1> HIDE DEF marks
<1>10. ASSUME NEW k \in 1 .. n
       PROVE  \E o \in Orders(more[k]) :
                  /\ marks[k] = marks[k - 1] + Len(Encode(format, more[k], o))
                  /\ Agree(all, marks[k - 1] + 1, Encode(format, more[k], o))
  <2>1. more[k] = records[k] /\ marks[k] = old[k] /\ marks[k - 1] = old[k - 1]
        /\ old[k - 1] \in Nat /\ old[k] =< Len(data)
    BY <1>5, <1>7, <1>9
  <2>2. PICK o \in Orders(records[k]) :
            /\ old[k] = old[k - 1] + Len(Encode(format, records[k], o))
            /\ Agree(data, old[k - 1] + 1, Encode(format, records[k], o))
    BY <1>1 DEF Laid, n
  <2>3. records[k] \in StoredRecords(format, Ascii)
    BY <1>4, <1>5, AsciiToo DEF n
  <2> DEFINE e == Encode(format, records[k], o)
  <2>4. e \in Cells /\ Len(e) \in Nat
    BY <2>3, PieceIs
  <2> HIDE DEF e
  <2>5. old[k - 1] + 1 \in Nat \ {0} /\ (old[k - 1] + 1) + Len(e) - 1 =< Len(data)
    BY <1>5, <2>1, <2>2, <2>4 DEF e
  <2>6. Agree(all, old[k - 1] + 1, e)
    BY <1>3, <1>4, <2>2, <2>4, <2>5, AgreeWhole DEF all, e
  <2> QED BY <2>1, <2>2, <2>6 DEF e
<1>11. /\ marks[n + 1] = marks[n] + Len(Encode(format, rec, order)) /\ marks[n] = Len(data)
       /\ Agree(all, marks[n] + 1, Encode(format, rec, order))
  <2>1. marks[n] = Len(data)
    BY <1>1, <1>5, <1>9
  <2> QED BY <1>3, <1>4, <1>6, <1>9, <2>1, AgreeAdded DEF all, piece
<1>12. ASSUME NEW k \in 1 .. n + 1
       PROVE  \E o \in Orders(more[k]) :
                  /\ marks[k] = marks[k - 1] + Len(Encode(format, more[k], o))
                  /\ Agree(all, marks[k - 1] + 1, Encode(format, more[k], o))
  <2>1. CASE k = n + 1
    <3>1. more[k] = rec /\ k - 1 = n
      BY <1>5, <2>1
    <3> QED BY <1>11, <2>1, <3>1
  <2>2. CASE k # n + 1
    <3>1. k \in 1 .. n
      BY <1>5, <2>2
    <3> QED BY <1>10, <3>1
  <2> QED BY <2>1, <2>2
<1>13. marks[0] = Len(NewFile(format))
  BY <1>4, <1>5, <1>9
<1>14. Laid(format, chars, all, more, marks)
  BY <1>4, <1>5, <1>6, <1>8, <1>9, <1>12, <1>13 DEF Laid
<1> QED
  BY <1>9, <1>11, <1>14 DEF Grown, all, more, n, piece

LEMMA LaidCut ==
    ASSUME NEW format \in {"binary", "json"}, NEW chars, chars \subseteq Ascii,
           NEW data, NEW records, NEW marks, Laid(format, chars, data, records, marks),
           NEW k \in 0 .. Len(data)
    PROVE  /\ Laid(format, chars, SubSeq(data, 1, k), records, marks)
           /\ Len(SubSeq(data, 1, k)) = k
<1> DEFINE cut == SubSeq(data, 1, k)
           n == Len(records)
<1>1. /\ data \in Cells /\ records \in Seq(StoredRecords(format, chars))
      /\ marks \in [0 .. n -> Nat] /\ marks[0] = Len(NewFile(format))
      /\ Agree(data, 1, NewFile(format))
  BY DEF Laid
<1>2. cut \in Cells /\ Len(cut) = k
  BY <1>1 DEF Cells
<1>3. Agree(cut, 1, NewFile(format))
  BY <1>1, HeaderIs, AgreeCut
<1>4. ASSUME NEW j \in 1 .. n
      PROVE  \E o \in Orders(records[j]) :
                 /\ marks[j] = marks[j - 1] + Len(Encode(format, records[j], o))
                 /\ Agree(cut, marks[j - 1] + 1, Encode(format, records[j], o))
  <2>1. PICK o \in Orders(records[j]) :
            /\ marks[j] = marks[j - 1] + Len(Encode(format, records[j], o))
            /\ Agree(data, marks[j - 1] + 1, Encode(format, records[j], o))
    BY DEF Laid
  <2>2. records[j] \in StoredRecords(format, Ascii)
    BY <1>1, AsciiToo
  <2> DEFINE e == Encode(format, records[j], o)
  <2>3. e \in Cells
    BY <2>2, PieceIs
  <2>4. marks[j - 1] + 1 \in Nat \ {0}
    BY <1>1
  <2>5. Agree(data, marks[j - 1] + 1, e)
    BY <2>1
  <2> HIDE DEF e
  <2>6. Agree(cut, marks[j - 1] + 1, e)
    BY <1>1, <2>3, <2>4, <2>5, AgreeCut
  <2> QED BY <2>1, <2>6 DEF e
<1> HIDE DEF cut
<1>5. Laid(format, chars, cut, records, marks)
  BY <1>1, <1>2, <1>3, <1>4 DEF Laid
<1> QED
  BY <1>2, <1>5 DEF cut

LEMMA HeldGrows ==
    ASSUME NEW format \in {"binary", "json"}, NEW chars, chars \subseteq Ascii,
           NEW data, NEW records, NEW rec \in StoredRecords(format, chars),
           NEW order \in Orders(rec), Held(format, chars, data, records)
    PROVE  Held(format, chars, data \o Encode(format, rec, order), Append(records, rec))
<1>1. records \in Seq(StoredRecords(format, chars))
  BY DEF Held, Laid
<1>2. Len(Append(records, rec)) = Len(records) + 1
  BY <1>1
<1>3. PICK marks :
          /\ Laid(format, chars, data \o Encode(format, rec, order), Append(records, rec), marks)
          /\ marks[Len(records) + 1] = Len(data \o Encode(format, rec, order))
  BY LaidGrows DEF Grown
<1> QED
  BY <1>2, <1>3 DEF Held

LEMMA HeldTears ==
    ASSUME NEW format \in {"binary", "json"}, NEW chars, chars \subseteq Ascii,
           NEW data, NEW records, NEW rec \in StoredRecords(format, chars),
           NEW order \in Orders(rec), Held(format, chars, data, records),
           NEW k \in 1 .. Len(Encode(format, rec, order)) - 1
    PROVE  HeldTorn(format, chars, data \o SubSeq(Encode(format, rec, order), 1, k), records)
<1> DEFINE piece == Encode(format, rec, order)
           all == data \o piece
           more == Append(records, rec)
           n == Len(records)
           l == Len(data) + k
<1>1. PICK marks : /\ Laid(format, chars, all, more, marks)
                   /\ marks[n] = Len(data)
                   /\ marks[n + 1] = Len(all)
  <2>1. Grown(format, chars, data, records, rec, piece)
    BY LaidGrows
  <2> QED BY <2>1 DEF Grown
<1>2. data \in Cells /\ Len(data) \in Nat
  BY DEF Held, Laid, Cells
<1>3. piece \in Cells /\ Len(piece) \in Nat
  <2>1. rec \in StoredRecords(format, Ascii)
    BY AsciiToo
  <2> QED BY <2>1, PieceIs
<1> HIDE DEF piece
<1>4. Len(all) = Len(data) + Len(piece) /\ k \in 1 .. Len(piece) - 1
  BY <1>2, <1>3 DEF Cells, piece
<1>5. SubSeq(all, 1, l) = data \o SubSeq(piece, 1, k)
  <2>1. data \in Seq(Int) /\ piece \in Seq(Int) /\ all \in Seq(Int)
    BY <1>2, <1>3 DEF Cells
  <2>2. l \in Nat /\ l =< Len(all)
    BY <1>2, <1>3, <1>4
  <2>3. /\ Len(SubSeq(all, 1, l)) = l
        /\ \A i \in 1 .. l : SubSeq(all, 1, l)[i] = all[i]
    BY <2>1, <2>2
  <2>4. /\ Len(data \o SubSeq(piece, 1, k)) = l
        /\ \A i \in 1 .. l : (data \o SubSeq(piece, 1, k))[i] = all[i]
    BY <1>2, <1>3, <1>4, <2>1
  <2>5. SubSeq(all, 1, l) \in Seq(Int) /\ data \o SubSeq(piece, 1, k) \in Seq(Int)
    BY <1>3, <1>4, <2>1, <2>2
  <2> HIDE DEF l, all
  <2> QED BY <2>3, <2>4, <2>5, SeqEqual
<1>6. l \in 0 .. Len(all) /\ Len(data) < l /\ l < Len(all)
  BY <1>2, <1>3, <1>4
<1> HIDE DEF all, l, more, n
<1>7. Laid(format, chars, SubSeq(all, 1, l), more, marks) /\ Len(SubSeq(all, 1, l)) = l
  BY <1>1, <1>6, LaidCut
<1> QED
  BY <1>1, <1>5, <1>6, <1>7 DEF HeldTorn, more, n, piece

LEMMA HeldReplay ==
    ASSUME NEW format \in {"binary", "json"}, NEW chars, chars \subseteq Ascii,
           NEW data, NEW records, Held(format, chars, data, records)
    PROVE  Replay(format, data) = Ok(Expected(records))
<1>1. PICK marks : Laid(format, chars, data, records, marks) /\ marks[Len(records)] = Len(data)
  BY DEF Held
<1>2. Len(records) \in 0 .. Len(records)
  BY <1>1 DEF Laid
<1>3. Replay(format, data) = Ok(Fold!State(records)[Len(records)])
  BY <1>1, <1>2, ReplayOfLaid
<1> QED
  BY <1>3 DEF Expected

LEMMA TornReplay ==
    ASSUME NEW data, NEW records \in Seq(StoredRecords("binary", Silent)),
           HeldTorn("binary", Silent, data, records)
    PROVE  Replay("binary", data) = Ok(Expected(records))
<1> DEFINE n == Len(records)
<1>1. PICK rec \in StoredRecords("binary", Silent) : \E marks :
          /\ Laid("binary", Silent, data, Append(records, rec), marks)
          /\ marks[n] < Len(data) /\ Len(data) < marks[n + 1]
  BY DEF HeldTorn
<1>2. PICK marks :
          /\ Laid("binary", Silent, data, Append(records, rec), marks)
          /\ marks[n] < Len(data) /\ Len(data) < marks[n + 1]
  BY <1>1
<1> DEFINE more == Append(records, rec)
<1>3. n \in 0 .. Len(more) /\ n < Len(more)
  OBVIOUS
<1>4. Fold!State(more)[n] = Expected(records)
  BY ExpectedAppend
<1> HIDE DEF n, more
<1>5. Replay("binary", data) = Ok(Fold!State(more)[n])
  <2>1. "binary" \in {"binary", "json"} /\ Silent \subseteq Ascii
    BY AsciiIsInt
  <2>2. Laid("binary", Silent, data, more, marks)
    BY <1>2 DEF more
  <2> QED BY <1>2, <1>3, <2>1, <2>2, ReplayOfLaid
<1> QED
  BY <1>4, <1>5

\* A file without its header is as good as none.
LEMMA ShortReplay ==
    ASSUME NEW format, NEW data, Len(data) < Len(NewFile(format))
    PROVE  Replay(format, data) = Ok(Expected(<<>>))
BY ExpectedEmpty DEF Replay

-----------------------------------------------------------------------------
(* The inductive invariant.                                                *)

\* The characters that the records of the program are known to keep to.
Chars == IF setup.format = "binary" /\ QuietTexts THEN Silent ELSE Ascii

TypeOK ==
    /\ setup \in Setups
    /\ exists \in BOOLEAN
    /\ cells \in Cells
    /\ tmp \in Cells
    /\ handle \in {"closed", "path", "orphan"}
    /\ op \in [call : {"idle", "header", "write", "reopen"},
               todo : SUBSET StoredRecords(setup.format, Ascii),
               written : Seq(StoredRecords(setup.format, Ascii))]
    /\ log \in Seq(StoredRecords(setup.format, Ascii))
    /\ torn \in BOOLEAN

\* A call is only in progress where there is a process, and the header is only
\* written to an empty file.
CallsInOrder ==
    /\ ~exists => handle = "closed" /\ cells = <<>> /\ log = <<>> /\ ~torn
    /\ op.call = "header" => log = <<>> /\ ~torn
    /\ handle = "closed" => op = Idle

Sound(format, chars, data, records, isTorn) ==
    /\ records \in Seq(StoredRecords(format, chars))
    /\ \/ Len(data) < Len(NewFile(format)) /\ records = <<>> /\ ~isTorn
       \/ ~isTorn /\ Held(format, chars, data, records)
       \/ isTorn /\ HeldTorn(format, chars, data, records)

\* Short of damage the file is its log, but for a header that is missing or for
\* a record that is torn.
FileSound == damage = {} => Sound(setup.format, Chars, cells, log, torn)

\* The temporary file is what compact() has written of it.
TmpSound ==
    op.call = "write" =>
        /\ Held(setup.format, Ascii, tmp, op.written)
        /\ damage = {} => /\ op.todo \subseteq StoredRecords(setup.format, Chars)
                          /\ Held(setup.format, Chars, tmp, op.written)

IInv == TypeOK /\ CallsInOrder /\ FileSound /\ TmpSound

LEMMA SetupIs ==
    ASSUME setup \in Setups
    PROVE  /\ setup.format \in {"binary", "json"}
           /\ Chars \subseteq Ascii
           /\ setup.records \subseteq StoredRecords(setup.format, Chars)
           /\ setup.records \subseteq StoredRecords(setup.format, Ascii)
           /\ StoredRecords(setup.format, Chars) \subseteq StoredRecords(setup.format, Ascii)
<1>1. setup.format \in {"binary", "json"} /\ setup.records \subseteq StoredRecords(setup.format, Ascii)
  BY SetupsAssumption
<1>2. Chars \subseteq Ascii
  BY AsciiIsInt DEF Chars
<1>3. setup.records \subseteq StoredRecords(setup.format, Chars)
  BY <1>1 DEF Chars, QuietTexts
<1>4. StoredRecords(setup.format, Chars) \subseteq StoredRecords(setup.format, Ascii)
  BY <1>1, <1>2, AsciiToo
<1> QED
  BY <1>1, <1>2, <1>3, <1>4

LEMMA SoundNew ==
    ASSUME NEW format \in {"binary", "json"}, NEW chars
    PROVE  Sound(format, chars, NewFile(format), <<>>, FALSE)
<1>1. <<>> \in Seq(StoredRecords(format, chars))
  OBVIOUS
<1> QED
  BY <1>1, HeldNew DEF Sound

LEMMA SoundShort ==
    ASSUME NEW format \in {"binary", "json"}, NEW chars, NEW data,
           Len(data) < Len(NewFile(format))
    PROVE  Sound(format, chars, data, <<>>, FALSE)
<1>1. <<>> \in Seq(StoredRecords(format, chars))
  OBVIOUS
<1> QED
  BY <1>1 DEF Sound

LEMMA SoundGrows ==
    ASSUME NEW format \in {"binary", "json"}, NEW chars, chars \subseteq Ascii,
           NEW data, NEW records, NEW rec \in StoredRecords(format, chars), NEW order \in Orders(rec),
           NEW isTorn, ~isTorn, Sound(format, chars, data, records, isTorn),
           ~(Len(data) < Len(NewFile(format)))
    PROVE  Sound(format, chars, data \o Encode(format, rec, order), Append(records, rec), isTorn)
<1>1. Held(format, chars, data, records) /\ records \in Seq(StoredRecords(format, chars))
  BY DEF Sound
<1>2. Append(records, rec) \in Seq(StoredRecords(format, chars))
  BY <1>1
<1>3. Held(format, chars, data \o Encode(format, rec, order), Append(records, rec))
  BY <1>1, HeldGrows
<1> QED
  BY <1>2, <1>3 DEF Sound

LEMMA SoundReplay ==
    ASSUME NEW format \in {"binary", "json"}, NEW chars, chars \subseteq Ascii,
           NEW data, NEW records, NEW isTorn, Sound(format, chars, data, records, isTorn),
           isTorn => format = "binary" /\ chars = Silent
    PROVE  Replay(format, data) = Ok(Expected(records))
<1>1. CASE Len(data) < Len(NewFile(format)) /\ records = <<>>
  BY <1>1, ShortReplay
<1>2. CASE Held(format, chars, data, records)
  BY <1>2, HeldReplay
<1>3. CASE isTorn /\ HeldTorn(format, chars, data, records)
  <2>1. records \in Seq(StoredRecords("binary", Silent)) /\ HeldTorn("binary", Silent, data, records)
    BY <1>3 DEF Sound
  <2>2. Replay("binary", data) = Ok(Expected(records))
    BY <2>1, TornReplay
  <2> QED BY <1>3, <2>2
<1> QED
  BY <1>1, <1>2, <1>3 DEF Sound

\* What is compacted keeps to the characters of what was appended.
LEMMA LiveOfSound ==
    ASSUME TypeOK, FileSound
    PROVE  /\ LiveRecords(Replay(setup.format, cells).disk) \subseteq StoredRecords(setup.format, Ascii)
           /\ damage = {} => LiveRecords(Replay(setup.format, cells).disk)
                                 \subseteq StoredRecords(setup.format, Chars)
<1> DEFINE d == Replay(setup.format, cells).disk
<1>1. setup.format \in {"binary", "json"} /\ Chars \subseteq Ascii
  BY SetupIs DEF TypeOK
<1>2. LiveRecords(d) \subseteq StoredRecords(setup.format, Ascii)
  <2>1. d \in Disks(setup.format, Ascii)
    BY <1>1, TypedReplay DEF TypeOK
  <2> QED BY <1>1, <2>1, LiveTyped
<1>3. CASE Chars = Ascii
  BY <1>2, <1>3
<1>4. ASSUME Chars # Ascii, damage = {}
      PROVE  LiveRecords(d) \subseteq StoredRecords(setup.format, Chars)
  <2>1. setup.format = "binary" /\ Chars = Silent
    BY <1>4 DEF Chars
  <2>2. Sound(setup.format, Chars, cells, log, torn)
    BY <1>4 DEF FileSound
  <2>3. Replay(setup.format, cells) = Ok(Expected(log))
    BY <1>1, <2>1, <2>2, SoundReplay
  <2>4. d = Expected(log)
    BY <2>3 DEF Ok
  <2>5. log \in Seq(StoredRecords(setup.format, Chars))
    BY <2>2 DEF Sound
  <2> HIDE DEF d
  <2>6. d \in Disks(setup.format, Chars)
    BY <1>1, <2>4, <2>5, FoldTyped
  <2> QED BY <1>1, <2>6, LiveTyped
<1> QED
  BY <1>2, <1>3, <1>4

LEMMA NewFileIs ==
    ASSUME NEW format \in {"binary", "json"}
    PROVE  /\ format = "binary" => NewFile(format) = Header /\ Len(NewFile(format)) = 2
           /\ format = "json" => NewFile(format) = <<>>
BY DEF NewFile, Header

LEMMA SoundEmpty ==
    ASSUME NEW format \in {"binary", "json"}, NEW chars
    PROVE  Sound(format, chars, <<>>, <<>>, FALSE)
<1>1. CASE format = "binary"
  <2>1. Len(<<>>) < Len(NewFile(format))
    BY <1>1, NewFileIs
  <2> QED BY <2>1, SoundShort
<1>2. CASE format = "json"
  <2>1. NewFile(format) = <<>>
    BY <1>2, NewFileIs
  <2> QED BY <2>1, SoundNew
<1> QED
  BY <1>1, <1>2

LEMMA InitHolds == Init => IInv
<1> SUFFICES ASSUME Init PROVE IInv
  OBVIOUS
<1>1. setup \in Setups /\ setup.format \in {"binary", "json"}
  BY SetupIs DEF Init
<1>2. TypeOK
  <2>1. Idle \in [call : {"idle", "header", "write", "reopen"},
                  todo : SUBSET StoredRecords(setup.format, Ascii),
                  written : Seq(StoredRecords(setup.format, Ascii))]
    BY DEF Idle
  <2>2. <<>> \in Cells /\ <<>> \in Seq(StoredRecords(setup.format, Ascii))
    BY DEF Cells
  <2> QED BY <1>1, <2>1, <2>2 DEF Init, TypeOK
<1>3. CallsInOrder
  BY DEF Init, CallsInOrder, Idle
<1>4. FileSound
  BY <1>1, SoundEmpty DEF Init, FileSound
<1>5. TmpSound
  BY DEF Init, TmpSound, Idle
<1> QED
  BY <1>2, <1>3, <1>4, <1>5 DEF IInv

LEMMA SetupStays ==
    ASSUME [Next]_vars
    PROVE  setup' = setup /\ Chars' = Chars
<1>1. setup' = setup
  BY DEF Next, vars, OpenExisting, OpenCreates, OpenWritesHeader, OpenFails, AppendRecord,
         AppendStops, CompactStart, CompactStep, CompactWrites, CompactRenames, CompactReopens,
         CompactWriteFails, CompactReopenFails, Crash, Corrupt
<1> QED
  BY <1>1 DEF Chars, QuietTexts

\* No step disturbs the types.
LEMMA TypeKept ==
    ASSUME IInv, Next
    PROVE  TypeOK'
<1> DEFINE R == StoredRecords(setup.format, Ascii)
           O == [call : {"idle", "header", "write", "reopen"}, todo : SUBSET R, written : Seq(R)]
<1>1. /\ setup' = setup /\ setup \in Setups /\ setup.format \in {"binary", "json"}
      /\ setup.records \subseteq R
  BY SetupStays, SetupIs DEF IInv, TypeOK
<1>2. /\ exists \in BOOLEAN /\ cells \in Seq(Int) /\ tmp \in Seq(Int)
      /\ handle \in {"closed", "path", "orphan"} /\ op \in O /\ log \in Seq(R) /\ torn \in BOOLEAN
  BY DEF IInv, TypeOK, Cells
<1>3. SUFFICES /\ exists' \in BOOLEAN /\ cells' \in Seq(Int) /\ tmp' \in Seq(Int)
               /\ handle' \in {"closed", "path", "orphan"} /\ op' \in O /\ log' \in Seq(R)
               /\ torn' \in BOOLEAN
  BY <1>1, <1>3 DEF TypeOK, Cells
<1>4. NewFile(setup.format) \in Seq(Int) /\ Len(NewFile(setup.format)) \in Nat
  BY <1>1, HeaderIs DEF Cells
<1>5. ASSUME NEW rec \in R, NEW order \in Orders(rec)
      PROVE  /\ Encode(setup.format, rec, order) \in Seq(Int)
             /\ Len(Encode(setup.format, rec, order)) \in Nat
  BY <1>1, PieceIs DEF Cells
<1>6. \A call \in {"idle", "header", "write", "reopen"}, todo \in SUBSET R, written \in Seq(R) :
          [call |-> call, todo |-> todo, written |-> written] \in O
  OBVIOUS
<1>7. <<>> \in Seq(Int) /\ <<>> \in Seq(R) /\ {} \in SUBSET R
  OBVIOUS
<1>8. Idle \in O /\ [Idle EXCEPT !.call = "header"] \in O /\ [Idle EXCEPT !.call = "reopen"] \in O
  BY <1>7 DEF Idle
<1>9. op.todo \in SUBSET R /\ op.written \in Seq(R)
  BY <1>2
<1>10. LiveRecords(Replay(setup.format, cells).disk) \in SUBSET R
  BY LiveOfSound DEF IInv
<1>11. ASSUME NEW rec \in R
       PROVE  [op EXCEPT !.todo = @ \ {rec}, !.written = Append(@, rec)] \in O
  <2>1. op.todo \ {rec} \in SUBSET R /\ Append(op.written, rec) \in Seq(R)
    BY <1>9
  <2> QED BY <1>2, <2>1
<1> HIDE DEF O, R
<1>12. CASE OpenExisting
  BY <1>2, <1>12 DEF OpenExisting
<1>13. CASE OpenCreates
  BY <1>2, <1>8, <1>13 DEF OpenCreates
<1>14. CASE OpenWritesHeader
  BY <1>2, <1>4, <1>8, <1>14 DEF OpenWritesHeader
<1>15. CASE OpenFails
  <2>1. cells' \in Seq(Int)
    <3>1. PICK k \in 0 .. Len(NewFile(setup.format)) - 1 : cells' = SubSeq(NewFile(setup.format), 1, k)
      BY <1>15 DEF OpenFails
    <3> DEFINE new == NewFile(setup.format)
    <3> HIDE DEF new
    <3> QED BY <1>4, <3>1, SubSeqProperties DEF new
  <2> QED BY <1>2, <1>8, <1>15, <2>1 DEF OpenFails
<1>16. ASSUME NEW rec \in setup.records, NEW order \in Orders(rec),
              AppendRecord(rec, order) \/ AppendStops(rec, order)
       PROVE  /\ exists' \in BOOLEAN /\ cells' \in Seq(Int) /\ tmp' \in Seq(Int)
              /\ handle' \in {"closed", "path", "orphan"} /\ op' \in O /\ log' \in Seq(R)
              /\ torn' \in BOOLEAN
  <2> DEFINE piece == Encode(setup.format, rec, order)
  <2>1. rec \in R /\ piece \in Seq(Int) /\ Len(piece) \in Nat
    BY <1>1, <1>5
  <2>2. Append(log, rec) \in Seq(R) /\ cells \o piece \in Seq(Int)
    BY <1>2, <2>1
  <2>3. ASSUME NEW k \in 1 .. Len(piece) - 1
        PROVE  cells \o SubSeq(piece, 1, k) \in Seq(Int)
    <3> HIDE DEF piece
    <3>1. SubSeq(piece, 1, k) \in Seq(Int)
      BY <2>1, SubSeqProperties
    <3> QED BY <1>2, <3>1
  <2>4. CASE AppendRecord(rec, order)
    BY <1>2, <2>2, <2>4 DEF AppendRecord
  <2>5. CASE AppendStops(rec, order)
    BY <1>2, <2>3, <2>5 DEF AppendStops
  <2> QED BY <1>16, <2>4, <2>5
<1>17. CASE CompactStart
  BY <1>2, <1>4, <1>6, <1>7, <1>10, <1>17 DEF CompactStart
<1>18. CASE CompactStep
  <2>1. ASSUME NEW rec \in op.todo, NEW order \in Orders(rec), CompactWrites(rec, order)
        PROVE  /\ exists' \in BOOLEAN /\ cells' \in Seq(Int) /\ tmp' \in Seq(Int)
               /\ handle' \in {"closed", "path", "orphan"} /\ op' \in O /\ log' \in Seq(R)
               /\ torn' \in BOOLEAN
    <3>1. rec \in R /\ tmp \o Encode(setup.format, rec, order) \in Seq(Int)
      BY <1>2, <1>5, <1>9
    <3> QED BY <1>2, <1>11, <2>1, <3>1 DEF CompactWrites
  <2>2. CASE CompactRenames
    BY <1>2, <1>7, <1>8, <1>9, <2>2 DEF CompactRenames
  <2>3. CASE CompactReopens
    BY <1>2, <1>8, <2>3 DEF CompactReopens
  <2> QED BY <1>18, <2>1, <2>2, <2>3 DEF CompactStep
<1>19. CASE CompactWriteFails
  BY <1>2, <1>8, <1>19 DEF CompactWriteFails
<1>20. CASE CompactReopenFails
  BY <1>2, <1>8, <1>20 DEF CompactReopenFails
<1>21. CASE Crash
  BY <1>2, <1>8, <1>21 DEF Crash
<1>22. CASE Corrupt
  <2>1. PICK i \in Len(NewFile(setup.format)) + 1 .. Len(cells), delta \in {-1, 1} :
            cells' = [cells EXCEPT ![i] = @ + delta]
    BY <1>22 DEF Corrupt
  <2>2. cells' \in Seq(Int)
    <3>1. i \in 1 .. Len(cells) /\ cells[i] \in Int /\ delta \in Int
      BY <1>2, <1>4
    <3> DEFINE v == cells[i] + delta
    <3>2. v \in Int /\ cells' = [cells EXCEPT ![i] = v]
      BY <2>1, <3>1
    <3> HIDE DEF v
    <3> QED BY <1>2, <3>1, <3>2, ExceptSeq
  <2> QED BY <1>2, <1>22, <2>2 DEF Corrupt
<1> QED
  BY <1>12, <1>13, <1>14, <1>15, <1>16, <1>17, <1>18, <1>19, <1>20, <1>21, <1>22 DEF Next

LEMMA CallsKept ==
    ASSUME IInv, Next
    PROVE  CallsInOrder'
<1>1. /\ ~exists => handle = "closed" /\ cells = <<>> /\ log = <<>> /\ ~torn
      /\ op.call = "header" => log = <<>> /\ ~torn
      /\ handle = "closed" => op = Idle
  BY DEF IInv, CallsInOrder
<1>2. handle = "closed" => op.call = "idle"
  BY <1>1 DEF Idle
<1>3. SUFFICES /\ ~exists' => handle' = "closed" /\ cells' = <<>> /\ log' = <<>> /\ ~torn'
               /\ op'.call = "header" => log' = <<>> /\ ~torn'
               /\ handle' = "closed" => op' = Idle
  BY <1>3 DEF CallsInOrder
<1>4. Idle.call = "idle" /\ [Idle EXCEPT !.call = "header"].call = "header"
      /\ [Idle EXCEPT !.call = "reopen"].call = "reopen"
  BY DEF Idle
<1>5. CASE OpenExisting
  BY <1>1, <1>5 DEF OpenExisting
<1>6. CASE OpenCreates
  BY <1>1, <1>4, <1>6 DEF OpenCreates
<1>7. CASE OpenWritesHeader
  BY <1>1, <1>2, <1>4, <1>7 DEF OpenWritesHeader
<1>8. CASE OpenFails
  BY <1>1, <1>2, <1>4, <1>8 DEF OpenFails
<1>9. ASSUME NEW rec, NEW order, AppendRecord(rec, order) \/ AppendStops(rec, order)
      PROVE  /\ ~exists' => handle' = "closed" /\ cells' = <<>> /\ log' = <<>> /\ ~torn'
             /\ op'.call = "header" => log' = <<>> /\ ~torn'
             /\ handle' = "closed" => op' = Idle
  BY <1>1, <1>4, <1>9 DEF AppendRecord, AppendStops, Ready
<1>10. CASE CompactStart
  BY <1>1, <1>10 DEF CompactStart, Ready
<1>11. CASE CompactStep
  <2>1. ASSUME NEW rec, NEW order, CompactWrites(rec, order)
        PROVE  op.call = "write" /\ op'.call = "write" /\ UNCHANGED <<exists, cells, handle, log, torn>>
    <3>1. op.call = "write" /\ op' = [op EXCEPT !.todo = @ \ {rec}, !.written = Append(@, rec)]
          /\ UNCHANGED <<exists, cells, handle, log, torn>>
      BY <2>1 DEF CompactWrites
    <3>2. op' = [[op EXCEPT !.todo = op.todo \ {rec}] EXCEPT !.written = Append(op.written, rec)]
      BY <3>1
    <3> DEFINE todo == op.todo \ {rec}
               written == Append(op.written, rec)
    <3>3. op' = [op EXCEPT !.todo = todo, !.written = written]
      BY <3>1
    <3>4. op \in [call : {"idle", "header", "write", "reopen"},
                  todo : SUBSET StoredRecords(setup.format, Ascii),
                  written : Seq(StoredRecords(setup.format, Ascii))]
      BY DEF IInv, TypeOK
    <3> HIDE DEF todo, written
    <3>5. op'.call = op.call
      BY <3>3, <3>4
    <3> QED BY <3>1, <3>5
  <2>2. CASE CompactRenames
    BY <1>1, <1>2, <1>4, <2>2 DEF CompactRenames, RenameReady
  <2>3. CASE CompactReopens
    BY <1>1, <1>2, <1>4, <2>3 DEF CompactReopens
  <2> QED BY <1>1, <1>2, <1>11, <2>1, <2>2, <2>3 DEF CompactStep
<1>12. CASE CompactWriteFails
  BY <1>1, <1>2, <1>4, <1>12 DEF CompactWriteFails
<1>13. CASE CompactReopenFails
  BY <1>1, <1>2, <1>4, <1>13 DEF CompactReopenFails
<1>14. CASE Crash
  BY <1>1, <1>2, <1>4, <1>14 DEF Crash
<1>15. CASE Corrupt
  BY <1>1, <1>15 DEF Corrupt, Ready
<1> QED
  BY <1>5, <1>6, <1>7, <1>8, <1>9, <1>10, <1>11, <1>12, <1>13, <1>14, <1>15 DEF Next

\* The file stays sound, through every call.
LEMMA FileKept ==
    ASSUME IInv, Next
    PROVE  FileSound'
<1> DEFINE f == setup.format
           c == Chars
<1>1. /\ f \in {"binary", "json"} /\ c \subseteq Ascii
      /\ setup.records \subseteq StoredRecords(f, c)
  BY SetupIs DEF IInv, TypeOK
<1>2. setup' = setup /\ Chars' = Chars
  BY SetupStays
<1>3. SUFFICES ASSUME damage' = {} PROVE Sound(f, c, cells', log', torn')
  BY <1>2 DEF FileSound
<1>4. damage = {} => Sound(f, c, cells, log, torn)
  BY DEF IInv, FileSound
<1>5. /\ op.call = "header" => log = <<>> /\ ~torn
      /\ torn \in BOOLEAN
  BY DEF IInv, CallsInOrder, TypeOK
<1>6. op.call = "write" /\ damage = {} => Held(f, c, tmp, op.written)
  BY DEF IInv, TmpSound
<1>7. setup.format = f
  OBVIOUS
<1> HIDE DEF f, c
<1>8. ASSUME UNCHANGED <<cells, log, torn, damage>> PROVE Sound(f, c, cells', log', torn')
  BY <1>3, <1>4, <1>8
<1>9. CASE OpenExisting \/ OpenCreates \/ CompactStart \/ CompactWriteFails \/ CompactReopenFails
           \/ Crash
  BY <1>8, <1>9 DEF OpenExisting, OpenCreates, CompactStart, CompactWriteFails,
                    CompactReopenFails, Crash
<1>10. CASE OpenWritesHeader
  <2>1. cells' = NewFile(f) /\ log' = <<>> /\ torn' = FALSE
    BY <1>5, <1>7, <1>10 DEF OpenWritesHeader
  <2> QED BY <1>1, <2>1, SoundNew
<1>11. CASE OpenFails
  <2>1. log' = <<>> /\ torn' = FALSE
    BY <1>5, <1>11 DEF OpenFails
  <2>2. PICK k \in 0 .. Len(NewFile(f)) - 1 : cells' = SubSeq(NewFile(f), 1, k)
    BY <1>7, <1>11 DEF OpenFails
  <2>3. Len(cells') < Len(NewFile(f))
    <3>1. NewFile(f) \in Seq(Int) /\ Len(NewFile(f)) \in Nat
      BY <1>1, HeaderIs DEF Cells
    <3> DEFINE new == NewFile(f)
    <3> HIDE DEF new
    <3>2. Len(SubSeq(new, 1, k)) = k
      BY <3>1 DEF new
    <3> QED BY <2>2, <3>1, <3>2 DEF new
  <2> QED BY <1>1, <2>1, <2>3, SoundShort
<1>12. ASSUME NEW rec \in setup.records, NEW order \in Orders(rec), AppendRecord(rec, order)
       PROVE  Sound(f, c, cells', log', torn')
  <2>1. damage = {} /\ ~(Len(cells) < Len(NewFile(f))) /\ ~torn /\ handle # "orphan"
    BY <1>3, <1>7, <1>12 DEF AppendRecord, BadEnd
  <2>2. handle = "path"
    BY <1>12, <2>1 DEF AppendRecord, Ready, IInv, TypeOK
  <2>3. cells' = cells \o Encode(f, rec, order) /\ log' = Append(log, rec) /\ torn' = torn
    BY <1>7, <1>12, <2>2 DEF AppendRecord
  <2> QED BY <1>1, <1>4, <2>1, <2>3, SoundGrows
<1>13. ASSUME NEW rec \in setup.records, NEW order \in Orders(rec), AppendStops(rec, order)
       PROVE  Sound(f, c, cells', log', torn')
  <2>1. damage = {} /\ ~(Len(cells) < Len(NewFile(f))) /\ ~torn
    BY <1>3, <1>7, <1>13 DEF AppendStops, BadEnd
  <2>2. PICK k \in 1 .. Len(Encode(f, rec, order)) - 1 :
            cells' = cells \o SubSeq(Encode(f, rec, order), 1, k)
    BY <1>7, <1>13 DEF AppendStops
  <2>3. log' = log /\ torn' = TRUE
    BY <1>13 DEF AppendStops
  <2>4. rec \in StoredRecords(f, c) /\ Sound(f, c, cells, log, torn)
    BY <1>1, <1>4, <2>1
  <2>5. Sound(f, c, cells \o SubSeq(Encode(f, rec, order), 1, k), log, TRUE)
    <3>1. Held(f, c, cells, log) /\ log \in Seq(StoredRecords(f, c))
      BY <2>1, <2>4 DEF Sound
    <3>2. k \in 1 .. Len(Encode(f, rec, order)) - 1
      BY <2>2
    <3>3. HeldTorn(f, c, cells \o SubSeq(Encode(f, rec, order), 1, k), log)
      BY <1>1, <2>4, <3>1, <3>2, HeldTears
    <3> QED BY <3>1, <3>3 DEF Sound
  <2> QED BY <2>2, <2>3, <2>5
<1>14. CASE CompactStep
  <2>1. ASSUME NEW rec, NEW order, CompactWrites(rec, order)
        PROVE  Sound(f, c, cells', log', torn')
    BY <1>8, <2>1 DEF CompactWrites
  <2>2. CASE CompactRenames
    <3>1. op.call = "write" /\ damage = {} /\ cells' = tmp /\ log' = op.written /\ torn' = FALSE
      BY <1>3, <2>2 DEF CompactRenames, RenameReady
    <3>2. Held(f, c, tmp, op.written)
      BY <1>6, <3>1
    <3>3. op.written \in Seq(StoredRecords(f, c))
      BY <3>2 DEF Held, Laid
    <3> QED BY <3>1, <3>2, <3>3 DEF Sound
  <2>3. CASE CompactReopens
    BY <1>8, <2>3 DEF CompactReopens
  <2> QED BY <1>14, <2>1, <2>2, <2>3 DEF CompactStep
<1>15. CASE Corrupt
  BY <1>3, <1>15 DEF Corrupt
<1> QED
  BY <1>9, <1>10, <1>11, <1>12, <1>13, <1>14, <1>15 DEF Next

\* The temporary file stays what compact() has written.
LEMMA TmpKept ==
    ASSUME IInv, Next
    PROVE  TmpSound'
<1> DEFINE f == setup.format
           c == Chars
           Fine(temporary, o, harm) ==
               /\ Held(f, Ascii, temporary, o.written)
               /\ harm = {} => o.todo \subseteq StoredRecords(f, c) /\ Held(f, c, temporary, o.written)
<1>1. f \in {"binary", "json"} /\ c \subseteq Ascii
  BY SetupIs DEF IInv, TypeOK
<1>2. setup' = setup /\ Chars' = Chars
  BY SetupStays
<1>3. SUFFICES ASSUME op'.call = "write" PROVE Fine(tmp', op', damage')
  BY <1>2 DEF TmpSound
<1>4. op.call = "write" => Fine(tmp, op, damage)
  BY DEF IInv, TmpSound
<1>5. Idle.call = "idle" /\ [Idle EXCEPT !.call = "header"].call = "header"
      /\ [Idle EXCEPT !.call = "reopen"].call = "reopen"
  BY DEF Idle
<1>6. op \in [call : {"idle", "header", "write", "reopen"},
              todo : SUBSET StoredRecords(f, Ascii), written : Seq(StoredRecords(f, Ascii))]
  BY DEF IInv, TypeOK
<1>7. CASE CompactStart
  <2> DEFINE todo == LiveRecords(Replay(f, cells).disk)
  <2>1. /\ tmp' = NewFile(f) /\ damage' = damage
        /\ op' = [call |-> "write", todo |-> todo, written |-> <<>>]
    BY <1>7 DEF CompactStart
  <2>2. Held(f, Ascii, NewFile(f), <<>>) /\ Held(f, c, NewFile(f), <<>>)
    BY <1>1, HeldNew
  <2>3. damage = {} => todo \subseteq StoredRecords(f, c)
    BY LiveOfSound DEF IInv
  <2> HIDE DEF todo, f, c
  <2>4. op'.todo = todo /\ op'.written = <<>>
    BY <2>1
  <2> QED BY <2>1, <2>2, <2>3, <2>4
<1>8. ASSUME NEW rec \in op.todo, NEW order \in Orders(rec), CompactWrites(rec, order)
      PROVE  Fine(tmp', op', damage')
  <2> DEFINE todo == op.todo \ {rec}
             written == Append(op.written, rec)
             piece == Encode(f, rec, order)
  <2>1. /\ op.call = "write" /\ tmp' = tmp \o piece /\ damage' = damage
        /\ op' = [op EXCEPT !.todo = todo, !.written = written]
    BY <1>8 DEF CompactWrites
  <2>2. rec \in StoredRecords(f, Ascii)
    BY <1>6
  <2>3. Held(f, Ascii, tmp \o piece, written)
    BY <1>1, <1>4, <2>1, <2>2, HeldGrows
  <2>4. ASSUME damage = {} PROVE todo \subseteq StoredRecords(f, c) /\ Held(f, c, tmp \o piece, written)
    <3>1. op.todo \subseteq StoredRecords(f, c) /\ Held(f, c, tmp, op.written)
      BY <1>4, <2>1, <2>4
    <3>2. rec \in StoredRecords(f, c)
      BY <3>1
    <3>3. Held(f, c, tmp \o piece, written)
      BY <1>1, <3>1, <3>2, HeldGrows
    <3> QED BY <3>1, <3>3
  <2> HIDE DEF todo, written, piece, f, c
  <2>5. op'.todo = todo /\ op'.written = written
    BY <1>6, <2>1
  <2> QED BY <2>1, <2>3, <2>4, <2>5
<1> HIDE DEF f, c
<1>9. ASSUME UNCHANGED <<op, tmp, damage>> PROVE Fine(tmp', op', damage')
  BY <1>3, <1>4, <1>9
<1> HIDE DEF Fine
<1>10. CASE OpenExisting
  BY <1>9, <1>10 DEF OpenExisting
<1>11. CASE OpenCreates \/ OpenWritesHeader \/ OpenFails \/ CompactWriteFails \/ CompactReopenFails
            \/ Crash \/ CompactRenames \/ CompactReopens
  BY <1>3, <1>5, <1>11 DEF OpenCreates, OpenWritesHeader, OpenFails, CompactWriteFails,
                           CompactReopenFails, Crash, CompactRenames, CompactReopens
<1>12. ASSUME NEW rec, NEW order, AppendRecord(rec, order) \/ AppendStops(rec, order)
       PROVE  Fine(tmp', op', damage')
  BY <1>3, <1>5, <1>12 DEF AppendRecord, AppendStops, Ready
<1>13. CASE Corrupt
  BY <1>3, <1>5, <1>13 DEF Corrupt, Ready
<1> QED
  BY <1>7, <1>8, <1>10, <1>11, <1>12, <1>13 DEF Next, CompactStep

LEMMA IInvHolds == Spec => []IInv
<1>1. ASSUME IInv, [Next]_vars PROVE IInv'
  <2>1. CASE Next
    BY <1>1, <2>1, TypeKept, CallsKept, FileKept, TmpKept DEF IInv
  <2>2. CASE UNCHANGED vars
    <3>1. UNCHANGED <<setup, exists, cells, tmp, handle, op, log, damage, torn>>
      BY <2>2 DEF vars, file
    <3> QED BY <1>1, <3>1 DEF IInv, TypeOK, CallsInOrder, FileSound, TmpSound, Chars, QuietTexts
  <2> QED BY <1>1, <2>1, <2>2
<1> QED
  BY InitHolds, <1>1, PTL DEF Spec

\* Short of damage a file replays to the log of the records in it, whatever
\* records are written, however a write is cut and however often it is compacted.
THEOREM ReplayIsLogAlways == Spec => []ReplayIsLog
<1>1. ASSUME IInv PROVE ReplayIsLog
  <2> SUFFICES ASSUME damage = {}, torn => setup.format = "binary" /\ QuietTexts
               PROVE  Replay(setup.format, cells) = Ok(Expected(log))
    BY DEF ReplayIsLog
  <2>1. setup.format \in {"binary", "json"} /\ Chars \subseteq Ascii
    BY <1>1, SetupIs DEF IInv, TypeOK
  <2>2. Sound(setup.format, Chars, cells, log, torn)
    BY <1>1 DEF IInv, FileSound
  <2>3. torn => setup.format = "binary" /\ Chars = Silent
    BY DEF Chars
  <2> QED BY <2>1, <2>2, <2>3, SoundReplay
<1> QED
  BY IInvHolds, <1>1, PTL

-----------------------------------------------------------------------------
(* Compaction keeps the graph.                                             *)

\* What is in the new file and what is still to be written are the graph.
GraphKept(d, todo, w) ==
    /\ w.buf = NoBuffer
    /\ todo \subseteq LiveRecords(d)
    /\ \A id \in NodeIds :
          w.nodes[id] = IF NodeUpsert(id, d.nodes[id]) \in todo THEN Absent ELSE d.nodes[id]
    /\ \A id \in EdgeIds :
          w.edges[id] = IF EdgeUpsert(id, d.edges[id]) \in todo THEN Absent ELSE d.edges[id]

WritesGraph ==
    op.call = "write" =>
        GraphKept(Replay(setup.format, cells).disk, op.todo, Expected(op.written))

GraphInv == IInv /\ WritesGraph

LEMMA GraphKeptFirst ==
    ASSUME NEW d
    PROVE  GraphKept(d, LiveRecords(d), EmptyDisk)
<1>1. EmptyDisk.buf = NoBuffer /\ EmptyDisk.nodes = NoNodes /\ EmptyDisk.edges = NoEdges
  BY DEF EmptyDisk
<1>2. ASSUME NEW id \in NodeIds
      PROVE  NoNodes[id] = IF NodeUpsert(id, d.nodes[id]) \in LiveRecords(d) THEN Absent ELSE d.nodes[id]
  <2>1. NoNodes[id] = Absent
    BY DEF NoNodes
  <2>2. d.nodes[id] # Absent => NodeUpsert(id, d.nodes[id]) \in LiveRecords(d)
    BY DEF LiveRecords, LiveNodes, NodeUpsert
  <2> QED BY <2>1, <2>2
<1>3. ASSUME NEW id \in EdgeIds
      PROVE  NoEdges[id] = IF EdgeUpsert(id, d.edges[id]) \in LiveRecords(d) THEN Absent ELSE d.edges[id]
  <2>1. NoEdges[id] = Absent
    BY DEF NoEdges
  <2>2. d.edges[id] # Absent => EdgeUpsert(id, d.edges[id]) \in LiveRecords(d)
    BY DEF LiveRecords, LiveEdges, EdgeUpsert
  <2> QED BY <2>1, <2>2
<1> QED
  BY <1>1, <1>2, <1>3 DEF GraphKept

LEMMA UpsertsDiffer ==
    /\ \A i, j, m, n : NodeUpsert(i, m) = NodeUpsert(j, n) => i = j /\ m = n
    /\ \A i, j, m, n : EdgeUpsert(i, m) = EdgeUpsert(j, n) => i = j /\ m = n
    /\ \A i, j, m, n : NodeUpsert(i, m) # EdgeUpsert(j, n)
    /\ \A i, m : NodeUpsert(i, m).op = "UpsertNode" /\ NodeUpsert(i, m).id = i
                 /\ NodeUpsert(i, m).node = m
    /\ \A i, m : EdgeUpsert(i, m).op = "UpsertEdge" /\ EdgeUpsert(i, m).id = i
                 /\ EdgeUpsert(i, m).edge = m
BY DEF NodeUpsert, EdgeUpsert

LEMMA GraphKeptOn ==
    ASSUME NEW format, NEW d, NEW todo, NEW w \in Disks(format, Ascii), GraphKept(d, todo, w),
           NEW rec \in todo
    PROVE  GraphKept(d, todo \ {rec}, Apply(w, rec))
<1> DEFINE left == todo \ {rec}
           N == NodeMaps(format, Ascii)
           E == EdgeMaps(format, Ascii)
           B == [open : BOOLEAN, txn : Int, nIns : N, eIns : E, nDel : SUBSET Int, eDel : SUBSET Int]
<1>1. /\ w.buf = NoBuffer /\ todo \subseteq LiveRecords(d)
      /\ \A id \in NodeIds :
            w.nodes[id] = IF NodeUpsert(id, d.nodes[id]) \in todo THEN Absent ELSE d.nodes[id]
      /\ \A id \in EdgeIds :
            w.edges[id] = IF EdgeUpsert(id, d.edges[id]) \in todo THEN Absent ELSE d.edges[id]
  BY DEF GraphKept
<1>2. w \in [nodes : N, edges : E, buf : B]
  BY DEF Disks
<1>3. ~w.buf.open
  BY <1>1 DEF NoBuffer, FreshBuffer
<1> HIDE DEF B
<1>4. ASSUME NEW i \in NodeIds, rec = NodeUpsert(i, d.nodes[i])
      PROVE  GraphKept(d, left, Apply(w, rec))
  <2> DEFINE node == d.nodes[i]
             v == Apply(w, rec)
  <2>1. v = [w EXCEPT !.nodes[i] = node]
    BY <1>3, <1>4, UpsertsDiffer DEF Apply, SaveNode
  <2>2. w.nodes \in N /\ i \in DOMAIN w.nodes /\ DOMAIN w.nodes = NodeIds
    BY <1>2 DEF NodeMaps
  <2> HIDE DEF N, E, v, node
  <2>3. v.nodes = [w.nodes EXCEPT ![i] = node] /\ v.edges = w.edges /\ v.buf = w.buf
    BY <1>2, <2>1
  <2>4. ASSUME NEW id \in NodeIds
        PROVE  v.nodes[id] = IF NodeUpsert(id, d.nodes[id]) \in left THEN Absent ELSE d.nodes[id]
    <3>1. CASE id = i
      <4>1. v.nodes[id] = node /\ NodeUpsert(id, d.nodes[id]) \notin left
        BY <1>4, <2>2, <2>3, <3>1
      <4> QED BY <3>1, <4>1 DEF node
    <3>2. CASE id # i
      <4>1. v.nodes[id] = w.nodes[id]
        BY <2>2, <2>3, <3>2
      <4>2. NodeUpsert(id, d.nodes[id]) # rec
        BY <1>4, <3>2, UpsertsDiffer
      <4> QED BY <1>1, <4>1, <4>2
    <3> QED BY <3>1, <3>2
  <2>5. ASSUME NEW id \in EdgeIds
        PROVE  v.edges[id] = IF EdgeUpsert(id, d.edges[id]) \in left THEN Absent ELSE d.edges[id]
    <3>1. EdgeUpsert(id, d.edges[id]) # rec
      BY <1>4, UpsertsDiffer
    <3> QED BY <1>1, <2>3, <3>1
  <2>6. left \subseteq LiveRecords(d)
    BY <1>1
  <2> HIDE DEF left
  <2>7. GraphKept(d, left, v)
    BY <1>1, <2>3, <2>4, <2>5, <2>6 DEF GraphKept
  <2> QED BY <2>7 DEF v
<1>5. ASSUME NEW i \in EdgeIds, rec = EdgeUpsert(i, d.edges[i])
      PROVE  GraphKept(d, left, Apply(w, rec))
  <2> DEFINE edge == d.edges[i]
             v == Apply(w, rec)
  <2>1. v = [w EXCEPT !.edges[i] = edge]
    BY <1>3, <1>5, UpsertsDiffer DEF Apply, SaveEdge
  <2>2. w.edges \in E /\ i \in DOMAIN w.edges /\ DOMAIN w.edges = EdgeIds
    BY <1>2 DEF EdgeMaps
  <2> HIDE DEF N, E, v, edge
  <2>3. v.edges = [w.edges EXCEPT ![i] = edge] /\ v.nodes = w.nodes /\ v.buf = w.buf
    BY <1>2, <2>1
  <2>4. ASSUME NEW id \in EdgeIds
        PROVE  v.edges[id] = IF EdgeUpsert(id, d.edges[id]) \in left THEN Absent ELSE d.edges[id]
    <3>1. CASE id = i
      <4>1. v.edges[id] = edge /\ EdgeUpsert(id, d.edges[id]) \notin left
        BY <1>5, <2>2, <2>3, <3>1
      <4> QED BY <3>1, <4>1 DEF edge
    <3>2. CASE id # i
      <4>1. v.edges[id] = w.edges[id]
        BY <2>2, <2>3, <3>2
      <4>2. EdgeUpsert(id, d.edges[id]) # rec
        BY <1>5, <3>2, UpsertsDiffer
      <4> QED BY <1>1, <4>1, <4>2
    <3> QED BY <3>1, <3>2
  <2>5. ASSUME NEW id \in NodeIds
        PROVE  v.nodes[id] = IF NodeUpsert(id, d.nodes[id]) \in left THEN Absent ELSE d.nodes[id]
    <3>1. NodeUpsert(id, d.nodes[id]) # rec
      BY <1>5, UpsertsDiffer
    <3> QED BY <1>1, <2>3, <3>1
  <2>6. left \subseteq LiveRecords(d)
    BY <1>1
  <2> HIDE DEF left
  <2>7. GraphKept(d, left, v)
    BY <1>1, <2>3, <2>4, <2>5, <2>6 DEF GraphKept
  <2> QED BY <2>7 DEF v
<1>6. \/ \E i \in NodeIds : rec = NodeUpsert(i, d.nodes[i])
      \/ \E i \in EdgeIds : rec = EdgeUpsert(i, d.edges[i])
  BY <1>1 DEF LiveRecords, LiveNodes, LiveEdges, NodeUpsert, EdgeUpsert
<1> QED
  BY <1>4, <1>5, <1>6

LEMMA GraphKeptLast ==
    ASSUME NEW format, NEW d \in Disks(format, Ascii), NEW w \in Disks(format, Ascii),
           GraphKept(d, {}, w)
    PROVE  Live(w) = Live(d)
<1>1. /\ \A id \in NodeIds : w.nodes[id] = d.nodes[id]
      /\ \A id \in EdgeIds : w.edges[id] = d.edges[id]
  BY DEF GraphKept
<1>2. /\ w.nodes \in NodeMaps(format, Ascii) /\ d.nodes \in NodeMaps(format, Ascii)
      /\ w.edges \in EdgeMaps(format, Ascii) /\ d.edges \in EdgeMaps(format, Ascii)
  BY DEF Disks
<1>3. w.nodes = d.nodes
  BY <1>1, <1>2 DEF NodeMaps
<1>4. w.edges = d.edges
  BY <1>1, <1>2 DEF EdgeMaps
<1> QED
  BY <1>3, <1>4 DEF Live

LEMMA WritesKept ==
    ASSUME GraphInv, Next
    PROVE  WritesGraph'
<1> DEFINE d == Replay(setup.format, cells).disk
<1>1. setup' = setup /\ setup.format \in {"binary", "json"}
  BY SetupStays, SetupIs DEF GraphInv, IInv, TypeOK
<1>2. SUFFICES ASSUME op'.call = "write"
               PROVE  GraphKept(Replay(setup.format, cells').disk, op'.todo, Expected(op'.written))
  BY <1>1 DEF WritesGraph
<1>3. Idle.call = "idle" /\ [Idle EXCEPT !.call = "header"].call = "header"
      /\ [Idle EXCEPT !.call = "reopen"].call = "reopen"
  BY DEF Idle
<1>4. op \in [call : {"idle", "header", "write", "reopen"},
              todo : SUBSET StoredRecords(setup.format, Ascii),
              written : Seq(StoredRecords(setup.format, Ascii))]
  BY DEF GraphInv, IInv, TypeOK
<1>5. op.call = "write" => GraphKept(d, op.todo, Expected(op.written))
  BY DEF GraphInv, WritesGraph
<1>6. CASE CompactStart
  <2>1. cells' = cells /\ op'.todo = LiveRecords(d) /\ op'.written = <<>>
    BY <1>6 DEF CompactStart
  <2>2. GraphKept(d, LiveRecords(d), Expected(<<>>))
    BY GraphKeptFirst, ExpectedEmpty
  <2> QED BY <2>1, <2>2
<1>7. ASSUME NEW rec \in op.todo, NEW order, CompactWrites(rec, order)
      PROVE  GraphKept(Replay(setup.format, cells').disk, op'.todo, Expected(op'.written))
  <2> DEFINE todo == op.todo \ {rec}
             written == Append(op.written, rec)
             R == StoredRecords(setup.format, Ascii)
  <2>1. /\ op.call = "write" /\ cells' = cells
        /\ op' = [op EXCEPT !.todo = todo, !.written = written]
    BY <1>7 DEF CompactWrites
  <2>2. op.written \in Seq(R) /\ rec \in R
    BY <1>4
  <2>3. Expected(written) = Apply(Expected(op.written), rec)
    BY <2>2, ExpectedAppend
  <2>4. Expected(op.written) \in Disks(setup.format, Ascii)
    BY <1>1, <2>2, FoldTyped
  <2> HIDE DEF R, d
  <2>5. GraphKept(d, todo, Apply(Expected(op.written), rec))
    BY <1>5, <2>1, <2>4, GraphKeptOn
  <2>6. GraphKept(d, todo, Expected(written))
    BY <2>3, <2>5
  <2> HIDE DEF todo, written
  <2>7. op'.todo = todo /\ op'.written = written
    BY <1>4, <2>1
  <2> QED BY <2>1, <2>6, <2>7 DEF d
<1> HIDE DEF d
<1>8. ASSUME UNCHANGED <<op, cells>>
      PROVE  GraphKept(Replay(setup.format, cells').disk, op'.todo, Expected(op'.written))
  BY <1>2, <1>5, <1>8 DEF d
<1>9. CASE OpenExisting
  BY <1>8, <1>9 DEF OpenExisting
<1>10. CASE OpenCreates \/ OpenWritesHeader \/ OpenFails \/ CompactWriteFails \/ CompactReopenFails
            \/ Crash \/ CompactRenames \/ CompactReopens
  BY <1>2, <1>3, <1>10 DEF OpenCreates, OpenWritesHeader, OpenFails, CompactWriteFails,
                           CompactReopenFails, Crash, CompactRenames, CompactReopens
<1>11. ASSUME NEW rec, NEW order, AppendRecord(rec, order) \/ AppendStops(rec, order)
       PROVE  FALSE
  BY <1>2, <1>3, <1>11 DEF AppendRecord, AppendStops, Ready
<1>12. CASE Corrupt
  BY <1>2, <1>3, <1>12 DEF Corrupt, Ready
<1> QED
  BY <1>6, <1>7, <1>9, <1>10, <1>11, <1>12 DEF Next, CompactStep

\* The rename of compact() puts a file in the log's place that replays to the
\* same graph, from whatever damaged file compact() was called on.
THEOREM CompactionKeepsGraphAlways == Spec => CompactionKeepsGraph
<1>1. Init => GraphInv
  BY InitHolds DEF Init, GraphInv, WritesGraph, Idle
<1>2. ASSUME GraphInv, [Next]_vars PROVE GraphInv' /\ [CompactRenames => Graph(cells') = Graph(cells)]_vars
  <2>1. CASE Next
    <3>1. IInv'
      BY <1>2, <2>1, TypeKept, CallsKept, FileKept, TmpKept DEF GraphInv, IInv
    <3>2. ASSUME CompactRenames PROVE Graph(cells') = Graph(cells)
      <4> DEFINE d == Replay(setup.format, cells).disk
                 w == Expected(op.written)
      <4>1. op.call = "write" /\ op.todo = {} /\ cells' = tmp /\ setup' = setup
        BY <3>2 DEF CompactRenames, RenameReady
      <4>2. /\ setup.format \in {"binary", "json"} /\ cells \in Cells
            /\ op.written \in Seq(StoredRecords(setup.format, Ascii))
        BY <1>2, SetupIs DEF GraphInv, IInv, TypeOK
      <4>3. Replay(setup.format, tmp) = Ok(w)
        <5>1. Held(setup.format, Ascii, tmp, op.written)
          BY <1>2, <4>1 DEF GraphInv, IInv, TmpSound
        <5> QED BY <4>2, <5>1, HeldReplay
      <4>4. GraphKept(d, {}, w)
        BY <1>2, <4>1 DEF GraphInv, WritesGraph
      <4>5. d \in Disks(setup.format, Ascii) /\ w \in Disks(setup.format, Ascii)
        BY <4>2, TypedReplay, FoldTyped
      <4> HIDE DEF d, w
      <4>6. Live(w) = Live(d)
        BY <4>4, <4>5, GraphKeptLast
      <4>7. Replay(setup.format, tmp).disk = w
        BY <4>3 DEF Ok
      <4> QED BY <4>1, <4>6, <4>7 DEF Graph, d
    <3> QED BY <1>2, <2>1, <3>1, <3>2, WritesKept DEF GraphInv
  <2>2. CASE UNCHANGED vars
    <3>1. UNCHANGED <<setup, exists, cells, tmp, handle, op, log, damage, torn>>
      BY <2>2 DEF vars, file
    <3>2. GraphInv'
      BY <1>2, <3>1 DEF GraphInv, WritesGraph, IInv, TypeOK, CallsInOrder, FileSound, TmpSound,
                        Chars, QuietTexts
    <3> QED BY <2>2, <3>2
  <2> QED BY <1>2, <2>1, <2>2
<1> QED
  BY <1>1, <1>2, PTL DEF Spec, CompactionKeepsGraph

-----------------------------------------------------------------------------
(* The size of a record does not depend on the order of its properties.    *)

\* The cells that pairs take, in whatever order they are written.
CellsOf(pairs) == UNION {{<<kv, j>> : j \in 1 .. Len(write_pair(kv))} : kv \in pairs}

LEMMA CellsOfOne ==
    ASSUME NEW kv, Len(write_pair(kv)) \in Nat
    PROVE  /\ IsFiniteSet(CellsOf({kv}))
           /\ Cardinality(CellsOf({kv})) = Len(write_pair(kv))
<1> DEFINE n == Len(write_pair(kv))
           S == {<<kv, j>> : j \in 1 .. n}
           f == [j \in 1 .. n |-> <<kv, j>>]
<1>1. CellsOf({kv}) = S
  BY DEF CellsOf
<1>2. IsFiniteSet(1 .. n) /\ Cardinality(1 .. n) = n
  BY FS_Interval, SMTT(30)
<1> HIDE DEF n
<1>3. f \in Bijection(1 .. n, S)
  BY DEF Bijection, Injection, Surjection, IsInjective
<1>4. ExistsBijection(1 .. n, S)
  BY <1>3 DEF ExistsBijection
<1> HIDE DEF S
<1>5. IsFiniteSet(S) /\ Cardinality(S) = n
  BY <1>2, <1>4, FS_Bijection
<1> QED
  BY <1>1, <1>5 DEF n

LEMMA CellsOfMore ==
    ASSUME NEW pairs, NEW kv, kv \notin pairs, Len(write_pair(kv)) \in Nat,
           IsFiniteSet(CellsOf(pairs))
    PROVE  /\ IsFiniteSet(CellsOf(pairs \cup {kv}))
           /\ Cardinality(CellsOf(pairs \cup {kv})) = Cardinality(CellsOf(pairs)) + Len(write_pair(kv))
<1> DEFINE S == CellsOf(pairs)
           T == CellsOf({kv})
<1>1. CellsOf(pairs \cup {kv}) = S \cup T
  BY DEF CellsOf
<1>2. S \cap T = {}
  BY DEF CellsOf
<1>3. IsFiniteSet(T) /\ Cardinality(T) = Len(write_pair(kv))
  BY CellsOfOne
<1>4. Cardinality(S) \in Nat
  BY FS_CardinalityType
<1> HIDE DEF S, T
<1>5. /\ IsFiniteSet(S \cup T)
      /\ Cardinality(S \cup T) = Cardinality(S) + Cardinality(T) - Cardinality(S \cap T)
  BY <1>3, FS_Union DEF S
<1>6. Cardinality(S \cap T) = 0
  BY <1>2, FS_EmptySet
<1> DEFINE n == Len(write_pair(kv))
<1>7. n \in Nat /\ Cardinality(T) = n
  BY <1>3
<1> HIDE DEF n
<1>8. Cardinality(S \cup T) = Cardinality(S) + n
  BY <1>4, <1>5, <1>6, <1>7
<1> QED
  BY <1>1, <1>5, <1>8 DEF S, n

LEMMA PropertiesSize ==
    ASSUME NEW chars, NEW numbers, Alphabet(chars, numbers),
           NEW order, Listing(order, chars, numbers)
    PROVE  Len(write_properties(order)) = 1 + Cardinality(CellsOf(FirstPairs(order, Len(order))))
<1> DEFINE n == Len(order)
           W == PairsWritten!State(order)
           P(k) == FirstPairs(order, k)
           good == {k \in 0 .. n : IsFiniteSet(CellsOf(P(k))) /\ Len(W[k]) = 1 + Cardinality(CellsOf(P(k)))}
<1>1. /\ order \in Seq(Pairs(chars, numbers))
      /\ \A i, j \in 1 .. n : i # j => order[i][1] # order[j][1]
      /\ n \in Nat
  BY DEF Listing
<1>2. /\ W[0] = <<n>>
      /\ \A k \in 1 .. n : W[k] = W[k - 1] \o write_pair(order[k])
      /\ \A k \in 0 .. n : W[k] \in Seq(numbers) /\ Len(W[k]) \in Nat
  <2>1. W[0] = <<n>>
    BY <1>1, PropertiesWritten
  <2>2. ASSUME NEW k \in 1 .. n
        PROVE  W[k] = W[k - 1] \o write_pair(order[k])
    <3>1. order \in Seq(Pairs(chars, numbers))
      BY <1>1
    <3>2. \A j \in 1 .. Len(order) : PairsWritten!State(order)[j]
                                     = PairsWritten!State(order)[j - 1] \o write_pair(order[j])
      <4> HIDE DEF W, n
      <4> QED BY <3>1, PropertiesWritten, Zenon
    <3> QED BY <3>2
  <2>3. ASSUME NEW k \in 0 .. n
        PROVE  W[k] \in Seq(numbers) /\ Len(W[k]) \in Nat
    <3>1. W[k] \in Seq(numbers) /\ Len(W[k]) \in Nat /\ Len(W[k]) > k
      BY <1>1, PropertiesWritten
    <3> QED BY <3>1
  <2> HIDE DEF W, n
  <2> QED BY <2>1, <2>2, <2>3
<1>3. \A k \in 1 .. n : write_pair(order[k]) \in Seq(numbers) /\ Len(write_pair(order[k])) \in Nat
  BY <1>1, AnyPairWritten
<1>4. 0 \in good
  <2>1. CellsOf(P(0)) = {}
    BY DEF FirstPairs, CellsOf
  <2>2. Len(W[0]) = 1
    BY <1>2
  <2>3. IsFiniteSet({}) /\ Cardinality({}) = 0
    BY FS_EmptySet
  <2>4. 0 \in 0 .. n
    BY <1>1
  <2> HIDE DEF W, n, P
  <2>5. IsFiniteSet(CellsOf(P(0))) /\ Cardinality(CellsOf(P(0))) = 0
    BY <2>1, <2>3
  <2>6. Len(W[0]) = 1 + Cardinality(CellsOf(P(0)))
    BY <2>2, <2>5
  <2> QED BY <2>4, <2>5, <2>6
<1> HIDE DEF W
<1>5. ASSUME NEW k \in 0 .. n - 1, k \in good PROVE k + 1 \in good
  <2> DEFINE kv == order[k + 1]
             S == P(k)
  <2>1. k + 1 \in 1 .. n /\ k \in 0 .. n /\ k + 1 \in 0 .. n /\ k \in Nat /\ (k + 1) - 1 = k
    BY <1>1
  <2>2. P(k + 1) = S \cup {kv}
    <3>1. \A i : i \in 1 .. k + 1 <=> i \in 1 .. k \/ i = k + 1
      BY <2>1
    <3> QED BY <3>1 DEF FirstPairs
  <2>3. kv \notin S
    <3>1. ASSUME NEW i \in 1 .. k PROVE order[i] # order[k + 1]
      <4>1. i \in 1 .. n /\ i # k + 1
        BY <1>1, <2>1
      <4>2. order[i][1] # order[k + 1][1]
        BY <1>1, <2>1, <4>1
      <4> QED BY <4>2
    <3> QED BY <3>1 DEF FirstPairs
  <2>4. write_pair(kv) \in Seq(numbers) /\ Len(write_pair(kv)) \in Nat
    BY <1>3, <2>1
  <2>5. IsFiniteSet(CellsOf(S)) /\ Len(W[k]) = 1 + Cardinality(CellsOf(S))
    BY <1>5
  <2>6. W[k + 1] = W[k] \o write_pair(kv) /\ W[k] \in Seq(numbers) /\ Len(W[k]) \in Nat
    BY <1>2, <2>1
  <2> HIDE DEF kv, S, P
  <2>7. /\ IsFiniteSet(CellsOf(S \cup {kv}))
        /\ Cardinality(CellsOf(S \cup {kv})) = Cardinality(CellsOf(S)) + Len(write_pair(kv))
    BY <2>3, <2>4, <2>5, CellsOfMore
  <2>8. Len(W[k + 1]) = Len(W[k]) + Len(write_pair(kv))
    BY <2>4, <2>6
  <2>9. Cardinality(CellsOf(S)) \in Nat
    BY <2>5, FS_CardinalityType
  <2> DEFINE c == Cardinality(CellsOf(S))
             m == Len(write_pair(kv))
  <2>10. c \in Nat /\ m \in Nat /\ Len(W[k + 1]) = (1 + c) + m
         /\ Cardinality(CellsOf(P(k + 1))) = c + m /\ IsFiniteSet(CellsOf(P(k + 1)))
    BY <2>2, <2>4, <2>5, <2>7, <2>8, <2>9
  <2> HIDE DEF c, m
  <2>11. Len(W[k + 1]) = 1 + Cardinality(CellsOf(P(k + 1)))
    BY <2>10
  <2> QED BY <2>1, <2>10, <2>11
<1> HIDE DEF good
<1>6. n \in good
  <2>1. \A k \in 0 .. n : k \in good
    BY <1>1, <1>4, <1>5, UpTo
  <2> QED BY <1>1, <2>1
<1> QED
  BY <1>6 DEF good, W, write_properties

LEMMA SameSize ==
    ASSUME NEW chars, NEW numbers, Alphabet(chars, numbers),
           NEW fields \in FieldSets(chars, numbers),
           NEW o1 \in SetToSeqs(fields), NEW o2 \in SetToSeqs(fields)
    PROVE  /\ write_properties(o1) \in Seq(numbers) /\ write_properties(o2) \in Seq(numbers)
           /\ Len(write_properties(o1)) = Len(write_properties(o2))
<1>1. write_properties(o1) \in Seq(numbers) /\ write_properties(o2) \in Seq(numbers)
  BY FieldsWritten
<1>2. /\ Listing(o1, chars, numbers) /\ FirstPairs(o1, Len(o1)) = fields
      /\ Listing(o2, chars, numbers) /\ FirstPairs(o2, Len(o2)) = fields
  BY Listings
<1>3. /\ Len(write_properties(o1)) = 1 + Cardinality(CellsOf(FirstPairs(o1, Len(o1))))
      /\ Len(write_properties(o2)) = 1 + Cardinality(CellsOf(FirstPairs(o2, Len(o2))))
  BY <1>2, PropertiesSize
<1> QED
  BY <1>1, <1>2, <1>3

LEMMA SameSizeAround ==
    ASSUME NEW T, NEW a \in Seq(T), NEW b \in Seq(T), NEW c \in Seq(T), NEW d \in Seq(T),
           Len(c) = Len(d)
    PROVE  Len(a \o (b \o c)) = Len(a \o (b \o d))
<1>1. b \o c \in Seq(T) /\ Len(b \o c) = Len(b) + Len(c)
  BY ConcatProperties
<1>2. b \o d \in Seq(T) /\ Len(b \o d) = Len(b) + Len(d)
  BY ConcatProperties
<1> DEFINE e == b \o c
           f == b \o d
<1>3. e \in Seq(T) /\ f \in Seq(T) /\ Len(e) = Len(f)
  BY <1>1, <1>2
<1> HIDE DEF e, f
<1>4. Len(a \o e) = Len(a) + Len(e) /\ Len(a \o f) = Len(a) + Len(f)
  BY <1>3, ConcatProperties
<1> QED
  BY <1>3, <1>4 DEF e, f

LEMMA SamePayloadSize ==
    ASSUME NEW rec \in StoredRecords("binary", Ascii),
           NEW o1 \in Orders(rec), NEW o2 \in Orders(rec)
    PROVE  Len(Payload(rec, o1)) = Len(Payload(rec, o2))
<1> DEFINE N == Numbers("binary")
<1>1. Alphabet(Ascii, N) /\ rec \in Records(Ascii, N)
  <2>1. "binary" \in {"binary", "json"} /\ Ascii \subseteq Ascii
    OBVIOUS
  <2> QED BY <2>1, StoredAre
<1> HIDE DEF N
<1>2. {1, 2} \subseteq N
  BY <1>1 DEF Alphabet
<1>3. ASSUME NEW id \in N, NEW label \in Seq(Ascii), NEW fields \in FieldSets(Ascii, N),
             rec = NodeRecord(id, label, fields)
      PROVE  Len(Payload(rec, o1)) = Len(Payload(rec, o2))
  <2> DEFINE t == write_str(label)
             p1 == write_properties(o1)
             p2 == write_properties(o2)
  <2>1. o1 \in SetToSeqs(fields) /\ o2 \in SetToSeqs(fields)
    BY <1>3, NodePayload
  <2>2. p1 \in Seq(N) /\ p2 \in Seq(N) /\ Len(p1) = Len(p2) /\ t \in Seq(N)
    BY <1>1, <2>1, SameSize, TextWritten
  <2>3. Payload(rec, o1) = <<1, id>> \o (t \o p1) /\ Payload(rec, o2) = <<1, id>> \o (t \o p2)
    BY <1>3, NodePayload
  <2> HIDE DEF t, p1, p2
  <2>4. <<1, id>> \in Seq(N)
    BY <1>2
  <2> DEFINE a == <<1, id>>
  <2>5. a \in Seq(N) /\ Payload(rec, o1) = a \o (t \o p1) /\ Payload(rec, o2) = a \o (t \o p2)
    BY <2>3, <2>4
  <2> HIDE DEF a
  <2>6. Len(a \o (t \o p1)) = Len(a \o (t \o p2))
    BY <2>2, <2>5, SameSizeAround
  <2> QED BY <2>5, <2>6
<1>4. ASSUME NEW id \in N, NEW src \in N, NEW tgt \in N, NEW label \in Seq(Ascii),
             NEW weight \in N, NEW fields \in FieldSets(Ascii, N),
             rec = EdgeRecord(id, src, tgt, label, weight, fields)
      PROVE  Len(Payload(rec, o1)) = Len(Payload(rec, o2))
  <2> DEFINE t == write_str(label)
             p1 == write_properties(o1)
             p2 == write_properties(o2)
             head == <<src, tgt>> \o t \o <<weight>>
  <2>1. o1 \in SetToSeqs(fields) /\ o2 \in SetToSeqs(fields)
    BY <1>4, EdgePayload
  <2>2. p1 \in Seq(N) /\ p2 \in Seq(N) /\ Len(p1) = Len(p2) /\ t \in Seq(N)
    BY <1>1, <2>1, SameSize, TextWritten
  <2>3. Payload(rec, o1) = <<2, id>> \o (head \o p1) /\ Payload(rec, o2) = <<2, id>> \o (head \o p2)
    <3>1. \A order : Payload(EdgeRecord(id, src, tgt, label, weight, fields), order) =
                         <<2, id>> \o (head \o write_properties(order))
      BY EdgePayload
    <3> HIDE DEF head
    <3> QED BY <1>4, <3>1
  <2> HIDE DEF t, p1, p2
  <2>4. <<2, id>> \in Seq(N) /\ <<src, tgt>> \in Seq(N) /\ <<weight>> \in Seq(N)
    BY <1>2
  <2>5. head \in Seq(N)
    BY <2>2, <2>4
  <2> HIDE DEF head
  <2> DEFINE a == <<2, id>>
  <2>6. a \in Seq(N) /\ Payload(rec, o1) = a \o (head \o p1)
        /\ Payload(rec, o2) = a \o (head \o p2)
    BY <2>3, <2>4
  <2> HIDE DEF a
  <2>7. Len(a \o (head \o p1)) = Len(a \o (head \o p2))
    BY <2>2, <2>5, <2>6, SameSizeAround
  <2> QED BY <2>6, <2>7
<1>5. ASSUME NEW type \in 3 .. 7, NEW id \in N, rec = OtherRecord(type, id)
      PROVE  Len(Payload(rec, o1)) = Len(Payload(rec, o2))
  BY <1>5, OtherPayload
<1> QED
  BY <1>1, <1>3, <1>4, <1>5, RecordShapes

LEMMA SameEncodingSize ==
    ASSUME NEW rec \in StoredRecords("binary", Ascii),
           NEW o1 \in Orders(rec), NEW o2 \in Orders(rec)
    PROVE  Len(Encode("binary", rec, o1)) = Len(Encode("binary", rec, o2))
<1>1. /\ Len(Encode("binary", rec, o1)) = Len(Payload(rec, o1)) + 2
      /\ Len(Encode("binary", rec, o2)) = Len(Payload(rec, o2)) + 2
  <2>1. Ascii \subseteq Ascii
    OBVIOUS
  <2> QED BY <2>1, BinaryPieceIs
<1> QED
  BY <1>1, SamePayloadSize

\* The marks of a binary file are its sizes.
LEMMA SizesAreMarks ==
    ASSUME NEW data, NEW records, NEW marks, Laid("binary", Ascii, data, records, marks)
    PROVE  \A n \in 0 .. Len(records) : Sizes!State(records)[n] = marks[n]
<1> DEFINE S == Sizes!State(records)
           n == Len(records)
           good == {k \in 0 .. n : S[k] = marks[k]}
<1>1. /\ records \in Seq(StoredRecords("binary", Ascii)) /\ n \in Nat
      /\ marks[0] = Len(NewFile("binary"))
  BY DEF Laid
<1>2. S[0] = Len(Header)
  BY Sizes!StateAt
<1>3. \A k \in Nat : S[k + 1] = S[k] + Len(Encode("binary", records[k + 1],
                                            CHOOSE order \in Orders(records[k + 1]) : TRUE))
  BY Sizes!StateAt
<1> HIDE DEF S
<1>4. 0 \in good
  BY <1>1, <1>2 DEF NewFile
<1>5. ASSUME NEW k \in 0 .. n - 1, k \in good PROVE k + 1 \in good
  <2> DEFINE rec == records[k + 1]
             some == CHOOSE order \in Orders(rec) : TRUE
  <2>1. k \in Nat /\ k + 1 \in 1 .. n /\ (k + 1) - 1 = k /\ S[k] = marks[k] /\ k + 1 \in 0 .. n
    BY <1>1, <1>5
  <2>2. PICK order \in Orders(rec) : marks[k + 1] = marks[k] + Len(Encode("binary", rec, order))
    BY <2>1 DEF Laid
  <2>3. rec \in StoredRecords("binary", Ascii)
    BY <1>1, <2>1
  <2>4. some \in Orders(rec)
    BY <2>2
  <2>5. S[k + 1] = S[k] + Len(Encode("binary", rec, some))
    BY <1>3, <2>1
  <2> HIDE DEF rec, some
  <2>6. Len(Encode("binary", rec, some)) = Len(Encode("binary", rec, order))
    BY <2>2, <2>3, <2>4, SameEncodingSize
  <2> QED BY <2>1, <2>2, <2>5, <2>6
<1> HIDE DEF good
<1>6. \A k \in 0 .. n : k \in good
  BY <1>1, <1>4, <1>5, UpTo
<1> QED
  BY <1>6 DEF good, S

\* A whole file cut where its first n records are whole replays to these.
LEMMA CutOfHeld ==
    ASSUME NEW data, NEW records, Held("binary", Silent, data, records),
           NEW n \in 0 .. Len(records),
           NEW k \in Sizes!State(records)[n] ..
                         (IF n < Len(records) THEN Sizes!State(records)[n + 1] - 1 ELSE Len(data))
    PROVE  Replay("binary", SubSeq(data, 1, k)) = Ok(Expected(SubSeq(records, 1, n)))
<1> DEFINE l == Len(records)
<1>1. PICK marks : Laid("binary", Silent, data, records, marks) /\ marks[l] = Len(data)
  BY DEF Held
<1>2. "binary" \in {"binary", "json"} /\ Silent \subseteq Ascii
  BY AsciiIsInt
<1>3. Laid("binary", Ascii, data, records, marks)
  BY <1>1, <1>2, LaidAscii
<1>4. /\ \A i \in 0 .. l : Sizes!State(records)[i] = marks[i]
      /\ \A i \in 0 .. l : marks[i] \in Nat
      /\ \A j \in 0 .. l : \A i \in 0 .. j : marks[i] =< marks[j]
  BY <1>2, <1>3, SizesAreMarks, MarksGrow
<1>5. records \in Seq(StoredRecords("binary", Silent)) /\ l \in Nat
  BY <1>1 DEF Laid
<1>6. n \in 0 .. l /\ n \in Nat
  BY <1>5
<1>7. k \in marks[n] .. (IF n < l THEN marks[n + 1] - 1 ELSE marks[l])
  BY <1>1, <1>4, <1>5, <1>6
<1> DEFINE m == marks[n]
           cut == SubSeq(data, 1, k)
<1>8. /\ m \in Nat /\ k \in Nat /\ m =< k
      /\ n < l => marks[n + 1] \in Nat /\ marks[n + 1] =< marks[l] /\ k < marks[n + 1]
      /\ n = l => k = m
      /\ n < l \/ n = l
  <2>1. n < l => n + 1 \in 0 .. l /\ l \in 0 .. l
    BY <1>5, <1>6
  <2> QED BY <1>4, <1>5, <1>6, <1>7, <2>1
<1>9. k \in 0 .. Len(data)
  BY <1>1, <1>4, <1>5, <1>8
<1>10. Laid("binary", Silent, cut, records, marks) /\ Len(cut) = k
  BY <1>1, <1>2, <1>9, LaidCut
<1>11. m = k \/ (n < l /\ m < k /\ k < marks[n + 1])
  BY <1>8
<1> HIDE DEF cut, l
<1>12. Replay("binary", cut) = Ok(Fold!State(records)[n])
  BY <1>2, <1>6, <1>10, <1>11, ReplayOfLaid DEF l
<1>13. Fold!State(records)[n] = Expected(SubSeq(records, 1, n))
  <2> DEFINE first == SubSeq(records, 1, n)
  <2>1. Len(first) = n /\ \A i \in 1 .. n : first[i] = records[i]
    BY <1>5, <1>6 DEF l
  <2> HIDE DEF first
  <2>2. \A i \in 0 .. n : Fold!State(first)[i] = Fold!State(records)[i]
    BY <1>6, <2>1, FoldPrefix, SMTT(30)
  <2>3. Fold!State(first)[n] = Fold!State(records)[n]
    BY <1>6, <2>2
  <2> QED BY <2>1, <2>3 DEF Expected, first
<1> QED
  BY <1>12, <1>13 DEF cut

\* Wherever a binary file is cut, replay() finds the records that are whole in
\* what is left, and nothing else.
THEOREM CutReplaysToPrefixAlways == Spec => []CutReplaysToPrefix
<1>1. ASSUME IInv PROVE CutReplaysToPrefix
  <2> SUFFICES ASSUME setup.format = "binary", damage = {}, ~torn, QuietTexts,
                      NEW n \in 0 .. Len(log),
                      NEW k \in Sizes!State(log)[n] ..
                              (IF n < Len(log) THEN Sizes!State(log)[n + 1] - 1 ELSE Len(cells))
               PROVE  Replay("binary", SubSeq(cells, 1, k)) = Ok(Expected(SubSeq(log, 1, n)))
    BY DEF CutReplaysToPrefix
  <2>1. Sound("binary", Silent, cells, log, torn)
    BY <1>1 DEF IInv, FileSound, Chars
  <2>2. CASE Len(cells) < Len(NewFile("binary")) /\ log = <<>>
    <3>1. Len(log) = 0 /\ n = 0
      BY <2>2
    <3>2. Sizes!State(log)[0] = Len(Header)
      BY Sizes!StateAt
    <3>3. Len(Header) = 2 /\ NewFile("binary") = Header
      BY DEF Header, NewFile
    <3>4. k \in 2 .. Len(cells)
      BY <3>1, <3>2, <3>3
    <3>5. Len(cells) \in Nat /\ Len(cells) < 2
      <4>1. cells \in Seq(Int)
        BY <1>1 DEF IInv, TypeOK, Cells
      <4>2. Len(NewFile("binary")) = 2
        BY <3>3
      <4>3. Len(cells) < Len(NewFile("binary"))
        BY <2>2
      <4> DEFINE m == Len(NewFile("binary"))
                 l == Len(cells)
      <4>4. m = 2 /\ l < m
        BY <4>2, <4>3
      <4>5. l \in Nat
        BY <4>1
      <4>6. l < 2
        BY <4>4
      <4> QED BY <4>5, <4>6
    <3> QED BY <3>4, <3>5
  <2>3. CASE Held("binary", Silent, cells, log)
    BY <2>3, CutOfHeld
  <2> QED BY <2>1, <2>2, <2>3 DEF Sound
<1> QED
  BY IInvHolds, <1>1, PTL

=============================================================================
