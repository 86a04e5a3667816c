---------------------------- MODULE StreamProofs ----------------------------
(***************************************************************************)
(* Stream: every message within the limits reaches handle(), and a client  *)
(* that waits gets the reply to its request, for all messages, scripts and *)
(* ways to cut the two streams.                                            *)
(***************************************************************************)
EXTENDS CodecProofs

-----------------------------------------------------------------------------
(***************************************************************************)
(* A stream of frames.                                                     *)
(***************************************************************************)
WiresOf(ms) == [i \in DOMAIN ms |-> Wire[ms[i]]]
Frames(ms) == FlattenSeq(WiresOf(ms))

(* A message on the wire: its third word is the length of its payload.     *)
LEMMA WireText ==
    ASSUME NEW m \in Messages
    PROVE  /\ Wire[m] \in Text /\ Wire[m][3] \in Nat
           /\ Len(Wire[m]) = Wire[m][3] + Overhead
<1>1. Wire[m] = FrameEncode(m)
  BY DEF Wire
<1>2. FrameOf(Wire[m], EncodePayload(m))
  BY <1>1, FrameWritten
<1> QED BY <1>2 DEF FrameOf

(* Messages on the wire.                                                   *)
LEMMA WiresText ==
    ASSUME NEW ms \in Seq(Messages)
    PROVE  /\ WiresOf(ms) \in Seq(Text) /\ Len(WiresOf(ms)) = Len(ms)
           /\ \A i \in 1 .. Len(ms) : WiresOf(ms)[i] = Wire[ms[i]]
<1> DEFINE n == Len(ms)
           w == WiresOf(ms)
<1>1. n \in Nat /\ DOMAIN ms = 1 .. n /\ \A i \in 1 .. n : ms[i] \in Messages
  OBVIOUS
<1> HIDE DEF n
<1>2. \A i \in 1 .. n : Wire[ms[i]] \in Text
  BY <1>1, WireText
<1>3. w = [i \in 1 .. n |-> Wire[ms[i]]]
  BY <1>1 DEF WiresOf
<1>4. w \in [1 .. n -> Text] /\ \A i \in 1 .. n : w[i] = Wire[ms[i]]
  BY <1>2, <1>3
<1> HIDE DEF w
<1>5. w \in Seq(Text) /\ Len(w) = n
  BY <1>1, <1>4
<1> QED BY <1>4, <1>5 DEF n, w

(* The frames of a list of messages are a text.                            *)
LEMMA FramesText ==
    ASSUME NEW ms \in Seq(Messages)
    PROVE  Frames(ms) \in Text
BY WiresText, FlattenType DEF Frames

(* No message, no frames.                                                  *)
LEMMA FramesEmpty == Frames(<<>>) = <<>>
<1>1. WiresOf(<<>>) = <<>>
  BY DEF WiresOf
<1> QED BY <1>1, FlattenEmpty DEF Frames

(* A message more is a frame more, at the end.                             *)
LEMMA FramesAppend ==
    ASSUME NEW ms \in Seq(Messages), NEW m \in Messages
    PROVE  Frames(Append(ms, m)) = Frames(ms) \o Wire[m]
<1> DEFINE w == WiresOf(ms)
           x == Wire[m]
           tt == WiresOf(Append(ms, m))
<1>1. Append(ms, m) \in Seq(Messages) /\ Len(Append(ms, m)) = Len(ms) + 1 /\ Len(ms) \in Nat
  OBVIOUS
<1>2. w \in Seq(Text) /\ Len(w) = Len(ms) /\ x \in Text
  BY WiresText, WireText
<1>3. tt \in Seq(Text) /\ Len(tt) = Len(ms) + 1
  BY <1>1, WiresText
<1>4. /\ \A i \in 1 .. Len(ms) : w[i] = Wire[ms[i]]
      /\ \A i \in 1 .. Len(ms) + 1 : tt[i] = Wire[Append(ms, m)[i]]
  BY <1>1, WiresText
<1>5. /\ \A i \in 1 .. Len(ms) : Append(ms, m)[i] = ms[i]
      /\ Append(ms, m)[Len(ms) + 1] = m
  OBVIOUS
<1>6. /\ \A i \in 1 .. Len(ms) : tt[i] = w[i]
      /\ tt[Len(ms) + 1] = x
  BY <1>1, <1>4, <1>5
<1> HIDE DEF w, x, tt
<1>7. tt = Append(w, x)
  <2> DEFINE u == Append(w, x)
  <2>1. u \in Seq(Text) /\ Len(u) = Len(tt) /\ u[Len(ms) + 1] = x
    BY <1>2, <1>3
  <2>2. \A i \in 1 .. Len(ms) : u[i] = w[i]
    BY <1>2
  <2> HIDE DEF u
  <2>3. \A i \in 1 .. Len(tt) : tt[i] = u[i]
    BY <1>1, <1>3, <1>6, <2>1, <2>2
  <2>4. tt = u
    BY <1>3, <2>1, <2>3, SeqEqual
  <2> QED BY <2>4 DEF u
<1>8. FlattenSeq(tt) = FlattenSeq(w) \o x
  BY <1>2, <1>7, FlattenAppend
<1> QED BY <1>8 DEF Frames, tt, w, x

(* The frame of the first message comes first.                             *)
LEMMA FramesHead ==
    ASSUME NEW ms \in Seq(Messages), Len(ms) # 0
    PROVE  /\ ms[1] \in Messages /\ Tail(ms) \in Seq(Messages)
           /\ Frames(ms) = Wire[ms[1]] \o Frames(Tail(ms))
<1> DEFINE w == WiresOf(ms)
           tt == WiresOf(Tail(ms))
<1>1. /\ ms[1] \in Messages /\ Tail(ms) \in Seq(Messages)
      /\ Len(Tail(ms)) = Len(ms) - 1 /\ Len(ms) \in Nat
      /\ \A i \in 1 .. Len(ms) - 1 : Tail(ms)[i] = ms[i + 1]
  OBVIOUS
<1>2. w \in Seq(Text) /\ Len(w) = Len(ms) /\ \A i \in 1 .. Len(ms) : w[i] = Wire[ms[i]]
  BY WiresText
<1>3. /\ tt \in Seq(Text) /\ Len(tt) = Len(ms) - 1
      /\ \A i \in 1 .. Len(ms) - 1 : tt[i] = Wire[Tail(ms)[i]]
  BY <1>1, WiresText
<1> HIDE DEF w, tt
<1>4. Tail(w) = tt
  <2> DEFINE u == Tail(w)
  <2>1. /\ u \in Seq(Text) /\ Len(u) = Len(tt)
        /\ \A i \in 1 .. Len(tt) : u[i] = w[i + 1]
    BY <1>1, <1>2, <1>3
  <2> HIDE DEF u
  <2>2. \A i \in 1 .. Len(tt) : u[i] = tt[i]
    BY <1>1, <1>2, <1>3, <2>1
  <2>3. u = tt
    BY <1>3, <2>1, <2>2, SeqEqual
  <2> QED BY <2>3 DEF u
<1>5. FlattenSeq(w) = w[1] \o FlattenSeq(Tail(w))
  BY <1>2, FlattenHead
<1>6. w[1] = Wire[ms[1]]
  BY <1>1, <1>2
<1>7. Frames(ms) = Wire[ms[1]] \o Frames(Tail(ms))
  BY <1>4, <1>5, <1>6, Zenon DEF Frames, w, tt
<1> QED BY <1>1, <1>7

(* One message is one frame.                                               *)
LEMMA FramesOne ==
    ASSUME NEW m \in Messages
    PROVE  Frames(<<m>>) = Wire[m] /\ <<m>> \in Seq(Messages)
<1>1. <<>> \in Seq(Messages) /\ Append(<<>>, m) = <<m>> /\ <<m>> \in Seq(Messages)
  OBVIOUS
<1> DEFINE e == <<>>
           x == Wire[m]
<1>2. Frames(Append(e, m)) = Frames(e) \o x
  <2>1. e \in Seq(Messages)
    BY <1>1
  <2> HIDE DEF e
  <2> QED BY <2>1, FramesAppend
<1>3. x \in Text
  BY WireText
<1> HIDE DEF x
<1>4. Frames(e) \o x = x
  BY <1>3, FramesEmpty, TextEmpty, Zenon DEF e
<1> QED BY <1>1, <1>2, <1>4, Zenon DEF e, x

(***************************************************************************)
(* One call of feed() on a stream of frames ms, none of them too long, of  *)
(* which b has been received and after has not: it waits, or it takes the  *)
(* first frame whole and nothing behind it.                                *)
(***************************************************************************)
NoneTooLong(ms) == \A i \in 1 .. Len(ms) : ~TooLong(ms[i])

Waits(got, b) == got.buf = b /\ got.msg = NoMsg
Takes(got, after, ms) ==
    /\ Len(ms) # 0 /\ got.buf \in Text /\ got.buf \o after = Frames(Tail(ms))
    /\ got.msg = IF WithinLimits(ms[1]) THEN <<ms[1]>> ELSE NoMsg

FeedOf(b) ==
    IF Len(b) < Overhead THEN [buf |-> b, msg |-> NoMsg]
    ELSE IF b[3] > MaxPayload THEN [buf |-> <<>>, msg |-> NoMsg]
    ELSE IF Len(b) < b[3] + Overhead THEN [buf |-> b, msg |-> NoMsg]
    ELSE [buf |-> SubSeq(b, b[3] + Overhead + 1, Len(b)),
          msg |-> FrameDecode(SubSeq(b, 1, b[3] + Overhead))]

ShortFrame(w) ==
    w \in Text /\ w[3] \in Nat /\ ~(w[3] > MaxPayload) /\ Len(w) = w[3] + Overhead

Parts(got, after, w, more) ==
    got.buf \in Text /\ got.buf \o after = more /\ got.msg = FrameDecode(w)

(* feed() on a stream that starts with a frame w that is not too long.     *)
LEMMA FeedFrame ==
    ASSUME NEW b \in Text, NEW after \in Text, NEW w, ShortFrame(w), NEW more \in Text,
           b \o after = w \o more
    PROVE  Waits(FeedOf(b), b) \/ Parts(FeedOf(b), after, w, more)
<1>1. w \in Text /\ w[3] \in Nat /\ ~(w[3] > MaxPayload) /\ Len(w) = w[3] + Overhead
  BY DEF ShortFrame
<1>2. Len(b) \in Nat /\ Len(w) \in Nat /\ Len(w) >= 4 /\ Overhead = 4
  BY <1>1, TextLen DEF Overhead
<1>3. CASE Len(b) < Overhead
  BY <1>3 DEF FeedOf, Waits
<1>4. CASE ~(Len(b) < Overhead)
  <2>1. 3 \in 1 .. Len(b) /\ 3 \in 1 .. Len(w)
    BY <1>2, <1>4
  <2>2. (b \o after)[3] = b[3] /\ (w \o more)[3] = w[3]
    BY <1>1, <2>1, FrontOf
  <2>3. b[3] = w[3] /\ b[3] + Overhead = Len(w)
    BY <1>1, <2>2
  <2>4. CASE Len(b) < Len(w)
    <3>1. FeedOf(b) = [buf |-> b, msg |-> NoMsg]
      BY <1>1, <1>4, <2>3, <2>4 DEF FeedOf
    <3> QED BY <3>1 DEF Waits
  <2>5. CASE ~(Len(b) < Len(w))
    <3> DEFINE n == Len(w)
               x == SubSeq(b, 1, n)
               y == SubSeq(b, n + 1, Len(b))
    <3>1. n \in 0 .. Len(b)
      BY <1>2, <2>5
    <3>2. FeedOf(b) = [buf |-> y, msg |-> FrameDecode(x)]
      BY <1>1, <1>4, <2>3, <2>5, Zenon DEF FeedOf
    <3> HIDE DEF n
    <3>3. x \in Text /\ Len(x) = n /\ y \in Text /\ x \o y = b
      BY <3>1, TextCut
    <3> HIDE DEF x, y
    <3>4. x \o (y \o after) = w \o more /\ y \o after \in Text
      <4>1. (x \o y) \o after = x \o (y \o after)
        <5>1. x \in Text /\ y \in Text /\ after \in Text
          BY <3>3
        <5> QED BY <5>1, TextAssociative
      <4>2. (x \o y) \o after = w \o more
        BY <3>3, Zenon
      <4>3. y \o after \in Text
        BY <3>3, TextConcat, Zenon
      <4> QED BY <4>1, <4>2, <4>3, Zenon
    <3>5. Len(x) = Len(w)
      BY <3>3 DEF n
    <3>6. x = w /\ y \o after = more
      BY <1>1, <3>3, <3>4, <3>5, TextSameCut
    <3>7. FeedOf(b).buf = y /\ FeedOf(b).msg = FrameDecode(x)
      BY <3>2
    <3> QED BY <3>3, <3>6, <3>7, Zenon DEF Parts
  <2> QED BY <2>4, <2>5
<1> QED BY <1>3, <1>4

(* feed() on a stream of frames.                                           *)
LEMMA FeedStep ==
    ASSUME NEW old \in Text, NEW chunk \in Text, NEW after \in Text,
           NEW ms \in Seq(Messages), NoneTooLong(ms), (old \o chunk) \o after = Frames(ms)
    PROVE  \/ Waits(Feed(old, chunk), old \o chunk)
           \/ Takes(Feed(old, chunk), after, ms)
<1> DEFINE b == old \o chunk
           got == Feed(old, chunk)
<1>1. b \in Text /\ b \o after = Frames(ms)
  BY TextConcat
<1>2. got = FeedOf(b)
  BY Zenon DEF Feed, FeedOf
<1> HIDE DEF b, got
<1>3. CASE Len(ms) = 0
  <2>1. ms = <<>>
    BY <1>3, EmptyLen
  <2>2. Len(b \o after) = 0
    BY <1>1, <2>1, FramesEmpty, TextEmpty, Zenon
  <2>3. Len(b \o after) = Len(b) + Len(after) /\ Len(b) \in Nat /\ Len(after) \in Nat
    BY <1>1, TextConcat, TextLen
  <2>4. Len(b) < Overhead
    BY <2>2, <2>3 DEF Overhead
  <2>5. Waits(got, b)
    BY <1>2, <2>4 DEF FeedOf, Waits
  <2> QED BY <2>5 DEF b, got
<1>4. CASE Len(ms) # 0
  <2> DEFINE m == ms[1]
             w == Wire[m]
             more == Frames(Tail(ms))
  <2>1. m \in Messages /\ Tail(ms) \in Seq(Messages) /\ Frames(ms) = w \o more
    BY <1>4, FramesHead
  <2>2. w \in Text /\ w[3] \in Nat /\ Len(w) = w[3] + Overhead /\ more \in Text
    BY <2>1, WireText, FramesText
  <2>3. ~TooLong(m)
    <3>1. 1 \in 1 .. Len(ms)
      BY <1>4
    <3> QED BY <3>1 DEF NoneTooLong
  <2> HIDE DEF m
  <2>4. FrameDecode(w) = IF WithinLimits(m) THEN <<m>> ELSE NoMsg
    BY <2>1, <2>3, FrameRoundTrip, Zenon DEF Survives
  <2>5. ShortFrame(w)
    BY <2>2, <2>3 DEF TooLong, ShortFrame
  <2> HIDE DEF w, more
  <2>6. Waits(got, b) \/ Parts(got, after, w, more)
    <3>1. b \o after = w \o more
      BY <1>1, <2>1, Zenon
    <3>2. Waits(FeedOf(b), b) \/ Parts(FeedOf(b), after, w, more)
      BY <1>1, <2>2, <2>5, <3>1, FeedFrame
    <3> QED BY <1>2, <3>2, Zenon
  <2>7. Waits(got, b) \/ Takes(got, after, ms)
    BY <1>4, <2>4, <2>6, Zenon DEF Takes, Parts, m, more
  <2> QED BY <2>7 DEF b, got
<1> QED BY <1>3, <1>4

-----------------------------------------------------------------------------
(***************************************************************************)
(* Which of the messages have been handled.                                *)
(***************************************************************************)
DueIn(s, k) == {i \in 1 .. k : WithinLimits(s[i])}

HandledTo(s, h, k) ==
    /\ Len(h) = Cardinality(DueIn(s, k))
    /\ \A i \in DueIn(s, k) : h[Cardinality(DueIn(s, i))] = s[i]

(* There are finitely many messages due.                                   *)
LEMMA DueFinite ==
    ASSUME NEW s, NEW k \in Nat
    PROVE  IsFiniteSet(DueIn(s, k)) /\ Cardinality(DueIn(s, k)) \in Nat
<1>1. IsFiniteSet(1 .. k)
  BY FS_Interval
<1>2. DueIn(s, k) \subseteq 1 .. k
  BY DEF DueIn
<1> QED BY <1>1, <1>2, FS_Subset, FS_CardinalityType

(* A message due has a place among those due.                              *)
LEMMA DueRank ==
    ASSUME NEW s, NEW k \in Nat, NEW i \in DueIn(s, k)
    PROVE  Cardinality(DueIn(s, i)) \in 1 .. Cardinality(DueIn(s, k))
<1>1. i \in 1 .. k /\ i \in Nat /\ i \in DueIn(s, i)
  BY DEF DueIn
<1>2. DueIn(s, i) \subseteq DueIn(s, k)
  BY <1>1 DEF DueIn
<1> DEFINE A == DueIn(s, i)
           B == DueIn(s, k)
<1>3. IsFiniteSet(A) /\ Cardinality(A) \in Nat /\ IsFiniteSet(B) /\ Cardinality(B) \in Nat
  BY <1>1, DueFinite
<1>4. A # {}
  BY <1>1
<1> HIDE DEF A, B
<1>5. A \subseteq B
  BY <1>2 DEF A, B
<1>6. Cardinality(A) <= Cardinality(B) /\ Cardinality(A) # 0
  BY <1>3, <1>4, <1>5, FS_Subset, FS_EmptySet
<1>7. Cardinality(A) \in 1 .. Cardinality(B)
  BY <1>3, <1>6
<1> QED BY <1>7 DEF A, B

(* Sending changes nothing for the messages before.                        *)
LEMMA DueAppend ==
    ASSUME NEW s \in Seq(Messages), NEW x, NEW k \in 0 .. Len(s)
    PROVE  DueIn(Append(s, x), k) = DueIn(s, k)
<1>1. \A i \in 1 .. k : Append(s, x)[i] = s[i]
  OBVIOUS
<1> QED BY <1>1 DEF DueIn

(* Nor does it for what has been handled.                                  *)
LEMMA HandledAppend ==
    ASSUME NEW s \in Seq(Messages), NEW x, NEW k \in 0 .. Len(s), NEW h, HandledTo(s, h, k)
    PROVE  HandledTo(Append(s, x), h, k)
<1> DEFINE t == Append(s, x)
<1>1. DueIn(t, k) = DueIn(s, k)
  BY DueAppend
<1>2. ASSUME NEW i \in DueIn(s, k)
      PROVE  DueIn(t, i) = DueIn(s, i) /\ t[i] = s[i]
  <2>1. i \in 0 .. Len(s) /\ i \in 1 .. Len(s)
    BY DEF DueIn
  <2> QED BY <2>1, DueAppend
<1> HIDE DEF t
<1>3. HandledTo(t, h, k)
  BY <1>1, <1>2, Zenon DEF HandledTo
<1> QED BY <1>3 DEF t

(* The next message is taken off the stream: handled if it is due.         *)
LEMMA Handling ==
    ASSUME NEW s \in Seq(Messages), NEW k \in Nat, k + 1 <= Len(s),
           NEW h \in Seq(Messages), HandledTo(s, h, k),
           NEW msg, msg = IF WithinLimits(s[k + 1]) THEN <<s[k + 1]>> ELSE NoMsg
    PROVE  h \o msg \in Seq(Messages) /\ HandledTo(s, h \o msg, k + 1)
<1> DEFINE x == s[k + 1]
           D == DueIn(s, k)
<1>1. x \in Messages /\ k + 1 \in Nat
  OBVIOUS
<1>2. IsFiniteSet(D) /\ Cardinality(D) \in Nat /\ k + 1 \notin D
  <2>1. k + 1 \notin D
    BY DEF DueIn
  <2> QED BY <2>1, DueFinite
<1>3. CASE WithinLimits(x)
  <2>1. DueIn(s, k + 1) = D \cup {k + 1}
    BY <1>3 DEF DueIn
  <2>2. msg = <<x>>
    BY <1>3
  <2> HIDE DEF x, D
  <2>3. Cardinality(D \cup {k + 1}) = Cardinality(D) + 1
    BY <1>2, FS_AddElement
  <2>4. Len(h) = Cardinality(D) /\ \A i \in D : h[Cardinality(DueIn(s, i))] = s[i]
    BY DEF HandledTo, D
  <2> DEFINE g == h \o <<x>>
             c(i) == Cardinality(DueIn(s, i))
  <2>5. g \in Seq(Messages) /\ Len(g) = Len(h) + 1 /\ g[Len(h) + 1] = x
    BY <1>1
  <2>6. \A j \in 1 .. Len(h) : g[j] = h[j]
    BY <1>1
  <2>7. \A i \in D : c(i) \in 1 .. Len(h)
    BY <2>4, DueRank DEF D
  <2>8. c(k + 1) = Len(h) + 1
    BY <2>1, <2>3, <2>4
  <2> HIDE DEF c, g
  <2>9. \A i \in D : g[c(i)] = s[i]
    <3>1. \A i \in D : h[c(i)] = s[i]
      BY <2>4 DEF c
    <3> QED BY <3>1, <2>6, <2>7
  <2>10. g[c(k + 1)] = s[k + 1]
    BY <2>5, <2>8 DEF x
  <2>11. \A i \in DueIn(s, k + 1) : g[c(i)] = s[i]
    BY <2>1, <2>9, <2>10
  <2>12. Len(g) = Cardinality(DueIn(s, k + 1))
    BY <2>1, <2>3, <2>4, <2>5
  <2>13. HandledTo(s, g, k + 1)
    BY <2>11, <2>12 DEF HandledTo, c
  <2> QED BY <2>2, <2>5, <2>13 DEF g
<1>4. CASE ~WithinLimits(x)
  <2>1. DueIn(s, k + 1) = D
    BY <1>4 DEF DueIn
  <2>2. msg = <<>>
    BY <1>4 DEF NoMsg
  <2>3. h \o msg = h
    BY <2>2
  <2>4. HandledTo(s, h, k + 1)
    BY <2>1 DEF HandledTo, D
  <2> QED BY <2>3, <2>4
<1> QED BY <1>3, <1>4

-----------------------------------------------------------------------------
(***************************************************************************)
(* What is written and what travels, whatever is sent.                     *)
(***************************************************************************)
StreamType ==
    /\ script \in Seq(Requests) /\ sent \in Seq(Requests) /\ posted \in Seq(Responses)
    /\ up \in Text /\ down \in Text

(* What handle() makes of the message got: nothing, or one reply.          *)
Answer(got, rs) ==
    \/ rs = <<>>
    \/ \E r \in Responses : /\ rs = <<r>> /\ got # NoMsg
                            /\ r["type"] \in ReplyTypes(got[1]["type"])

(* A turn of the thread posts such an answer and sends its frames.         *)
LEMMA ServerAnswers ==
    ASSUME NEW n, ServerRecv(n)
    PROVE  \E rs : /\ Answer(Feed(buf, SubSeq(up, 1, n)).msg, rs)
                   /\ posted' = posted \o rs /\ down' = down \o Frames(rs)
<1> DEFINE got == Feed(buf, SubSeq(up, 1, n))
<1>1. PICK rs \in IF got.msg = NoMsg THEN {<<>>} ELSE Replies(got.msg[1]) :
            /\ posted' = posted \o rs
            /\ down' = down \o FlattenSeq([i \in DOMAIN rs |-> Wire[rs[i]]])
  BY Zenon DEF ServerRecv
<1> HIDE DEF got
<1>2. down' = down \o Frames(rs)
  BY <1>1, Zenon DEF Frames, WiresOf
<1>3. Answer(got.msg, rs)
  BY <1>1, Zenon DEF Answer, Replies
<1> QED BY <1>1, <1>2, <1>3, Zenon DEF got

(* Requests and responses are messages.                                    *)
LEMMA MessageSets == Requests \subseteq Messages /\ Responses \subseteq Messages
BY DEF Messages

(* The frames of an answer.                                                *)
LEMMA AnswerFrames ==
    ASSUME NEW got, NEW rs, Answer(got, rs)
    PROVE  /\ rs \in Seq(Responses) /\ rs \in Seq(Messages) /\ Frames(rs) \in Text
           /\ rs = <<>> => Frames(rs) = <<>>
<1>1. rs \in Seq(Responses)
  <2>1. CASE rs = <<>>
    BY <2>1
  <2>2. ASSUME NEW r \in Responses, rs = <<r>> PROVE rs \in Seq(Responses)
    BY <2>2
  <2> QED BY <2>1, <2>2, Zenon DEF Answer
<1>2. rs \in Seq(Messages)
  BY <1>1, MessageSets
<1> QED BY <1>1, <1>2, FramesText, FramesEmpty

(* send_frame sends the next message of the script.                        *)
LEMMA Sending ==
    ASSUME StreamType, SendFrame
    PROVE  LET m == script[1]
           IN  /\ m \in Requests /\ m \in Messages /\ Tail(script) \in Seq(Requests)
               /\ sent' = Append(sent, m) /\ script' = Tail(script) /\ up' = up \o Wire[m]
<1>1. script \in Seq(Requests) /\ script # <<>>
  BY DEF StreamType, SendFrame
<1>2. Head(script) = script[1] /\ script[1] \in Requests /\ Tail(script) \in Seq(Requests)
  BY <1>1
<1> QED BY <1>2, MessageSets, Zenon DEF SendFrame

(* The types hold at the start,                                            *)
LEMMA TypeInit == Init => StreamType
<1> SUFFICES ASSUME Init PROVE StreamType
  OBVIOUS
<1>1. script \in Seq(Requests)
  BY MessageAssumption DEF Init
<1>2. sent \in Seq(Requests) /\ posted \in Seq(Responses)
  BY DEF Init
<1>3. up \in Text /\ down \in Text
  BY TextEmpty DEF Init
<1> QED BY <1>1, <1>2, <1>3 DEF StreamType

(* and every step keeps them.                                              *)
LEMMA TypeStep == StreamType /\ [Next]_vars => StreamType'
<1> SUFFICES ASSUME StreamType, [Next]_vars PROVE StreamType'
  OBVIOUS
<1> USE DEF StreamType
<1>1. CASE SendFrame
  <2> DEFINE m == script[1]
  <2>1. /\ m \in Requests /\ m \in Messages /\ Tail(script) \in Seq(Requests)
        /\ sent' = Append(sent, m) /\ script' = Tail(script) /\ up' = up \o Wire[m]
    BY <1>1, Sending
  <2> HIDE DEF m
  <2>2. up \o Wire[m] \in Text
    BY <2>1, WireText, TextConcat
  <2>3. Append(sent, m) \in Seq(Requests)
    BY <2>1
  <2> QED BY <1>1, <2>1, <2>2, <2>3 DEF SendFrame
<1>2. ASSUME NEW n \in 1 .. Len(down), ClientRecv(n) PROVE StreamType'
  <2>1. Len(down) \in Nat
    BY TextLen
  <2>2. n \in 0 .. Len(down)
    BY <2>1
  <2>3. SubSeq(down, n + 1, Len(down)) \in Text
    BY <2>2, TextCut
  <2> QED BY <1>2, <2>3 DEF ClientRecv
<1>3. ASSUME NEW n \in 1 .. Len(up), ServerRecv(n) PROVE StreamType'
  <2>1. Len(up) \in Nat
    BY TextLen
  <2>2. n \in 0 .. Len(up)
    BY <2>1
  <2>3. SubSeq(up, n + 1, Len(up)) \in Text
    BY <2>2, TextCut
  <2>4. PICK rs : /\ Answer(Feed(buf, SubSeq(up, 1, n)).msg, rs)
                  /\ posted' = posted \o rs /\ down' = down \o Frames(rs)
    BY <1>3, ServerAnswers, Zenon
  <2>5. rs \in Seq(Responses) /\ Frames(rs) \in Text
    BY <2>4, AnswerFrames, Zenon
  <2>6. posted' \in Seq(Responses)
    BY <2>4, <2>5
  <2>7. down' \in Text
    BY <2>4, <2>5, TextConcat
  <2> QED BY <1>3, <2>3, <2>6, <2>7 DEF ServerRecv, clientVars
<1>4. CASE UNCHANGED vars
  BY <1>4 DEF vars
<1> QED BY <1>1, <1>2, <1>3, <1>4 DEF Next

(***************************************************************************)
(* Whatever is sent or posted, and however long the connection has lived:  *)
(* the frame of a message that keeps the limits of protocol.cpp decodes to *)
(* the message, and that of one that does not is refused as a whole.       *)
(***************************************************************************)
THEOREM FramesAlwaysDecode == Spec => []RoundTrip
<1>1. StreamType => RoundTrip
  <2> SUFFICES ASSUME StreamType, NEW m \in ToSet(sent) \cup ToSet(posted)
               PROVE  Survives(m)
    BY DEF RoundTrip
  <2>1. ToSet(sent) \subseteq Requests /\ ToSet(posted) \subseteq Responses
    BY DEF StreamType, ToSet
  <2> QED BY <2>1, MessageSets, FrameRoundTrip
<1> QED BY <1>1, TypeInit, TypeStep, PTL DEF Spec

(* recv and feed: n more words of a stream.                                *)
Stays(got, after, ms) ==
    got.msg = NoMsg /\ got.buf \in Text /\ got.buf \o after = Frames(ms)

(* recv and feed take a frame or leave all as it was.                      *)
LEMMA Receive ==
    ASSUME NEW old \in Text, NEW stream \in Text, NEW n \in 1 .. Len(stream),
           NEW ms \in Seq(Messages), NoneTooLong(ms), old \o stream = Frames(ms)
    PROVE  LET got == Feed(old, SubSeq(stream, 1, n))
               after == SubSeq(stream, n + 1, Len(stream))
           IN  after \in Text /\ (Stays(got, after, ms) \/ Takes(got, after, ms))
<1> DEFINE chunk == SubSeq(stream, 1, n)
           after == SubSeq(stream, n + 1, Len(stream))
           got == Feed(old, chunk)
<1>1. n \in 0 .. Len(stream)
  BY TextLen
<1>2. chunk \in Text /\ after \in Text /\ chunk \o after = stream
  BY <1>1, TextCut
<1> HIDE DEF chunk, after, got
<1>3. (old \o chunk) \o after = Frames(ms)
  <2>1. (old \o chunk) \o after = old \o (chunk \o after)
    BY <1>2, TextAssociative
  <2> QED BY <1>2, <2>1, Zenon
<1>4. Waits(got, old \o chunk) \/ Takes(got, after, ms)
  BY <1>2, <1>3, FeedStep DEF got
<1>5. Waits(got, old \o chunk) => Stays(got, after, ms)
  <2>1. old \o chunk \in Text
    BY <1>2, TextConcat
  <2> QED BY <1>3, <2>1, Zenon DEF Waits, Stays
<1> QED BY <1>2, <1>4, <1>5, Zenon DEF chunk, after, got

-----------------------------------------------------------------------------
(***************************************************************************)
(* From the client to the coordinator.  The first k messages have been     *)
(* taken off the stream, and those of them within the limits handled; the  *)
(* frames of the others are what is buffered and what is on its way.       *)
(***************************************************************************)
Remaining(s, k) == SubSeq(s, k + 1, Len(s))

Reached(k) ==
    /\ k \in 0 .. Len(sent) /\ buf \in Text /\ handled \in Seq(Messages)
    /\ buf \o up = Frames(Remaining(sent, k))
    /\ HandledTo(sent, handled, k)

DeliveryInv == (\E i \in DOMAIN sent : TooLong(sent[i])) \/ \E k \in Nat : Reached(k)

(* Sending adds to what remains.                                           *)
LEMMA RemainingAppend ==
    ASSUME NEW s \in Seq(Messages), NEW x \in Messages, NEW k \in 0 .. Len(s)
    PROVE  /\ Remaining(s, k) \in Seq(Messages)
           /\ Remaining(Append(s, x), k) = Append(Remaining(s, k), x)
<1> DEFINE r == Remaining(s, k)
           t == Remaining(Append(s, x), k)
           n == Len(s)
<1>1. n \in Nat /\ k \in Nat /\ k <= n
  OBVIOUS
<1>2. r \in Seq(Messages) /\ Len(r) = n - k
  BY DEF Remaining
<1>3. \A i \in 1 .. (n - k) : r[i] = s[i + k]
  BY DEF Remaining
<1>4. t \in Seq(Messages) /\ Len(t) = (n - k) + 1
  BY DEF Remaining
<1>5. \A i \in 1 .. ((n - k) + 1) : t[i] = Append(s, x)[i + k]
  BY DEF Remaining
<1>6. (\A i \in 1 .. n : Append(s, x)[i] = s[i]) /\ Append(s, x)[n + 1] = x
  OBVIOUS
<1> HIDE DEF r, t, n
<1>7. Append(r, x) \in Seq(Messages) /\ Len(Append(r, x)) = (n - k) + 1
  BY <1>2
<1>8. (\A i \in 1 .. (n - k) : Append(r, x)[i] = r[i]) /\ Append(r, x)[(n - k) + 1] = x
  BY <1>2
<1>9. ASSUME NEW i \in 1 .. ((n - k) + 1) PROVE t[i] = Append(r, x)[i]
  <2>1. CASE i = (n - k) + 1
    <3>1. i + k = n + 1
      BY <1>1, <2>1
    <3> QED BY <1>5, <1>6, <1>8, <2>1, <3>1
  <2>2. CASE i # (n - k) + 1
    <3>1. i \in 1 .. (n - k) /\ i + k \in 1 .. n
      BY <1>1, <2>2
    <3> QED BY <1>3, <1>5, <1>6, <1>8, <3>1
  <2> QED BY <2>1, <2>2
<1>10. t = Append(r, x)
  BY <1>4, <1>7, <1>9, SeqEqual
<1> QED BY <1>2, <1>10 DEF r, t

(* Taking a frame leaves the tail of what remains.                         *)
LEMMA RemainingTail ==
    ASSUME NEW s \in Seq(Messages), NEW k \in 0 .. Len(s), Len(Remaining(s, k)) # 0
    PROVE  /\ k + 1 \in 0 .. Len(s) /\ k + 1 <= Len(s) /\ k \in Nat
           /\ Remaining(s, k)[1] = s[k + 1]
           /\ Tail(Remaining(s, k)) = Remaining(s, k + 1)
<1>1. k + 1 \in 1 .. Len(s) /\ k \in Nat
  BY DEF Remaining
<1>2. SubSeq(s, k + 1, Len(s))[1] = s[k + 1]
  BY <1>1, DropOne, Zenon
<1>3. Tail(SubSeq(s, k + 1, Len(s))) = SubSeq(s, (k + 1) + 1, Len(s))
  BY <1>1, DropOne, Zenon
<1>4. k + 1 \in 0 .. Len(s) /\ k + 1 <= Len(s)
  BY <1>1
<1> QED BY <1>1, <1>2, <1>3, <1>4, Zenon DEF Remaining

(* What remains is not too long, if nothing is.                            *)
LEMMA RemainingShort ==
    ASSUME NEW s \in Seq(Messages), NEW k \in 0 .. Len(s),
           ~\E i \in DOMAIN s : TooLong(s[i])
    PROVE  NoneTooLong(Remaining(s, k))
<1> SUFFICES ASSUME NEW i \in 1 .. Len(Remaining(s, k))
             PROVE  ~TooLong(Remaining(s, k)[i])
  BY DEF NoneTooLong
<1>1. i + k \in DOMAIN s /\ Remaining(s, k)[i] = s[i + k]
  BY DEF Remaining
<1> QED BY <1>1

(* At the start nothing is sent and nothing is due.                        *)
LEMMA DeliveryInit == Init => DeliveryInv
<1> SUFFICES ASSUME Init PROVE DeliveryInv
  OBVIOUS
<1>1. sent = <<>> /\ up = <<>> /\ buf = <<>> /\ handled = <<>>
  BY DEF Init
<1>2. Len(sent) = 0 /\ handled \in Seq(Messages) /\ Len(handled) = 0
  BY <1>1
<1>3. Remaining(sent, 0) = <<>>
  BY <1>1 DEF Remaining
<1>4. buf \in Text /\ buf \o up = <<>>
  BY <1>1, TextEmpty
<1>5. buf \o up = Frames(Remaining(sent, 0))
  BY <1>3, <1>4, FramesEmpty, Zenon
<1>6. DueIn(sent, 0) = {}
  BY DEF DueIn
<1>7. HandledTo(sent, handled, 0)
  BY <1>2, <1>6, FS_EmptySet DEF HandledTo
<1>8. Reached(0)
  BY <1>2, <1>4, <1>5, <1>7 DEF Reached
<1> QED BY <1>8 DEF DeliveryInv

(* send_frame puts one more frame behind those on their way.               *)
LEMMA DeliverySend ==
    ASSUME StreamType, SendFrame, NEW k \in Nat, Reached(k)
    PROVE  Reached(k)'
<1> DEFINE m == script[1]
           ms == Remaining(sent, k)
<1>1. m \in Messages /\ sent' = Append(sent, m) /\ up' = up \o Wire[m]
  BY Sending
<1>2. buf' = buf /\ handled' = handled
  BY DEF SendFrame
<1>3. sent \in Seq(Messages) /\ up \in Text
  BY MessageSets DEF StreamType
<1>4. /\ k \in 0 .. Len(sent) /\ buf \in Text /\ handled \in Seq(Messages)
      /\ buf \o up = Frames(ms) /\ HandledTo(sent, handled, k)
  BY DEF Reached
<1> HIDE DEF m, ms
<1>5. ms \in Seq(Messages) /\ Remaining(sent', k) = Append(ms, m)
  BY <1>1, <1>3, <1>4, RemainingAppend DEF ms
<1>6. Frames(Append(ms, m)) = Frames(ms) \o Wire[m]
  BY <1>1, <1>5, FramesAppend
<1>7. buf \o (up \o Wire[m]) = (buf \o up) \o Wire[m]
  <2> DEFINE w == Wire[m]
  <2>1. w \in Text
    BY <1>1, WireText
  <2> HIDE DEF w
  <2>2. (buf \o up) \o w = buf \o (up \o w)
    BY <1>3, <1>4, <2>1, TextAssociative
  <2> QED BY <2>2 DEF w
<1>8. buf' \o up' = Frames(Remaining(sent', k))
  BY <1>1, <1>2, <1>4, <1>5, <1>6, <1>7, Zenon
<1>9. HandledTo(sent', handled', k)
  BY <1>1, <1>2, <1>3, <1>4, HandledAppend
<1>10. k \in 0 .. Len(sent')
  BY <1>1, <1>3, <1>4
<1> QED BY <1>2, <1>4, <1>8, <1>9, <1>10 DEF Reached

(* A turn of the thread takes at most one frame off the stream.            *)
LEMMA DeliveryRecv ==
    ASSUME StreamType, NEW n \in 1 .. Len(up), ServerRecv(n), NEW k \in Nat, Reached(k),
           ~\E i \in DOMAIN sent : TooLong(sent[i])
    PROVE  Reached(k)' \/ Reached(k + 1)'
<1> DEFINE got == Feed(buf, SubSeq(up, 1, n))
           after == SubSeq(up, n + 1, Len(up))
           ms == Remaining(sent, k)
           h == handled \o got.msg
<1>1. sent' = sent /\ up' = after /\ buf' = got.buf /\ handled' = h
  BY DEF ServerRecv, clientVars
<1>2. sent \in Seq(Messages) /\ up \in Text
  BY MessageSets DEF StreamType
<1>3. /\ k \in 0 .. Len(sent) /\ buf \in Text /\ handled \in Seq(Messages)
      /\ buf \o up = Frames(ms) /\ HandledTo(sent, handled, k)
  BY DEF Reached
<1>4. ms \in Seq(Messages)
  BY <1>2, <1>3 DEF Remaining
<1>5. NoneTooLong(ms)
  BY <1>2, <1>3, RemainingShort
<1> HIDE DEF ms
<1>6. after \in Text /\ (Stays(got, after, ms) \/ Takes(got, after, ms))
  BY <1>2, <1>3, <1>4, <1>5, Receive
<1> HIDE DEF got, after
<1>7. CASE Stays(got, after, ms)
  <2>1. got.msg = <<>> /\ got.buf \in Text /\ got.buf \o after = Frames(ms)
    BY <1>7, Zenon DEF Stays, NoMsg
  <2>2. h = handled
    BY <1>3, <2>1
  <2>3. buf' \o up' = Frames(Remaining(sent', k))
    BY <1>1, <2>1, Zenon DEF ms
  <2> QED BY <1>1, <1>3, <2>1, <2>2, <2>3 DEF Reached
<1>8. CASE Takes(got, after, ms)
  <2> DEFINE x == sent[k + 1]
             rest == Remaining(sent, k + 1)
  <2>1. /\ k + 1 \in 0 .. Len(sent) /\ k + 1 <= Len(sent)
        /\ ms[1] = x /\ Tail(ms) = rest
    BY <1>2, <1>3, <1>8, RemainingTail DEF Takes, ms
  <2>2. /\ got.buf \in Text /\ got.buf \o after = Frames(rest)
        /\ got.msg = IF WithinLimits(x) THEN <<x>> ELSE NoMsg
    BY <1>8, <2>1, Zenon DEF Takes
  <2>3. h \in Seq(Messages) /\ HandledTo(sent, h, k + 1)
    BY <1>2, <1>3, <2>1, <2>2, Handling
  <2> HIDE DEF x, h
  <2>4. buf' \o up' = Frames(Remaining(sent', k + 1))
    BY <1>1, <2>2, Zenon
  <2>5. Reached(k + 1)'
    BY <1>1, <2>1, <2>2, <2>3, <2>4 DEF Reached
  <2> QED BY <2>5
<1> QED BY <1>6, <1>7, <1>8

(* Every step keeps the invariant.                                         *)
LEMMA DeliveryStep == StreamType /\ DeliveryInv /\ [Next]_vars => DeliveryInv'
<1> SUFFICES ASSUME StreamType, DeliveryInv, [Next]_vars PROVE DeliveryInv'
  OBVIOUS
<1>1. sent' = sent \/ (SendFrame /\ sent' = Append(sent, script[1]))
  BY Sending DEF Next, ClientRecv, ServerRecv, clientVars, vars
<1>2. CASE \E i \in DOMAIN sent : TooLong(sent[i])
  <2>1. PICK i \in DOMAIN sent : TooLong(sent[i])
    BY <1>2
  <2>2. i \in DOMAIN sent' /\ sent'[i] = sent[i]
    <3>1. sent \in Seq(Requests)
      BY DEF StreamType
    <3> QED BY <1>1, <3>1
  <2>3. TooLong(sent'[i])
    BY <2>1, <2>2
  <2>4. (\E j \in DOMAIN sent : TooLong(sent[j]))'
    BY <2>2, <2>3 DEF TooLong
  <2> QED BY <2>4 DEF DeliveryInv
<1>3. CASE ~\E i \in DOMAIN sent : TooLong(sent[i])
  <2>1. PICK k \in Nat : Reached(k)
    BY <1>3 DEF DeliveryInv
  <2>2. CASE SendFrame
    BY <2>1, <2>2, DeliverySend DEF DeliveryInv
  <2>3. ASSUME NEW n \in 1 .. Len(down), ClientRecv(n) PROVE DeliveryInv'
    <3>1. UNCHANGED <<sent, up, buf, handled>>
      BY <2>3 DEF ClientRecv
    <3>2. Reached(k)'
      BY <2>1, <3>1 DEF Reached
    <3> QED BY <3>2 DEF DeliveryInv
  <2>4. ASSUME NEW n \in 1 .. Len(up), ServerRecv(n) PROVE DeliveryInv'
    <3>1. Reached(k)' \/ Reached(k + 1)'
      BY <1>3, <2>1, <2>4, DeliveryRecv
    <3>2. k \in Nat /\ k + 1 \in Nat
      OBVIOUS
    <3> QED BY <3>1, <3>2 DEF DeliveryInv
  <2>5. CASE UNCHANGED vars
    <3>1. UNCHANGED <<sent, up, buf, handled>>
      BY <2>5 DEF vars
    <3>2. Reached(k)'
      BY <2>1, <3>1 DEF Reached
    <3> QED BY <3>2 DEF DeliveryInv
  <2> QED BY <2>2, <2>3, <2>4, <2>5 DEF Next
<1> QED BY <1>2, <1>3

(* A message has the fields its reader looks at.                           *)
LEMMA FieldsThere ==
    ASSUME NEW m \in Messages
    PROVE  Same(m, m, Reads(m["type"])) /\ Same(m, m, Reports(m["type"]))
<1> DEFINE t == m["type"]
           D == Names(PutFields(t)) \cup {"type"}
<1>1. t \in MsgTypes /\ m = [f \in D |-> m[f]]
  BY MessageAssumption, Zenon DEF IsMessage
<1>2. Reads(t) \subseteq D /\ Reports(t) \subseteq D
  BY <1>1, FieldsAgreed DEF Agreed
<1> HIDE DEF D
<1>3. DOMAIN m = D
  BY <1>1, Zenon
<1> QED BY <1>2, <1>3, Zenon DEF Same

(* The invariant is what Delivered says, with equality for Same.           *)
LEMMA InvDelivered == StreamType /\ DeliveryInv => Delivered
<1> SUFFICES ASSUME StreamType, ~\E i \in DOMAIN sent : TooLong(sent[i]), \E k \in Nat : Reached(k)
             PROVE  Delivered
  BY DEF DeliveryInv, Delivered
<1>1. PICK k \in Nat : Reached(k)
  OBVIOUS
<1> DEFINE rest == SubSeq(sent, k + 1, Len(sent))
<1>2. k \in 0 .. Len(sent) /\ HandledTo(sent, handled, k)
  BY <1>1 DEF Reached
<1>3. buf \o up = FlattenSeq([i \in DOMAIN rest |-> Wire[rest[i]]])
  BY <1>1, Zenon DEF Reached, Remaining, Frames, WiresOf
<1>4. \A j : Due(j) = DueIn(sent, j)
  BY DEF Due, DueIn
<1>5. Len(handled) = Cardinality(Due(k))
  BY <1>2, <1>4 DEF HandledTo
<1>6. ASSUME NEW i \in Due(k)
      PROVE  Same(handled[Cardinality(Due(i))], sent[i], Reads(sent[i]["type"]))
  <2>1. handled[Cardinality(Due(i))] = sent[i]
    BY <1>2, <1>4 DEF HandledTo
  <2>2. i \in 1 .. Len(sent)
    BY <1>2 DEF Due
  <2>3. sent[i] \in Messages
    BY <2>2, MessageSets DEF StreamType
  <2> QED BY <2>1, <2>3, FieldsThere
<1> QED BY <1>2, <1>3, <1>5, <1>6, Zenon DEF Delivered

(***************************************************************************)
(* For every set of messages, every script and every way to cut the        *)
(* stream: each message within the limits reaches Coordinator::handle once *)
(* and in order, with every field handle() reads, as long as no payload is *)
(* longer than protocol_max_payload.                                       *)
(***************************************************************************)
THEOREM MessagesDelivered == Spec => []Delivered
<1> DEFINE Inv == StreamType /\ DeliveryInv
<1>1. Init => Inv
  BY TypeInit, DeliveryInit
<1>2. Inv /\ [Next]_vars => Inv'
  BY TypeStep, DeliveryStep
<1>3. Inv => Delivered
  BY InvDelivered
<1> HIDE DEF Inv
<1> QED BY <1>1, <1>2, <1>3, PTL DEF Spec

-----------------------------------------------------------------------------
(***************************************************************************)
(* Request and answer, for a client that waits.  At most one frame travels *)
(* (ms towards the coordinator, rs back), and it is that of the last       *)
(* request or of the last reply: so recv_frame's fresh decoder, which      *)
(* forgets whatever it has buffered behind an answer, has nothing behind   *)
(* it.                                                                     *)
(***************************************************************************)
Pending(b, stream, ms) ==
    b \in Text /\ stream \in Text /\ ms \in Seq(Messages) /\ b \o stream = Frames(ms)

Counts ==
    /\ Len(answers) <= Len(posted) /\ Len(posted) <= Len(sent)
    /\ Len(sent) <= Len(answers) + 1

Asked(ms) ==
    \/ ms = <<>>
    \/ /\ Len(posted) = Len(answers) /\ Len(sent) = Len(answers) + 1
       /\ ms = <<sent[Len(sent)]>>

Replied(rs) ==
    \/ rs = <<>>
    \/ Len(posted) = Len(answers) + 1 /\ rs = <<posted[Len(posted)]>>

Matching ==
    /\ answers \in Seq(Responses)
    /\ \A i \in DOMAIN posted : posted[i]["type"] \in ReplyTypes(sent[i]["type"])
    /\ \A i \in DOMAIN answers : answers[i] = posted[i]

Exchange(ms, rs) ==
    /\ Counts /\ Matching
    /\ Pending(buf, up, ms) /\ Asked(ms)
    /\ Pending(cbuf, down, rs) /\ Replied(rs)

AnswerInv ==
    \/ \E i \in DOMAIN sent : TooLong(sent[i])
    \/ \E i \in DOMAIN posted : TooLong(posted[i])
    \/ window = 1 => \E ms, rs : Exchange(ms, rs)

(* Nothing is made of nothing.                                             *)
LEMMA BothEmpty ==
    ASSUME NEW a \in Text, NEW b \in Text, a \o b = <<>>
    PROVE  a = <<>> /\ b = <<>>
<1>1. Len(a \o b) = Len(a) + Len(b) /\ Len(a) \in Nat /\ Len(b) \in Nat
  BY TextConcat, TextLen
<1>2. Len(a \o b) = 0
  BY TextEmpty, Zenon
<1>3. Len(a) = 0 /\ Len(b) = 0
  BY <1>1, <1>2
<1> QED BY <1>3, TextLen

(* No frame pending means that buffer and stream are empty.                *)
LEMMA NothingPending ==
    ASSUME NEW b, NEW stream
    PROVE  /\ Pending(b, stream, <<>>) => b = <<>> /\ stream = <<>>
           /\ b = <<>> /\ stream = <<>> => Pending(b, stream, <<>>)
<1>1. Frames(<<>>) = <<>> /\ <<>> \in Seq(Messages)
  BY FramesEmpty
<1>2. <<>> \in Text /\ <<>> \o <<>> = <<>>
  BY TextEmpty
<1>3. ASSUME Pending(b, stream, <<>>) PROVE b = <<>> /\ stream = <<>>
  BY <1>1, <1>3, BothEmpty DEF Pending
<1>4. ASSUME b = <<>>, stream = <<>> PROVE Pending(b, stream, <<>>)
  BY <1>1, <1>2, <1>4, Zenon DEF Pending
<1> QED BY <1>3, <1>4

(* Sending into an empty stream.                                           *)
LEMMA OnePending ==
    ASSUME NEW b, NEW stream, Pending(b, stream, <<>>), NEW m \in Messages
    PROVE  Pending(b, stream \o Frames(<<m>>), <<m>>)
<1> DEFINE w == Frames(<<m>>)
<1>1. b = <<>> /\ stream = <<>>
  BY NothingPending
<1>2. <<m>> \in Seq(Messages)
  BY FramesOne
<1>3. w \in Text
  BY <1>2, FramesText
<1> HIDE DEF w
<1>4. <<>> \o w = w /\ <<>> \in Text
  BY <1>3, TextEmpty
<1>5. stream \o w = w /\ b \o w = w /\ b \in Text
  BY <1>1, <1>4, Zenon
<1> QED BY <1>2, <1>3, <1>5, Zenon DEF Pending, w

(* One recv on a stream that carries one frame at most.                    *)
LEMMA ReceiveOne ==
    ASSUME NEW old, NEW stream, NEW ms, Pending(old, stream, ms), NoneTooLong(ms),
           ms = <<>> \/ \E x : ms = <<x>>, NEW n \in 1 .. Len(stream)
    PROVE  LET got == Feed(old, SubSeq(stream, 1, n))
               after == SubSeq(stream, n + 1, Len(stream))
           IN  \/ got.msg = NoMsg /\ Pending(got.buf, after, ms)
               \/ /\ got.buf = <<>> /\ after = <<>> /\ ms # <<>>
                  /\ got.msg = NoMsg \/ got.msg = <<ms[1]>>
<1> DEFINE got == Feed(old, SubSeq(stream, 1, n))
           after == SubSeq(stream, n + 1, Len(stream))
<1>1. old \in Text /\ stream \in Text /\ ms \in Seq(Messages) /\ old \o stream = Frames(ms)
  BY DEF Pending
<1>2. after \in Text /\ (Stays(got, after, ms) \/ Takes(got, after, ms))
  BY <1>1, Receive
<1> HIDE DEF got, after
<1>3. CASE Stays(got, after, ms)
  BY <1>1, <1>2, <1>3, Zenon DEF Stays, Pending, got, after
<1>4. CASE Takes(got, after, ms)
  <2>1. Len(ms) # 0 /\ got.buf \in Text /\ got.buf \o after = Frames(Tail(ms))
    BY <1>4 DEF Takes
  <2>2. ms # <<>>
    BY <1>1, <2>1, EmptyLen
  <2>3. PICK x : ms = <<x>>
    BY <2>2
  <2>4. Tail(ms) = <<>>
    BY <2>3
  <2>5. got.buf \o after = <<>>
    BY <2>1, <2>4, FramesEmpty, Zenon
  <2>6. got.buf = <<>> /\ after = <<>>
    <3> DEFINE g == got.buf
    <3>1. g \in Text /\ g \o after = <<>>
      BY <2>1, <2>5
    <3> HIDE DEF g
    <3>2. g = <<>> /\ after = <<>>
      BY <1>2, <3>1, BothEmpty
    <3> QED BY <3>2 DEF g
  <2>7. got.msg = NoMsg \/ got.msg = <<ms[1]>>
    BY <1>4, Zenon DEF Takes
  <2> QED BY <2>2, <2>6, <2>7, Zenon DEF got, after
<1> QED BY <1>2, <1>3, <1>4

(* At the start nothing travels.                                           *)
LEMMA AnswerInit == Init => AnswerInv
<1> SUFFICES ASSUME Init PROVE AnswerInv
  OBVIOUS
<1>1. /\ sent = <<>> /\ posted = <<>> /\ answers = <<>>
      /\ buf = <<>> /\ up = <<>> /\ cbuf = <<>> /\ down = <<>>
  BY DEF Init
<1>2. Counts /\ Matching
  BY <1>1 DEF Counts, Matching
<1>3. Pending(buf, up, <<>>) /\ Pending(cbuf, down, <<>>)
  BY <1>1, NothingPending, Zenon
<1>4. Exchange(<<>>, <<>>)
  BY <1>2, <1>3, Zenon DEF Exchange, Asked, Replied
<1> QED BY <1>4, Zenon DEF AnswerInv

(* The lengths are numbers.                                                *)
LEMMA Lengths ==
    ASSUME StreamType, Counts, Matching
    PROVE  Len(sent) \in Nat /\ Len(posted) \in Nat /\ Len(answers) \in Nat
BY DEF StreamType, Matching

(* A client that waits sends only when everything is answered.             *)
LEMMA AnswerSend ==
    ASSUME StreamType, SendFrame, window = 1, NEW ms, NEW rs, Exchange(ms, rs)
    PROVE  \E m : Exchange(<<m>>, <<>>)'
<1>1. PICK m : m \in Messages /\ sent' = Append(sent, m) /\ up' = up \o Wire[m]
  BY Sending
<1>2. UNCHANGED <<buf, posted, down, cbuf, answers>> /\ Len(sent) - Len(answers) < 1
  BY DEF SendFrame, Unanswered
<1>3. Counts /\ Matching /\ Asked(ms) /\ Replied(rs)
  BY DEF Exchange
<1>4. Len(sent) \in Nat /\ Len(posted) \in Nat /\ Len(answers) \in Nat
  BY <1>3, Lengths
<1>5. Len(sent) = Len(answers) /\ Len(posted) = Len(answers)
  BY <1>2, <1>3, <1>4 DEF Counts
<1>6. ms = <<>> /\ rs = <<>>
  BY <1>3, <1>4, <1>5 DEF Asked, Replied
<1>7. /\ Len(sent') = Len(sent) + 1 /\ sent'[Len(sent')] = m
      /\ \A i \in 1 .. Len(sent) : sent'[i] = sent[i]
  BY <1>1 DEF StreamType
<1>8. Counts'
  BY <1>2, <1>4, <1>5, <1>7 DEF Counts
<1>9. Matching'
  <2>1. DOMAIN posted = 1 .. Len(sent)
    BY <1>5 DEF StreamType
  <2> QED BY <1>2, <1>3, <1>7, <2>1 DEF Matching
<1>10. Asked(<<m>>)'
  BY <1>2, <1>5, <1>7, Zenon DEF Asked
<1>11. Pending(buf, up, <<>>) /\ Pending(cbuf, down, <<>>)
  BY <1>6, Zenon DEF Exchange
<1>12. Pending(buf, up', <<m>>)
  <2>1. Frames(<<m>>) = Wire[m]
    BY <1>1, FramesOne
  <2>2. Pending(buf, up \o Frames(<<m>>), <<m>>)
    BY <1>1, <1>11, OnePending
  <2> QED BY <1>1, <2>1, <2>2, Zenon
<1>13. Pending(buf, up, <<m>>)' /\ Pending(cbuf, down, <<>>)'
  BY <1>2, <1>11, <1>12, Zenon DEF Pending
<1>14. Exchange(<<m>>, <<>>)'
  BY <1>8, <1>9, <1>10, <1>13, Zenon DEF Exchange, Replied
<1> QED BY <1>14

(* recv_frame reads the last reply, and nothing is left behind it.         *)
LEMMA AnswerClient ==
    ASSUME StreamType, NEW n \in 1 .. Len(down), ClientRecv(n), NEW ms, NEW rs, Exchange(ms, rs),
           ~\E i \in DOMAIN posted : TooLong(posted[i])
    PROVE  Exchange(ms, rs)' \/ Exchange(ms, <<>>)'
<1> DEFINE got == Feed(cbuf, SubSeq(down, 1, n))
           after == SubSeq(down, n + 1, Len(down))
<1>1. /\ down' = after /\ answers' = answers \o got.msg
      /\ cbuf' = IF got.msg = NoMsg THEN got.buf ELSE <<>>
      /\ UNCHANGED <<sent, up, buf, posted>>
  BY DEF ClientRecv
<1>2. Counts /\ Matching /\ Asked(ms) /\ Replied(rs)
  BY DEF Exchange
<1>3. Len(sent) \in Nat /\ Len(posted) \in Nat /\ Len(answers) \in Nat
  BY <1>2, Lengths
<1>4. Pending(buf, up, ms) /\ Pending(cbuf, down, rs)
  BY DEF Exchange
<1>5. Pending(buf, up, ms)'
  BY <1>1, <1>4, Zenon DEF Pending
<1>6. rs = <<>> \/ \E x : rs = <<x>>
  BY <1>2, Zenon DEF Replied
<1>7. NoneTooLong(rs)
  <2>1. CASE rs = <<>>
    BY <2>1 DEF NoneTooLong
  <2>2. CASE Len(posted) = Len(answers) + 1 /\ rs = <<posted[Len(posted)]>>
    <3>1. Len(posted) \in DOMAIN posted
      BY <1>3, <2>2 DEF StreamType
    <3>2. ~TooLong(posted[Len(posted)])
      BY <3>1
    <3> DEFINE q == posted[Len(posted)]
    <3>3. rs = <<q>> /\ ~TooLong(q)
      BY <2>2, <3>2
    <3> HIDE DEF q
    <3>4. Len(rs) = 1 /\ rs[1] = q
      BY <3>3
    <3>5. \A i \in 1 .. 1 : i = 1
      OBVIOUS
    <3> QED BY <3>3, <3>4, <3>5, Zenon DEF NoneTooLong
  <2> QED BY <1>2, <2>1, <2>2 DEF Replied
<1>8. \/ got.msg = NoMsg /\ Pending(got.buf, after, rs)
      \/ /\ got.buf = <<>> /\ after = <<>> /\ rs # <<>>
         /\ got.msg = NoMsg \/ got.msg = <<rs[1]>>
  BY <1>4, <1>6, <1>7, ReceiveOne
<1> HIDE DEF got, after
<1>9. ASSUME got.msg = NoMsg
      PROVE  answers' = answers /\ cbuf' = got.buf /\ Counts' /\ Matching' /\ Asked(ms)'
  <2>1. answers' = answers
    BY <1>1, <1>2, <1>9 DEF Matching, NoMsg
  <2> QED BY <1>1, <1>2, <1>9, <2>1 DEF Counts, Matching, Asked
<1>10. CASE got.msg = NoMsg /\ Pending(got.buf, after, rs)
  <2>1. Replied(rs)'
    BY <1>1, <1>2, <1>9, <1>10 DEF Replied
  <2>2. Pending(cbuf, down, rs)'
    BY <1>1, <1>9, <1>10, Zenon DEF Pending
  <2>3. Exchange(ms, rs)'
    BY <1>5, <1>9, <1>10, <2>1, <2>2, Zenon DEF Exchange
  <2> QED BY <2>3
<1>11. ASSUME cbuf' = <<>>, down' = <<>>
       PROVE  Pending(cbuf, down, <<>>)' /\ Replied(<<>>)'
  <2>1. Pending(cbuf', down', <<>>)
    BY <1>11, NothingPending, Zenon
  <2> QED BY <2>1, Zenon DEF Pending, Replied
<1>12. CASE got.buf = <<>> /\ after = <<>> /\ got.msg = NoMsg
  <2>1. Pending(cbuf, down, <<>>)' /\ Replied(<<>>)'
    BY <1>1, <1>9, <1>11, <1>12, Zenon
  <2>2. Exchange(ms, <<>>)'
    BY <1>5, <1>9, <1>12, <2>1, Zenon DEF Exchange
  <2> QED BY <2>2
<1>13. CASE after = <<>> /\ rs # <<>> /\ got.msg = <<rs[1]>>
  <2> DEFINE q == posted[Len(posted)]
  <2>1. Len(posted) = Len(answers) + 1 /\ rs = <<q>>
    BY <1>2, <1>13 DEF Replied
  <2>2. q \in Responses /\ q = posted[Len(answers) + 1]
    BY <1>3, <2>1 DEF StreamType
  <2> HIDE DEF q
  <2>3. got.msg = <<q>>
    BY <1>13, <2>1
  <2>4. got.msg # NoMsg
    BY <2>3 DEF NoMsg
  <2>5. cbuf' = <<>> /\ down' = <<>>
    BY <1>1, <1>13, <2>4
  <2>6. answers' = answers \o <<q>>
    BY <1>1, <2>3
  <2>7. /\ answers' \in Seq(Responses) /\ Len(answers') = Len(answers) + 1
        /\ answers'[Len(answers) + 1] = q
        /\ \A i \in 1 .. Len(answers) : answers'[i] = answers[i]
    BY <1>2, <2>2, <2>6 DEF Matching
  <2>8. \A i \in DOMAIN answers' : answers'[i] = posted[i]
    <3>1. \A i \in DOMAIN answers' : i \in 1 .. Len(answers) \/ i = Len(answers) + 1
      BY <1>3, <2>7
    <3>2. DOMAIN answers = 1 .. Len(answers)
      BY <1>2 DEF Matching
    <3>3. \A i \in 1 .. Len(answers) : answers[i] = posted[i]
      BY <1>2, <3>2 DEF Matching
    <3> QED BY <2>2, <2>7, <3>1, <3>3
  <2>9. Matching'
    BY <1>1, <1>2, <2>7, <2>8 DEF Matching
  <2>10. Counts'
    BY <1>1, <1>2, <1>3, <2>1, <2>7 DEF Counts
  <2>11. ms = <<>>
    <3>1. Len(posted) # Len(answers)
      BY <1>3, <2>1
    <3> QED BY <1>2, <3>1 DEF Asked
  <2>12. Asked(ms)'
    BY <2>11, Zenon DEF Asked
  <2>13. Pending(cbuf, down, <<>>)' /\ Replied(<<>>)'
    BY <1>11, <2>5
  <2>14. Exchange(ms, <<>>)'
    BY <1>5, <2>9, <2>10, <2>12, <2>13, Zenon DEF Exchange
  <2> QED BY <2>14
<1> QED BY <1>8, <1>10, <1>12, <1>13

(* The thread reads the last request and answers it.                       *)
LEMMA AnswerServer ==
    ASSUME StreamType, NEW n \in 1 .. Len(up), ServerRecv(n), NEW ms, NEW rs, Exchange(ms, rs),
           ~\E i \in DOMAIN sent : TooLong(sent[i])
    PROVE  \E ms2, rs2 : Exchange(ms2, rs2)'
<1> DEFINE got == Feed(buf, SubSeq(up, 1, n))
           after == SubSeq(up, n + 1, Len(up))
<1>1. up' = after /\ buf' = got.buf /\ UNCHANGED <<sent, cbuf, answers>>
  BY DEF ServerRecv, clientVars
<1>2. Counts /\ Matching /\ Asked(ms) /\ Replied(rs)
  BY DEF Exchange
<1>3. Len(sent) \in Nat /\ Len(posted) \in Nat /\ Len(answers) \in Nat
  BY <1>2, Lengths
<1>4. Pending(buf, up, ms) /\ Pending(cbuf, down, rs)
  BY DEF Exchange
<1>5. ms = <<>> \/ \E x : ms = <<x>>
  BY <1>2, Zenon DEF Asked
<1>6. NoneTooLong(ms)
  <2>1. CASE ms = <<>>
    BY <2>1 DEF NoneTooLong
  <2>2. CASE Len(sent) = Len(answers) + 1 /\ ms = <<sent[Len(sent)]>>
    <3>1. Len(sent) \in DOMAIN sent
      BY <1>3, <2>2 DEF StreamType
    <3>2. ~TooLong(sent[Len(sent)])
      BY <3>1
    <3> DEFINE q == sent[Len(sent)]
    <3>3. ms = <<q>> /\ ~TooLong(q)
      BY <2>2, <3>2
    <3> HIDE DEF q
    <3>4. Len(ms) = 1 /\ ms[1] = q
      BY <3>3
    <3>5. \A i \in 1 .. 1 : i = 1
      OBVIOUS
    <3> QED BY <3>3, <3>4, <3>5, Zenon DEF NoneTooLong
  <2> QED BY <1>2, <2>1, <2>2 DEF Asked
<1>7. \/ got.msg = NoMsg /\ Pending(got.buf, after, ms)
      \/ /\ got.buf = <<>> /\ after = <<>> /\ ms # <<>>
         /\ got.msg = NoMsg \/ got.msg = <<ms[1]>>
  BY <1>4, <1>5, <1>6, ReceiveOne
<1>8. PICK new : Answer(got.msg, new) /\ posted' = posted \o new /\ down' = down \o Frames(new)
  BY ServerAnswers, Zenon
<1> HIDE DEF got, after
<1>9. ASSUME new = <<>>
      PROVE  /\ posted' = posted /\ Counts' /\ Matching' /\ Asked(ms)'
             /\ Pending(cbuf, down, rs)' /\ Replied(rs)'
  <2>1. posted' = posted
    BY <1>8, <1>9 DEF StreamType
  <2>2. Frames(new) = <<>>
    BY <1>9, FramesEmpty, Zenon
  <2>3. down' = down
    BY <1>8, <2>2, TextEmpty, Zenon DEF StreamType
  <2>4. Pending(cbuf, down, rs)'
    BY <1>1, <1>4, <2>3, Zenon DEF Pending
  <2> QED BY <1>1, <1>2, <2>1, <2>4 DEF Counts, Matching, Asked, Replied
<1>10. CASE got.msg = NoMsg /\ Pending(got.buf, after, ms)
  <2>1. new = <<>>
    BY <1>8, <1>10, Zenon DEF Answer
  <2>2. Pending(buf, up, ms)'
    BY <1>1, <1>10, Zenon DEF Pending
  <2>3. Exchange(ms, rs)'
    BY <1>9, <2>1, <2>2, Zenon DEF Exchange
  <2> QED BY <2>3
<1>11. CASE got.buf = <<>> /\ after = <<>> /\ ms # <<>> /\ (got.msg = NoMsg \/ got.msg = <<ms[1]>>)
  <2>1. Pending(buf, up, <<>>)'
    <3>1. Pending(buf', up', <<>>)
      BY <1>1, <1>11, NothingPending, Zenon
    <3> QED BY <3>1, Zenon DEF Pending
  <2>2. Asked(<<>>)'
    BY Zenon DEF Asked
  <2>3. CASE new = <<>>
    <3>1. Exchange(<<>>, rs)'
      BY <1>9, <2>1, <2>2, <2>3, Zenon DEF Exchange
    <3> QED BY <3>1
  <2>4. CASE new # <<>>
    <3>1. PICK r \in Responses : /\ new = <<r>> /\ got.msg # NoMsg
                                 /\ r["type"] \in ReplyTypes(got.msg[1]["type"])
      BY <1>8, <2>4, Zenon DEF Answer
    <3> DEFINE x == sent[Len(sent)]
    <3>2. Len(posted) = Len(answers) /\ Len(sent) = Len(answers) + 1 /\ ms = <<x>>
      BY <1>2, <1>11 DEF Asked
    <3> HIDE DEF x
    <3>3. got.msg[1] = x
      <4>1. ms[1] = x
        BY <3>2
      <4>2. got.msg = <<ms[1]>>
        BY <1>11, <3>1, Zenon
      <4>3. got.msg = <<x>>
        BY <4>1, <4>2, Zenon
      <4> QED BY <4>3
    <3>4. r["type"] \in ReplyTypes(x["type"])
      BY <3>1, <3>3, Zenon
    <3>5. rs = <<>>
      <4>1. Len(posted) # Len(answers) + 1
        BY <1>3, <3>2
      <4> QED BY <1>2, <4>1 DEF Replied
    <3>6. r \in Messages
      BY MessageSets
    <3>7. Pending(cbuf, down \o Frames(<<r>>), <<r>>)
      BY <1>4, <3>5, <3>6, OnePending
    <3>8. Pending(cbuf, down, <<r>>)'
      <4>1. down' = down \o Frames(<<r>>)
        BY <1>8, <3>1, Zenon
      <4>2. Pending(cbuf, down', <<r>>)
        BY <3>7, <4>1, Zenon
      <4> QED BY <1>1, <4>2, Zenon DEF Pending
    <3>9. /\ Len(posted') = Len(posted) + 1 /\ posted'[Len(posted) + 1] = r
          /\ DOMAIN posted' = 1 .. (Len(posted) + 1)
          /\ \A i \in 1 .. Len(posted) : posted'[i] = posted[i]
      <4>1. posted' = posted \o <<r>>
        BY <1>8, <3>1, Zenon
      <4> QED BY <4>1 DEF StreamType
    <3>10. Counts'
      BY <1>1, <1>3, <3>2, <3>9 DEF Counts
    <3>11. Replied(<<r>>)'
      BY <1>1, <3>2, <3>9 DEF Replied
    <3>12. ASSUME NEW i \in DOMAIN posted'
           PROVE  posted'[i]["type"] \in ReplyTypes(sent[i]["type"])
      <4>1. CASE i = Len(posted) + 1
        <5>1. posted'[i] = r /\ sent[i] = x
          BY <3>2, <3>9, <4>1 DEF x
        <5> QED BY <3>4, <5>1, Zenon
      <4>2. CASE i # Len(posted) + 1
        <5>1. i \in 1 .. Len(posted)
          BY <1>3, <3>9, <4>2
        <5>2. posted'[i] = posted[i] /\ i \in DOMAIN posted
          BY <3>9, <5>1 DEF StreamType
        <5> QED BY <1>2, <5>2, Zenon DEF Matching
      <4> QED BY <4>1, <4>2
    <3>13. \A i \in DOMAIN answers : answers[i] = posted'[i]
      <4>1. DOMAIN answers = 1 .. Len(posted)
        BY <1>2, <3>2 DEF Matching
      <4> QED BY <1>2, <3>9, <4>1 DEF Matching
    <3>14. Matching'
      BY <1>1, <1>2, <3>12, <3>13 DEF Matching
    <3>15. Exchange(<<>>, <<r>>)'
      BY <2>1, <2>2, <3>8, <3>10, <3>11, <3>14, Zenon DEF Exchange
    <3> QED BY <3>15
  <2> QED BY <2>3, <2>4
<1> QED BY <1>7, <1>10, <1>11

(* Every step keeps the invariant.                                         *)
LEMMA AnswerStep == StreamType /\ AnswerInv /\ [Next]_vars => AnswerInv'
<1> SUFFICES ASSUME StreamType, AnswerInv, [Next]_vars PROVE AnswerInv'
  OBVIOUS
<1>1. sent' = sent \/ sent' = Append(sent, script[1])
  BY Sending DEF Next, ClientRecv, ServerRecv, clientVars, vars
<1>2. posted' = posted \/ \E r \in Responses : posted' = Append(posted, r)
  <2>1. ASSUME NEW n \in 1 .. Len(up), ServerRecv(n)
        PROVE  posted' = posted \/ \E r \in Responses : posted' = Append(posted, r)
    <3>1. PICK rs : /\ Answer(Feed(buf, SubSeq(up, 1, n)).msg, rs)
                    /\ posted' = posted \o rs /\ down' = down \o Frames(rs)
      BY <2>1, ServerAnswers, Zenon
    <3>2. CASE rs = <<>>
      BY <3>1, <3>2 DEF StreamType
    <3>3. ASSUME NEW r \in Responses, rs = <<r>>
          PROVE  posted' = Append(posted, r)
      <4>1. posted' = posted \o <<r>>
        BY <3>1, <3>3, Zenon
      <4> QED BY <4>1 DEF StreamType
    <3> QED BY <3>1, <3>2, <3>3, Zenon DEF Answer
  <2> QED BY <2>1 DEF Next, SendFrame, ClientRecv, vars
<1>3. CASE \E i \in DOMAIN sent : TooLong(sent[i])
  <2>1. PICK i \in DOMAIN sent : TooLong(sent[i])
    BY <1>3
  <2>2. i \in DOMAIN sent' /\ sent'[i] = sent[i]
    <3>1. sent \in Seq(Requests)
      BY DEF StreamType
    <3> QED BY <1>1, <3>1
  <2>3. (\E j \in DOMAIN sent : TooLong(sent[j]))'
    BY <2>1, <2>2 DEF TooLong
  <2> QED BY <2>3 DEF AnswerInv
<1>4. CASE \E i \in DOMAIN posted : TooLong(posted[i])
  <2>1. PICK i \in DOMAIN posted : TooLong(posted[i])
    BY <1>4
  <2>2. i \in DOMAIN posted' /\ posted'[i] = posted[i]
    <3>1. posted \in Seq(Responses)
      BY DEF StreamType
    <3> QED BY <1>2, <3>1
  <2>3. (\E j \in DOMAIN posted : TooLong(posted[j]))'
    BY <2>1, <2>2 DEF TooLong
  <2> QED BY <2>3 DEF AnswerInv
<1>5. CASE /\ ~\E i \in DOMAIN sent : TooLong(sent[i])
           /\ ~\E i \in DOMAIN posted : TooLong(posted[i])
  <2>1. window' = window
    BY DEF Next, SendFrame, ClientRecv, ServerRecv, clientVars, vars
  <2>2. CASE window # 1
    BY <2>1, <2>2 DEF AnswerInv
  <2>3. CASE window = 1
    <3>1. PICK ms, rs : Exchange(ms, rs)
      BY <1>5, <2>3 DEF AnswerInv
    <3>2. SUFFICES \E ms2, rs2 : Exchange(ms2, rs2)'
      BY DEF AnswerInv
    <3>3. CASE SendFrame
      BY <2>3, <3>1, <3>3, AnswerSend
    <3>4. ASSUME NEW n \in 1 .. Len(down), ClientRecv(n) PROVE \E ms2, rs2 : Exchange(ms2, rs2)'
      BY <1>5, <3>1, <3>4, AnswerClient
    <3>5. ASSUME NEW n \in 1 .. Len(up), ServerRecv(n) PROVE \E ms2, rs2 : Exchange(ms2, rs2)'
      BY <1>5, <3>1, <3>5, AnswerServer
    <3>6. CASE UNCHANGED vars
      <4>1. Exchange(ms, rs)'
        BY <3>1, <3>6 DEF Exchange, Counts, Matching, Pending, Asked, Replied, vars
      <4> QED BY <4>1
    <3> QED BY <3>3, <3>4, <3>5, <3>6 DEF Next
  <2> QED BY <2>2, <2>3
<1> QED BY <1>3, <1>4, <1>5

(* The invariant implies AnswersMatch.                                     *)
LEMMA InvMatch == StreamType /\ AnswerInv => AnswersMatch
<1> SUFFICES ASSUME StreamType, NEW ms, NEW rs, Exchange(ms, rs)
             PROVE  /\ Len(posted) <= Len(sent) /\ Len(answers) <= Len(posted)
                    /\ \A i \in DOMAIN posted : posted[i]["type"] \in ReplyTypes(sent[i]["type"])
                    /\ \A i \in DOMAIN answers :
                          Same(answers[i], posted[i], Reports(posted[i]["type"]))
  BY DEF AnswerInv, AnswersMatch
<1>1. Counts /\ Matching
  BY DEF Exchange
<1>2. ASSUME NEW i \in DOMAIN answers
      PROVE  Same(answers[i], posted[i], Reports(posted[i]["type"]))
  <2>1. answers[i] = posted[i] /\ answers[i] \in Responses
    BY <1>1 DEF Matching
  <2>2. posted[i] \in Messages
    BY <2>1, MessageSets
  <2> QED BY <2>1, <2>2, FieldsThere
<1> QED BY <1>1, <1>2 DEF Counts, Matching

(***************************************************************************)
(* For every script and every reply handle() may give: a client with one   *)
(* request outstanding gets from each recv_frame the reply to the request  *)
(* it has just made, with every field it reads, as long as no payload is   *)
(* longer than protocol_max_payload.                                       *)
(***************************************************************************)
THEOREM AnswersAlwaysMatch == Spec => []AnswersMatch
<1> DEFINE Inv == StreamType /\ AnswerInv
<1>1. Init => Inv
  BY TypeInit, AnswerInit
<1>2. Inv /\ [Next]_vars => Inv'
  BY TypeStep, AnswerStep
<1>3. Inv => AnswersMatch
  BY InvMatch
<1> HIDE DEF Inv
<1> QED BY <1>1, <1>2, <1>3, PTL DEF Spec

=============================================================================
