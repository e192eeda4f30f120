------------------------ MODULE ClientServer_proofs -------------------------
(***************************************************************************)
(* For every number of clients, every lines, sizes and buffers: what is    *)
(* told of a client stays true while the server goes through its clients,  *)
(* a client is one connection, no byte between a client and the server is  *)
(* lost, and the two together are the service of KVService.  All of them   *)
(* follow from one inductive invariant, Inv.                               *)
(***************************************************************************)
EXTENDS ClientServer, SequenceLemmas, FiniteSetTheorems

-----------------------------------------------------------------------------
(* Frames.                                                                 *)

\* A frame, byte by byte.
LEMMA FrameBytes ==
  ASSUME NEW m, NEW n \in Nat
  PROVE  /\ \E B : Frame(m, n) \in Seq(B)
         /\ Len(Frame(m, n)) = HeaderSize + n
         /\ \A j \in 1 .. HeaderSize : Frame(m, n)[j] = [size |-> n, part |-> j]
         /\ \A j \in 1 .. n : Frame(m, n)[HeaderSize + j] = [message |-> m, part |-> j]
<1> DEFINE h == [j \in 1 .. HeaderSize |-> [size |-> n, part |-> j]]
           p == [j \in 1 .. n |-> [message |-> m, part |-> j]]
           B == {h[j] : j \in 1 .. HeaderSize} \cup {p[j] : j \in 1 .. n}
<1>1. HeaderSize \in Nat
  BY MessageAssumption
<1>2. h \in Seq(B) /\ Len(h) = HeaderSize
  BY <1>1
<1>3. p \in Seq(B) /\ Len(p) = n
  OBVIOUS
<1>5. Frame(m, n) = Join(h, p)
  BY DEF Frame, Join
<1>6. \A j \in 1 .. HeaderSize : h[j] = [size |-> n, part |-> j]
  OBVIOUS
<1>7. \A j \in 1 .. n : p[j] = [message |-> m, part |-> j]
  OBVIOUS
<1>8. Frame(m, n) \in Seq(B)
  BY <1>2, <1>3, <1>5, JoinProperties
<1> HIDE DEF h, p, B
<1>9. Joined(Frame(m, n), h, p)
  BY <1>2, <1>3, <1>5, JoinProperties
<1>10. \A j \in 1 .. HeaderSize : Join(h, p)[j] = h[j]
  BY <1>2, <1>5, <1>9 DEF Joined
<1>11. \A j \in 1 .. n : Join(h, p)[HeaderSize + j] = p[j]
  BY <1>2, <1>3, <1>5, <1>9 DEF Joined
<1>12. \A j \in 1 .. HeaderSize : Frame(m, n)[j] = [size |-> n, part |-> j]
  BY <1>5, <1>6, <1>10
<1>13. \A j \in 1 .. n : Frame(m, n)[HeaderSize + j] = [message |-> m, part |-> j]
  BY <1>5, <1>7, <1>11
<1>14. Len(Frame(m, n)) = HeaderSize + n
  BY <1>2, <1>3, <1>9 DEF Joined
<1> QED
  BY <1>8, <1>12, <1>13, <1>14

\* What MessageReader makes of bytes that are the beginning of a frame and
\* others: the frame's message, once it is complete, and the bytes behind it.
LEMMA ParseFrame ==
  ASSUME NEW B, NEW m, NEW n \in Nat, Frame(m, n) \in Seq(B),
         NEW bytes \in Seq(B), NEW rest \in Seq(B), NEW others \in Seq(B),
         Join(bytes, rest) = Join(Frame(m, n), others), HasHeader(bytes)
  PROVE  /\ Announced(bytes) = n
         /\ IsComplete(bytes) => /\ MessageOf(bytes) = IF n = 0 THEN <<>> ELSE m
                                 /\ Behind(bytes) \in Seq(B)
                                 /\ Join(Behind(bytes), rest) = others
<1>1. PICK f \in Seq(B) : f = Frame(m, n)
  OBVIOUS
<1>2. /\ HeaderSize \in Nat \ {0} /\ Len(f) = HeaderSize + n
      /\ f[1] = [size |-> n, part |-> 1]
      /\ n # 0 => f[HeaderSize + 1] = [message |-> m, part |-> 1]
  <2>1. /\ Len(f) = HeaderSize + n
        /\ \A j \in 1 .. HeaderSize : f[j] = [size |-> n, part |-> j]
        /\ \A j \in 1 .. n : f[HeaderSize + j] = [message |-> m, part |-> j]
    BY <1>1, FrameBytes
  <2>2. HeaderSize \in Nat \ {0} /\ 1 \in 1 .. HeaderSize /\ (n # 0 => 1 \in 1 .. n)
    BY MessageAssumption
  <2> QED
    BY <2>1, <2>2
<1>3. Len(bytes) \in Nat /\ Len(rest) \in Nat /\ Len(bytes) >= HeaderSize
  BY LenProperties DEF HasHeader
<1>4. \A i \in 1 .. Len(bytes) : i <= Len(f) => bytes[i] = f[i]
  <2>1. \A i \in 1 .. Len(bytes) : Join(bytes, rest)[i] = bytes[i]
    BY JoinProperties DEF Joined
  <2>2. \A i \in 1 .. Len(f) : Join(f, others)[i] = f[i]
    BY JoinProperties DEF Joined
  <2> QED
    BY <1>1, <1>2, <2>1, <2>2
<1>5. bytes[1] = f[1]
  BY <1>2, <1>3, <1>4
<1>6. Announced(bytes) = n
  BY <1>2, <1>5 DEF Announced
<1>7. ASSUME IsComplete(bytes)
      PROVE  /\ MessageOf(bytes) = IF n = 0 THEN <<>> ELSE m
             /\ Behind(bytes) \in Seq(B)
             /\ Join(Behind(bytes), rest) = others
  <2>1. Len(bytes) >= Len(f)
    BY <1>2, <1>6, <1>7 DEF IsComplete
  <2>2. n # 0 => bytes[HeaderSize + 1] = f[HeaderSize + 1]
    BY <1>2, <1>3, <1>4, <2>1
  <2>3. MessageOf(bytes) = IF n = 0 THEN <<>> ELSE m
    BY <1>2, <1>6, <2>2 DEF MessageOf
  <2>4. Behind(bytes) = SubSeq(bytes, Len(f) + 1, Len(bytes))
    BY <1>2, <1>6 DEF Behind
  <2>5. Len(f) <= Len(bytes) /\ Join(bytes, rest) = Join(f, others)
    BY <1>1, <1>2, <1>3, <2>1
  <2>6. /\ SubSeq(bytes, Len(f) + 1, Len(bytes)) \in Seq(B)
        /\ Join(SubSeq(bytes, Len(f) + 1, Len(bytes)), rest) = others
    BY <2>5, CutFront
  <2> QED
    BY <2>3, <2>4, <2>6
<1> QED
  BY <1>6, <1>7

\* Bytes with a header are not the beginning of no frame.
LEMMA FramesLeft ==
  ASSUME NEW B, NEW frames, NEW bytes \in Seq(B), NEW rest \in Seq(B),
         Join(bytes, rest) = FlattenSeq(frames), HasHeader(bytes)
  PROVE  frames # <<>>
<1> SUFFICES ASSUME frames = <<>> PROVE FALSE
  OBVIOUS
<1>1. Len(Join(bytes, rest)) = 0
  BY FlattenEmpty, EmptySeq
<1>2. Joined(Join(bytes, rest), bytes, rest)
  BY JoinProperties
<1>3. Len(bytes) \in Nat /\ Len(rest) \in Nat /\ Len(bytes) >= HeaderSize
  BY LenProperties DEF HasHeader
<1> QED
  BY <1>1, <1>2, <1>3, MessageAssumption DEF Joined

\* ParseFrame for several frames, the first one being that of m.
LEMMA ParseFirst ==
  ASSUME NEW B, NEW frames \in Seq(Seq(B)), NEW m, NEW n \in Nat,
         frames # <<>>, Head(frames) = Frame(m, n),
         NEW bytes \in Seq(B), NEW rest \in Seq(B),
         Join(bytes, rest) = FlattenSeq(frames), HasHeader(bytes)
  PROVE  /\ Announced(bytes) = n
         /\ IsComplete(bytes) => /\ MessageOf(bytes) = IF n = 0 THEN <<>> ELSE m
                                 /\ Behind(bytes) \in Seq(B)
                                 /\ Join(Behind(bytes), rest) = FlattenSeq(Tail(frames))
<1>2. Head(frames) \in Seq(B) /\ Tail(frames) \in Seq(Seq(B))
  BY HeadTailProperties
<1>3. FlattenSeq(Tail(frames)) \in Seq(B)
  BY <1>2, FlattenType
<1>4. FlattenSeq(frames) = Join(Frame(m, n), FlattenSeq(Tail(frames)))
  BY FlattenHead DEF Join
<1> QED
  BY <1>2, <1>3, <1>4, ParseFrame

-----------------------------------------------------------------------------
(* The frames of the commands a and the outputs d, without the first ones. *)

RequestFrame(l) == Frame(l, RequestSize[l])
RequestFrames(a, k) == [i \in 1 .. Len(a) - k |-> RequestFrame(a[k + i])]

Ran == [line : Lines, output : Outputs]

ReplyFrame(r) == Frame(r.output, AnswerSize[r.line, r.output])
ReplyFrames(d, k, n) == [i \in 1 .. n - k |-> ReplyFrame(d[k + i])]

\* Frames are sequences of Bytes.
LEMMA FrameType ==
  ASSUME NEW m \in Lines \cup Outputs, NEW n \in Nat
  PROVE  Frame(m, n) \in Seq(Bytes)
<1> DEFINE h == [j \in 1 .. HeaderSize |-> [size |-> n, part |-> j]]
           p == [j \in 1 .. n |-> [message |-> m, part |-> j]]
<1>1. HeaderSize \in Nat
  BY MessageAssumption
<1>2. h \in Seq(Bytes)
  BY <1>1 DEF Bytes
<1>3. p \in Seq(Bytes)
  BY DEF Bytes
<1>4. Frame(m, n) = Join(h, p)
  BY DEF Frame, Join
<1> HIDE DEF h, p
<1> QED
  BY <1>2, <1>3, <1>4, JoinProperties

\* The frames of requests and of replies are sequences of bytes.
LEMMA FramesTypes ==
  /\ \A l \in Lines : RequestFrame(l) \in Seq(Bytes)
  /\ \A r \in Ran : ReplyFrame(r) \in Seq(Bytes)
<1>1. ASSUME NEW l \in Lines PROVE RequestFrame(l) \in Seq(Bytes)
  BY LinesAssumption, FrameType DEF RequestFrame
<1>2. ASSUME NEW r \in Ran PROVE ReplyFrame(r) \in Seq(Bytes)
  BY AnswersAssumption, FrameType DEF ReplyFrame, Ran
<1> QED
  BY <1>1, <1>2

\* A function on 1 .. n is a sequence; its tail moves it by one.
LEMMA SequenceOf ==
  ASSUME NEW B, NEW n \in Nat, NEW f, f \in [1 .. n -> B]
  PROVE  /\ f \in Seq(B) /\ Len(f) = n
         /\ n # 0 => /\ f # <<>> /\ Head(f) = f[1]
                     /\ Tail(f) = [i \in 1 .. n - 1 |-> f[i + 1]]
<1>1. f \in Seq(B) /\ Len(f) = n
  OBVIOUS
<1>2. ASSUME n # 0
      PROVE  f # <<>> /\ Head(f) = f[1] /\ Tail(f) = [i \in 1 .. n - 1 |-> f[i + 1]]
  <2>1. f # <<>>
    BY <1>1, <1>2, EmptySeq
  <2>2. /\ Head(f) = f[1] /\ Tail(f) \in Seq(B) /\ Len(Tail(f)) = n - 1
        /\ \A i \in 1 .. n - 1 : Tail(f)[i] = f[i + 1]
    BY <1>1, <2>1, HeadTailProperties
  <2> DEFINE g == [i \in 1 .. n - 1 |-> f[i + 1]]
  <2>3. g \in Seq(B) /\ Len(g) = n - 1 /\ \A i \in 1 .. n - 1 : g[i] = f[i + 1]
    BY <1>2
  <2> HIDE DEF g
  <2>4. Tail(f) = g
    BY <2>2, <2>3, SeqEqual
  <2> QED
    BY <2>1, <2>2, <2>4 DEF g
<1> QED
  BY <1>1, <1>2

\* The frames of the requests behind the first k begin with that of the next one.
LEMMA RequestFramesFirst ==
  ASSUME NEW a \in Seq(Lines), NEW k \in Nat, k <= Len(a)
  PROVE  /\ RequestFrames(a, k) \in Seq(Seq(Bytes))
         /\ Len(RequestFrames(a, k)) = Len(a) - k
         /\ k < Len(a) => /\ RequestFrames(a, k) # <<>>
                          /\ Head(RequestFrames(a, k)) = RequestFrame(a[k + 1])
                          /\ Tail(RequestFrames(a, k)) = RequestFrames(a, k + 1)
<1> DEFINE n == Len(a) - k
           f == RequestFrames(a, k)
<1>1. Len(a) \in Nat /\ n \in Nat /\ \A i \in 1 .. n : a[k + i] \in Lines
  BY LenProperties, ElementOfSeq
<1>2. f \in [1 .. n -> Seq(Bytes)]
  BY <1>1, FramesTypes DEF RequestFrames
<1>3. /\ f \in Seq(Seq(Bytes)) /\ Len(f) = n
      /\ n # 0 => f # <<>> /\ Head(f) = f[1] /\ Tail(f) = [i \in 1 .. n - 1 |-> f[i + 1]]
  BY <1>1, <1>2, SequenceOf
<1>4. ASSUME k < Len(a)
      PROVE  f[1] = RequestFrame(a[k + 1]) /\ [i \in 1 .. n - 1 |-> f[i + 1]] = RequestFrames(a, k + 1)
  <2>1. n - 1 = Len(a) - (k + 1) /\ 1 \in 1 .. n
    BY <1>1, <1>4
  <2>2. ASSUME NEW i \in 1 .. n - 1 PROVE f[i + 1] = RequestFrame(a[(k + 1) + i])
    <3>1. i + 1 \in 1 .. n /\ k + (i + 1) = (k + 1) + i
      BY <1>1
    <3> QED
      BY <3>1 DEF RequestFrames
  <2> QED
    BY <2>1, <2>2 DEF RequestFrames
<1> QED
  BY <1>1, <1>3, <1>4

\* Likewise for the replies.
LEMMA ReplyFramesFirst ==
  ASSUME NEW d \in Seq(Ran), NEW k \in Nat, NEW m \in Nat, k <= m, m <= Len(d)
  PROVE  /\ ReplyFrames(d, k, m) \in Seq(Seq(Bytes))
         /\ Len(ReplyFrames(d, k, m)) = m - k
         /\ k < m => /\ ReplyFrames(d, k, m) # <<>>
                     /\ Head(ReplyFrames(d, k, m)) = ReplyFrame(d[k + 1])
                     /\ Tail(ReplyFrames(d, k, m)) = ReplyFrames(d, k + 1, m)
<1> DEFINE n == m - k
           f == ReplyFrames(d, k, m)
<1>1. Len(d) \in Nat /\ n \in Nat /\ \A i \in 1 .. n : d[k + i] \in Ran
  BY LenProperties, ElementOfSeq
<1>2. f \in [1 .. n -> Seq(Bytes)]
  BY <1>1, FramesTypes DEF ReplyFrames
<1>3. /\ f \in Seq(Seq(Bytes)) /\ Len(f) = n
      /\ n # 0 => f # <<>> /\ Head(f) = f[1] /\ Tail(f) = [i \in 1 .. n - 1 |-> f[i + 1]]
  BY <1>1, <1>2, SequenceOf
<1>4. ASSUME k < m
      PROVE  f[1] = ReplyFrame(d[k + 1]) /\ [i \in 1 .. n - 1 |-> f[i + 1]] = ReplyFrames(d, k + 1, m)
  <2>1. n - 1 = m - (k + 1) /\ 1 \in 1 .. n
    BY <1>1, <1>4
  <2>2. ASSUME NEW i \in 1 .. n - 1 PROVE f[i + 1] = ReplyFrame(d[(k + 1) + i])
    <3>1. i + 1 \in 1 .. n /\ k + (i + 1) = (k + 1) + i
      BY <1>1
    <3> QED
      BY <3>1 DEF ReplyFrames
  <2> QED
    BY <2>1, <2>2 DEF ReplyFrames
<1> QED
  BY <1>1, <1>3, <1>4

\* One more command, or one more output, is one more frame.
LEMMA RequestFramesAppend ==
  ASSUME NEW a \in Seq(Lines), NEW k \in Nat, k <= Len(a), NEW l \in Lines
  PROVE  RequestFrames(Append(a, l), k) = Append(RequestFrames(a, k), RequestFrame(l))
<1> DEFINE n == Len(a) - k
           b == Append(a, l)
           f == RequestFrames(a, k)
           g == RequestFrames(b, k)
<1>1. /\ n \in Nat /\ b \in Seq(Lines) /\ Len(b) = Len(a) + 1 /\ b[Len(a) + 1] = l
      /\ \A i \in 1 .. Len(a) : b[i] = a[i]
  BY AppendProperties, LenProperties
<1> HIDE DEF b
<1>2. f \in Seq(Seq(Bytes)) /\ Len(f) = n /\ g \in Seq(Seq(Bytes)) /\ Len(g) = n + 1
  <2>1. f \in Seq(Seq(Bytes)) /\ Len(f) = n
    BY LenProperties, RequestFramesFirst
  <2>2. k <= Len(a) + 1 /\ Len(a) + 1 \in Nat /\ Len(a) + 1 - k = n + 1
    BY LenProperties
  <2>3. k <= Len(b) /\ Len(b) - k = n + 1
    BY <1>1, <2>2
  <2>4. g \in Seq(Seq(Bytes)) /\ Len(g) = n + 1
    BY <1>1, <2>2, <2>3, RequestFramesFirst
  <2> QED
    BY <2>1, <2>4
<1>3. /\ Append(f, RequestFrame(l)) \in Seq(Seq(Bytes)) /\ Len(Append(f, RequestFrame(l))) = n + 1
      /\ Append(f, RequestFrame(l))[n + 1] = RequestFrame(l)
      /\ \A i \in 1 .. n : Append(f, RequestFrame(l))[i] = f[i]
  BY <1>2, FramesTypes, AppendProperties
<1>4. \A i \in 1 .. n : f[i] = RequestFrame(a[k + i])
  BY DEF RequestFrames
<1>5. \A i \in 1 .. n + 1 : g[i] = RequestFrame(b[k + i])
  BY <1>1, LenProperties DEF RequestFrames
<1>6. k + (n + 1) = Len(a) + 1 /\ \A i \in 1 .. n : k + i \in 1 .. Len(a)
  BY LenProperties
<1>7. \A i \in 1 .. n : b[k + i] = a[k + i]
  BY <1>1, <1>6
<1>8. g[n + 1] = RequestFrame(l)
  BY <1>1, <1>5, <1>6
<1> HIDE DEF f, g, n
<1>9. \A i \in 1 .. n + 1 : g[i] = Append(f, RequestFrame(l))[i]
  <2> TAKE i \in 1 .. n + 1
  <2>1. i \in 1 .. n \/ i = n + 1
    BY <1>1
  <2> QED
    BY <2>1, <1>3, <1>4, <1>5, <1>7, <1>8
<1>10. g = Append(f, RequestFrame(l))
  BY <1>2, <1>3, <1>9, SeqEqual
<1> QED
  BY <1>10 DEF f, g, b

\* When a command has run its output is the last reply.
LEMMA ReplyFramesAppend ==
  ASSUME NEW d \in Seq(Ran), NEW k \in Nat, k <= Len(d), NEW r \in Ran
  PROVE  /\ ReplyFrames(Append(d, r), k, Len(d)) = ReplyFrames(d, k, Len(d))
         /\ ReplyFrames(Append(d, r), k, Len(d) + 1) = Append(ReplyFrames(d, k, Len(d)), ReplyFrame(r))
<1> DEFINE n == Len(d) - k
           b == Append(d, r)
           f == ReplyFrames(d, k, Len(d))
           g == ReplyFrames(b, k, Len(d) + 1)
<1>1. /\ n \in Nat /\ b \in Seq(Ran) /\ Len(b) = Len(d) + 1 /\ b[Len(d) + 1] = r
      /\ \A i \in 1 .. Len(d) : b[i] = d[i]
  BY AppendProperties, LenProperties
<1> HIDE DEF b
<1>2. f \in Seq(Seq(Bytes)) /\ Len(f) = n /\ g \in Seq(Seq(Bytes)) /\ Len(g) = n + 1
  <2>0. Len(d) \in Nat /\ Len(d) <= Len(d)
    BY LenProperties
  <2>1. f \in Seq(Seq(Bytes)) /\ Len(f) = n
    BY <2>0, ReplyFramesFirst
  <2>2. k <= Len(d) + 1 /\ Len(d) + 1 \in Nat /\ Len(d) + 1 - k = n + 1
    BY LenProperties
  <2>3. k <= Len(b) /\ Len(b) - k = n + 1
    BY <1>1, <2>2
  <2>4. g \in Seq(Seq(Bytes)) /\ Len(g) = Len(d) + 1 - k
    <3>1. b \in Seq(Ran) /\ Len(d) + 1 <= Len(b)
      BY <1>1
    <3>2. PICK m \in Nat : m = Len(d) + 1
      BY <2>2
    <3>3. ReplyFrames(b, k, m) \in Seq(Seq(Bytes)) /\ Len(ReplyFrames(b, k, m)) = m - k
      BY <2>2, <3>1, <3>2, ReplyFramesFirst
    <3> QED
      BY <3>2, <3>3
  <2> QED
    BY <2>1, <2>4
<1>3. /\ Append(f, ReplyFrame(r)) \in Seq(Seq(Bytes)) /\ Len(Append(f, ReplyFrame(r))) = n + 1
      /\ Append(f, ReplyFrame(r))[n + 1] = ReplyFrame(r)
      /\ \A i \in 1 .. n : Append(f, ReplyFrame(r))[i] = f[i]
  BY <1>2, FramesTypes, AppendProperties
<1>4. \A i \in 1 .. n : f[i] = ReplyFrame(d[k + i])
  BY DEF ReplyFrames
<1>5. \A i \in 1 .. n + 1 : g[i] = ReplyFrame(b[k + i])
  BY <1>1, LenProperties DEF ReplyFrames
<1>6. k + (n + 1) = Len(d) + 1 /\ \A i \in 1 .. n : k + i \in 1 .. Len(d)
  BY LenProperties
<1>7. \A i \in 1 .. n : b[k + i] = d[k + i]
  BY <1>1, <1>6
<1>8. g[n + 1] = ReplyFrame(r)
  BY <1>1, <1>5, <1>6
<1>9. ReplyFrames(b, k, Len(d)) = f
  BY <1>7 DEF ReplyFrames
<1> HIDE DEF f, g, n
<1>10. \A i \in 1 .. n + 1 : g[i] = Append(f, ReplyFrame(r))[i]
  <2> TAKE i \in 1 .. n + 1
  <2>1. i \in 1 .. n \/ i = n + 1
    BY <1>1
  <2> QED
    BY <2>1, <1>3, <1>4, <1>5, <1>7, <1>8
<1>11. g = Append(f, ReplyFrame(r))
  BY <1>2, <1>3, <1>10, SeqEqual
<1> QED
  BY <1>9, <1>11 DEF f, g, b

-----------------------------------------------------------------------------
(* Commands.                                                               *)

Store == [Words -> Words \cup {NoValue}]

\* A command answers with an output and leaves a store, and has no output only
\* if it is exit.
LEMMA RunCommandResult ==
  ASSUME NEW l \in Lines, NEW s \in Store, NEW result, result = RunCommand(l, s)
  PROVE  /\ result.store \in Store /\ result.output \in Outputs
         /\ result.output = Nothing => result.stop
<1> DEFINE tokens == Tokens(l)
           name == Head(tokens)
           args == Tail(tokens)
<1>1. tokens \in Seq(Words)
  BY LinesAssumption
<1> HIDE DEF tokens
<1>2. CASE ~(tokens # <<>> /\ name \in Names /\ Len(args) <= MaxArgs /\ Len(args) = RequiredArgs(name))
  <2>1. result = Rejected(s)
    BY <1>2 DEF RunCommand, Parse, Command, tokens
  <2>2. result.output = Invalid /\ result.store = s
    BY <2>1 DEF Rejected, Result
  <2> QED
    BY <2>2, AnswersAssumption DEF Outputs
<1>3. CASE tokens # <<>> /\ name \in Names /\ Len(args) <= MaxArgs /\ Len(args) = RequiredArgs(name)
  <2>1. args \in Seq(Words)
    BY <1>1, <1>3, HeadTailProperties
  <2>2. result = Execute(name, args, s)
    BY <1>3 DEF RunCommand, Parse, Command, tokens
  <2> HIDE DEF name, args
  <2>3. CASE name \in {GetName, DelName}
    <3>1. RequiredArgs(name) = 1
      BY <2>3, NamesAreDifferent DEF RequiredArgs
    <3>2. args[1] \in Words
      BY <1>3, <2>1, <3>1, ElementOfSeq
    <3>3. s[args[1]] \in Words \cup {NoValue}
      BY <3>2 DEF Store
    <3>4. result = Result(FALSE, FALSE, s[args[1]], s) \/
          result = Result(FALSE, FALSE, IF s[args[1]] = NoValue THEN NoValue ELSE OK,
                          [s EXCEPT ![args[1]] = NoValue])
      BY <2>2, <2>3, NamesAreDifferent DEF Execute
    <3>5. /\ result.output \in Words \cup {NoValue, OK}
          /\ result.store \in {s, [s EXCEPT ![args[1]] = NoValue]}
      BY <3>3, <3>4 DEF Result
    <3>6. [s EXCEPT ![args[1]] = NoValue] \in Store
      BY <3>2 DEF Store
    <3>7. result.store \in Store
      BY <3>5, <3>6
    <3> QED
      BY <3>5, <3>7, AnswersAssumption DEF Outputs
  <2>4. CASE name = SetName
    <3>1. RequiredArgs(name) = 2
      BY <2>4, NamesAreDifferent DEF RequiredArgs
    <3>2. args[1] \in Words /\ args[2] \in Words
      <4>1. 1 \in 1 .. Len(args) /\ 2 \in 1 .. Len(args)
        BY <1>3, <3>1
      <4> QED
        BY <4>1, <2>1, ElementOfSeq
    <3>3. result = Result(FALSE, FALSE, OK, [s EXCEPT ![args[1]] = args[2]])
      BY <2>2, <2>4, NamesAreDifferent DEF Execute
    <3>4. result.output = OK /\ result.store = [s EXCEPT ![args[1]] = args[2]]
      BY <3>3 DEF Result
    <3>5. [s EXCEPT ![args[1]] = args[2]] \in Store
      BY <3>2 DEF Store
    <3> QED
      BY <3>4, <3>5, AnswersAssumption DEF Outputs
  <2>5. CASE name \in {ExitName, PingName, FlushName}
    <3>1. \/ result = Result(TRUE, FALSE, Nothing, s)
          \/ result = Result(FALSE, FALSE, Pong, s)
          \/ result = Result(FALSE, FALSE, OK, [w \in DOMAIN s |-> NoValue])
      BY <2>2, <2>5, NamesAreDifferent DEF Execute
    <3>2. /\ (result.stop /\ result.output = Nothing) \/ result.output \in {Pong, OK}
          /\ result.store \in {s, [w \in DOMAIN s |-> NoValue]}
      BY <3>1 DEF Result
    <3>3. [w \in DOMAIN s |-> NoValue] \in Store
      BY DEF Store
    <3>4. result.store \in Store
      BY <3>2, <3>3
    <3> QED
      BY <3>2, <3>4, AnswersAssumption DEF Outputs
  <2> QED
    BY <1>3, <2>3, <2>4, <2>5 DEF Names
<1> QED
  BY <1>2, <1>3

-----------------------------------------------------------------------------
(* The inductive invariant.                                                *)

\* Every variable has its type, and no socket holds more than it can.
Types ==
  /\ store \in Store
  /\ clients \in Seq(Clients) /\ backlog \in Seq(Clients)
  /\ reader \in [Clients -> Seq(Bytes)] /\ writer \in [Clients -> Seq(Bytes)]
  /\ up \in [Clients -> Seq(Bytes)] /\ down \in [Clients -> Seq(Bytes)]
  /\ out \in [Clients -> Seq(Bytes)] /\ heard \in [Clients -> Seq(Bytes)]
  /\ asked \in [Clients -> Seq(Lines)]
  /\ done \in [Clients -> Seq(Ran)]
  /\ answers \in [Clients -> Seq(Outputs)]
  /\ peer \in [Clients -> {"open", "fin", "rst"}]
  /\ served \in [Clients -> {"open", "fin", "rst"}]
  /\ \A c \in Clients : Len(up[c]) <= BufferSize /\ Len(down[c]) <= BufferSize

\* The clients that are connected and not hung up on are those that wait or
\* are served, each of them once.
Sessions ==
  /\ left \subseteq connected /\ connected \subseteq Clients
  /\ Len(clients) <= DescriptorLimit
  /\ IsInjective(clients) /\ IsInjective(backlog)
  /\ Range(clients) \cap Range(backlog) = {}
  /\ Range(clients) \cup Range(backlog) = {c \in connected : served[c] = "open"}
  /\ \A c \in Clients : /\ peer[c] = "open" <=> c \notin left
                        /\ c \notin connected => served[c] = "open"

\* What poll() told of a client holds until the client is handled.
EventsStand ==
  /\ polled # {} => running
  /\ \A d \in polled :
       /\ d.index \in 1 .. Len(clients) /\ clients[d.index] = d.fd
       /\ "ERR" \in d.events => peer[d.fd] = "rst"
       /\ "IN" \in d.events => writer[d.fd] = <<>>
       /\ \A e \in polled : d.index = e.index => d = e

\* Commands run after they are sent and are answered after they run; only the
\* last one of a session that is over has no output.
History ==
  \A c \in Clients :
    /\ Len(answers[c]) <= Len(done[c]) /\ Len(done[c]) <= Len(asked[c])
    /\ \A i \in 1 .. Len(asked[c]) : RequestSize[asked[c][i]] <= MaxMessage
    /\ \A i \in 1 .. Len(done[c]) :
         done[c][i].output = Nothing => i = Len(done[c]) /\ served[c] # "open"

\* The bytes that have gone out and not been used make up whole frames; if one
\* end has closed, as far as the other one has got them.
Streams ==
  \A c \in Clients :
    /\ ~IsComplete(reader[c]) /\ ~IsComplete(heard[c])
    /\ served[c] = "open" =>
         /\ IsPrefix(Received(c), FlattenSeq(Requests(c)))
         /\ c \notin left => /\ Received(c) \o out[c] = FlattenSeq(Requests(c))
                             /\ Heard(c) \o writer[c] = FlattenSeq(Replies(c, Len(done[c])))
    /\ served[c] # "open" /\ c \notin left =>
         /\ Len(answers[c]) < Len(done[c])
         /\ IsPrefix(Heard(c), FlattenSeq(Replies(c, Len(done[c]) - 1)))

Inv == Types /\ Sessions /\ EventsStand /\ History /\ Streams

-----------------------------------------------------------------------------
(* What the steps rely on.                                                 *)

\* The value of a client's sequence is one of its type.
LEMMA TypesOf ==
  ASSUME Types, NEW c \in Clients
  PROVE  /\ reader[c] \in Seq(Bytes) /\ writer[c] \in Seq(Bytes)
         /\ up[c] \in Seq(Bytes) /\ down[c] \in Seq(Bytes)
         /\ out[c] \in Seq(Bytes) /\ heard[c] \in Seq(Bytes)
         /\ asked[c] \in Seq(Lines) /\ done[c] \in Seq(Ran) /\ answers[c] \in Seq(Outputs)
         /\ Received(c) = Join(reader[c], up[c]) /\ Received(c) \in Seq(Bytes)
         /\ Heard(c) = Join(heard[c], down[c]) /\ Heard(c) \in Seq(Bytes)
<1>1. /\ reader[c] \in Seq(Bytes) /\ writer[c] \in Seq(Bytes)
      /\ up[c] \in Seq(Bytes) /\ down[c] \in Seq(Bytes)
      /\ out[c] \in Seq(Bytes) /\ heard[c] \in Seq(Bytes)
      /\ asked[c] \in Seq(Lines) /\ done[c] \in Seq(Ran) /\ answers[c] \in Seq(Outputs)
  BY DEF Types
<1>2. Received(c) = Join(reader[c], up[c]) /\ Heard(c) = Join(heard[c], down[c])
  BY DEF Received, Heard, Join
<1> QED
  BY <1>1, <1>2, JoinProperties

\* The bytes of the server's end begin with the next command, in full once
\* they are complete.  It is never too long.
LEMMA NextRequest ==
  ASSUME Inv, NEW c \in Clients, served[c] = "open", HasHeader(Received(c))
  PROVE  /\ Len(done[c]) < Len(asked[c])
         /\ asked[c][Len(done[c]) + 1] \in Lines
         /\ Announced(Received(c)) \in Nat
         /\ ~Oversize(Received(c))
         /\ IsComplete(Received(c)) =>
              LET behind == Behind(Received(c))
                  rest == FlattenSeq(RequestFrames(asked[c], Len(done[c]) + 1)) IN
              /\ MessageOf(Received(c)) = asked[c][Len(done[c]) + 1]
              /\ behind \in Seq(Bytes)
              /\ IsPrefix(behind, rest)
              /\ c \notin left => Join(behind, out[c]) = rest
<1> DEFINE l == asked[c][Len(done[c]) + 1]
           frames == RequestFrames(asked[c], Len(done[c]))
<1>1. /\ asked[c] \in Seq(Lines) /\ Len(done[c]) \in Nat /\ Len(asked[c]) \in Nat
      /\ Len(done[c]) <= Len(asked[c])
  BY TypesOf, LenProperties DEF Inv, History
<1>2. /\ frames \in Seq(Seq(Bytes))
      /\ Len(frames) = Len(asked[c]) - Len(done[c])
      /\ Len(done[c]) < Len(asked[c]) =>
           /\ Head(frames) = RequestFrame(l)
           /\ Tail(frames) = RequestFrames(asked[c], Len(done[c]) + 1)
  BY <1>1, RequestFramesFirst
<1>3. frames = Requests(c)
  BY DEF RequestFrames, RequestFrame, Requests
<1>4. FlattenSeq(frames) \in Seq(Bytes)
  BY <1>2, FlattenType
<1>5. Received(c) \in Seq(Bytes) /\ out[c] \in Seq(Bytes)
  BY TypesOf DEF Inv
<1>6. PICK rest \in Seq(Bytes) : Join(Received(c), rest) = FlattenSeq(frames)
  <2>1. IsPrefix(Received(c), FlattenSeq(frames))
    BY <1>3 DEF Inv, Streams
  <2> QED
    BY <2>1, <1>4, <1>5, RestOfPrefix
<1>7. c \notin left => Join(Received(c), out[c]) = FlattenSeq(frames)
  BY <1>3 DEF Inv, Streams, Join
<1>8. frames # <<>>
  BY <1>5, <1>6, FramesLeft
<1>9. Len(done[c]) < Len(asked[c])
  <2>1. Len(frames) # 0
    BY <1>2, <1>8, EmptySeq
  <2> QED
    BY <2>1, <1>1, <1>2
<1>10. /\ l \in Lines /\ RequestSize[l] \in Nat /\ RequestSize[l] <= MaxMessage
       /\ RequestSize[l] = 0 => l = <<>>
  <2>1. Len(done[c]) + 1 \in 1 .. Len(asked[c])
    BY <1>1, <1>9
  <2>2. l \in Lines
    BY <1>1, <2>1, ElementOfSeq
  <2>3. RequestSize[l] <= MaxMessage
    BY <2>1 DEF Inv, History
  <2> QED
    BY <2>2, <2>3, LinesAssumption
<1> DEFINE behind == Behind(Received(c))
           others == FlattenSeq(RequestFrames(asked[c], Len(done[c]) + 1))
<1> HIDE DEF frames, l, others
<1>11. Head(frames) = Frame(l, RequestSize[l]) /\ FlattenSeq(Tail(frames)) = others
  BY <1>2, <1>9 DEF RequestFrame, l, others
<1>12. /\ Announced(Received(c)) = RequestSize[l]
       /\ IsComplete(Received(c)) =>
            /\ MessageOf(Received(c)) = IF RequestSize[l] = 0 THEN <<>> ELSE l
            /\ behind \in Seq(Bytes)
            /\ Join(behind, rest) = others
  BY <1>2, <1>5, <1>6, <1>8, <1>10, <1>11, ParseFirst
<1>13. ~Oversize(Received(c))
  BY <1>10, <1>12, MessageAssumption DEF Oversize
<1>14. ASSUME IsComplete(Received(c))
       PROVE  /\ MessageOf(Received(c)) = l /\ behind \in Seq(Bytes)
              /\ IsPrefix(behind, others)
              /\ c \notin left => Join(behind, out[c]) = others
  <2>1. IsPrefix(behind, others)
    BY <1>12, <1>14, PrefixOfJoin
  <2>2. ASSUME c \notin left PROVE Join(behind, out[c]) = others
    <3>1. Join(Received(c), out[c]) = FlattenSeq(frames)
      BY <1>7, <2>2
    <3> QED
      BY <3>1, <1>2, <1>5, <1>8, <1>10, <1>11, <1>14, ParseFirst
  <2> QED
    BY <1>10, <1>12, <1>14, <2>1, <2>2
<1> QED
  BY <1>9, <1>10, <1>12, <1>13, <1>14 DEF l, others

\* The bytes of the client's end begin with the output of the next command that
\* has run, and only if the server has sent it.
LEMMA NextReply ==
  ASSUME Inv, NEW c \in Clients, NEW n \in Nat, n <= Len(done[c]), Len(answers[c]) <= n,
         \A i \in 1 .. n : done[c][i].output # Nothing,
         NEW rest \in Seq(Bytes),
         Join(Heard(c), rest) = FlattenSeq(Replies(c, n)), HasHeader(Heard(c))
  PROVE  /\ Len(answers[c]) < n
         /\ Announced(Heard(c)) \in Nat
         /\ IsComplete(Heard(c)) =>
              /\ MessageOf(Heard(c)) = done[c][Len(answers[c]) + 1].output
              /\ MessageOf(Heard(c)) \in Outputs
              /\ Behind(Heard(c)) \in Seq(Bytes)
              /\ Join(Behind(Heard(c)), rest) =
                   FlattenSeq(ReplyFrames(done[c], Len(answers[c]) + 1, n))
<1> DEFINE k == Len(answers[c])
           r == done[c][k + 1]
           frames == ReplyFrames(done[c], k, n)
           others == FlattenSeq(ReplyFrames(done[c], k + 1, n))
<1>1. done[c] \in Seq(Ran) /\ Len(done[c]) \in Nat /\ k \in Nat
  BY TypesOf, LenProperties DEF Inv
<1>2. /\ frames \in Seq(Seq(Bytes)) /\ Len(frames) = n - k
      /\ k < n => Head(frames) = ReplyFrame(r) /\ Tail(frames) = ReplyFrames(done[c], k + 1, n)
  BY <1>1, ReplyFramesFirst
<1>3. frames = Replies(c, n)
  BY DEF ReplyFrames, ReplyFrame, Replies
<1>4. Heard(c) \in Seq(Bytes)
  BY TypesOf DEF Inv
<1>5. frames # <<>>
  BY <1>3, <1>4, FramesLeft
<1>6. k < n
  <2>1. Len(frames) # 0
    BY <1>2, <1>5, EmptySeq
  <2> QED
    BY <2>1, <1>1, <1>2
<1> DEFINE size == AnswerSize[r.line, r.output]
<1>7. r.output \in Outputs /\ size \in Nat /\ size # 0
  <2>1. k + 1 \in 1 .. Len(done[c]) /\ k + 1 \in 1 .. n
    BY <1>1, <1>6
  <2>2. r \in Ran
    BY <1>1, <2>1, ElementOfSeq
  <2>3. r.output # Nothing
    BY <2>1
  <2>4. r.line \in Lines /\ r.output \in Outputs
    BY <2>2 DEF Ran
  <2> QED
    BY <2>3, <2>4, AnswersAssumption
<1> HIDE DEF frames, r, others, size
<1>8. Head(frames) = Frame(r.output, size) /\ FlattenSeq(Tail(frames)) = others
  BY <1>2, <1>6 DEF ReplyFrame, others, size
<1>9. Join(Heard(c), rest) = FlattenSeq(frames)
  BY <1>3
<1>10. /\ Announced(Heard(c)) = size
       /\ IsComplete(Heard(c)) => /\ MessageOf(Heard(c)) = IF size = 0 THEN <<>> ELSE r.output
                                  /\ Behind(Heard(c)) \in Seq(Bytes)
                                  /\ Join(Behind(Heard(c)), rest) = others
  BY <1>2, <1>4, <1>5, <1>7, <1>8, <1>9, ParseFirst
<1> QED
  BY <1>6, <1>7, <1>10 DEF r, others

\* What is left behind a message fits where it has come from, since the bytes
\* that were there before did not make it complete.
LEMMA BehindFits ==
  ASSUME NEW B, NEW s \in Seq(B), NEW t \in Seq(B), NEW x, x = Join(s, t),
         ~IsComplete(s), IsComplete(x), Announced(x) \in Nat,
         Behind(x) \in Seq(B)
  PROVE  Len(Behind(x)) <= Len(t)
<1>1. x \in Seq(B) /\ Joined(x, s, t)
  BY JoinProperties
<1>2. Len(s) \in Nat /\ Len(t) \in Nat /\ Len(x) = Len(s) + Len(t)
  BY <1>1, LenProperties DEF Joined
<1>3. HeaderSize \in Nat \ {0} /\ Len(x) >= HeaderSize + Announced(x)
  BY MessageAssumption DEF IsComplete
<1>4. Len(s) < HeaderSize + Announced(x)
  <2>1. CASE Len(s) >= HeaderSize
    <3>1. 1 \in 1 .. Len(s)
      BY <2>1, <1>2, <1>3
    <3>2. Announced(x) = Announced(s)
      BY <3>1, <1>1 DEF Announced, Joined
    <3> QED
      BY <2>1, <3>2, <1>2, <1>3 DEF IsComplete, HasHeader
  <2>2. CASE ~(Len(s) >= HeaderSize)
    BY <2>2, <1>2, <1>3
  <2> QED
    BY <2>1, <2>2
<1>5. Len(Behind(x)) = Len(x) - (HeaderSize + Announced(x))
  <2> DEFINE n == HeaderSize + Announced(x)
  <2>1. n \in Nat /\ n <= Len(x)
    BY <1>3
  <2> HIDE DEF n
  <2>2. Len(SubSeq(x, n + 1, Len(x))) = Len(x) - n
    BY <1>1, <2>1, SplitJoin
  <2> QED
    BY <2>2 DEF n, Behind
<1>6. Len(x) - (HeaderSize + Announced(x)) <= Len(t)
  BY <1>2, <1>3, <1>4
<1> QED
  BY <1>5, <1>6

\* There is no message without bytes.
LEMMA NothingIsIncomplete == ~IsComplete(<<>>)
BY MessageAssumption, EmptySeq DEF IsComplete, HasHeader

\* A client that is handled is being served, what was polled of it holds, and
\* those that are still to be handled are others, in front of it.
LEMMA Handled ==
  ASSUME Inv, NEW c \in Clients, NEW i \in 1 .. Len(clients), NEW event, Handling(c, i, event)
  PROVE  /\ clients[i] = c /\ running
         /\ c \in connected /\ c \in Range(clients) /\ served[c] = "open"
         /\ event = "ERR" => c \in left
         /\ event = "IN" => writer[c] = <<>>
         /\ polled' \subseteq polled
         /\ \A d \in polled' : d.index < i /\ d.fd # c
<1>1. PICK d \in polled : Visit(d) /\ i = d.index /\ event \in d.events /\ polled' = polled \ {d}
  BY DEF Handling
<1>2. clients[i] = c /\ running
  BY DEF Handling
<1>3. d.fd = c /\ (event = "ERR" => peer[c] = "rst") /\ (event = "IN" => writer[c] = <<>>)
  BY <1>1, <1>2 DEF Inv, EventsStand
<1>4. clients \in Seq(Clients)
  BY DEF Inv, Types
<1>5. c \in Range(clients)
  BY <1>2, <1>4, LenProperties DEF Range
<1>6. c \in connected /\ served[c] = "open"
  BY <1>5 DEF Inv, Sessions
<1>7. event = "ERR" => c \in left
  BY <1>3 DEF Inv, Sessions
<1>8. ASSUME NEW e \in polled' PROVE e.index < i /\ e.fd # c
  <2>1. e \in polled /\ e # d
    BY <1>1
  <2>2. e.index # i /\ e.index <= i
    BY <1>1, <2>1 DEF Inv, EventsStand, Visit
  <2>3. e.index \in 1 .. Len(clients) /\ clients[e.index] = e.fd
    BY <2>1 DEF Inv, EventsStand
  <2>4. e.index < i
    BY <2>2, <2>3, <1>4, LenProperties
  <2>5. e.index \in DOMAIN clients /\ i \in DOMAIN clients
    BY <2>3, <1>4, LenProperties
  <2>6. e.fd # c
    BY <1>2, <2>2, <2>3, <2>5 DEF Inv, Sessions, IsInjective
  <2> QED
    BY <2>4, <2>6
<1> QED
  BY <1>1, <1>2, <1>3, <1>5, <1>6, <1>7, <1>8

\* Erasing a client leaves the others, and those in front of it in their place.
LEMMA Erased ==
  ASSUME NEW q \in Seq(Clients), IsInjective(q), NEW i \in 1 .. Len(q), NEW r, r = RemoveAt(q, i)
  PROVE  /\ r \in Seq(Clients) /\ Len(r) = Len(q) - 1 /\ IsInjective(r)
         /\ Range(r) = Range(q) \ {q[i]}
         /\ \A j \in 1 .. i - 1 : j \in 1 .. Len(r) /\ r[j] = q[j]
<1>1. /\ r \in Seq(Clients) /\ Len(r) = Len(q) - 1
      /\ \A j \in 1 .. Len(r) : j < i => r[j] = q[j]
      /\ \A j \in 1 .. Len(r) : ~(j < i) => r[j] = q[j + 1]
  BY RemoveAtProperties
<1>2. Len(q) \in Nat /\ DOMAIN q = 1 .. Len(q) /\ Len(r) \in Nat /\ DOMAIN r = 1 .. Len(r)
  BY <1>1, LenProperties
<1> DEFINE p(j) == IF j < i THEN j ELSE j + 1
<1>3. \A j \in 1 .. Len(r) : p(j) \in 1 .. Len(q) /\ p(j) # i /\ r[j] = q[p(j)]
  BY <1>1, <1>2
<1>4. \A j, k \in 1 .. Len(r) : p(j) = p(k) => j = k
  BY <1>2
<1>5. \A k \in 1 .. Len(q) : k # i => \E j \in 1 .. Len(r) : p(j) = k
  <2> TAKE k \in 1 .. Len(q)
  <2>1. CASE k < i
    <3>1. k \in 1 .. Len(r) /\ p(k) = k
      BY <2>1, <1>1, <1>2
    <3> QED
      BY <3>1
  <2>2. CASE k > i
    <3>1. k - 1 \in 1 .. Len(r) /\ p(k - 1) = k
      BY <2>2, <1>1, <1>2
    <3> QED
      BY <3>1
  <2> QED
    BY <2>1, <2>2, <1>2
<1>6. \A j \in 1 .. i - 1 : j \in 1 .. Len(r) /\ r[j] = q[j]
  BY <1>1, <1>2
<1> HIDE DEF p
<1>7. IsInjective(r)
  BY <1>2, <1>3, <1>4 DEF IsInjective
<1>8. ASSUME NEW x PROVE x \in Range(r) <=> x \in Range(q) /\ x # q[i]
  <2>1. ASSUME x \in Range(r) PROVE x \in Range(q) /\ x # q[i]
    <3>1. PICK j \in 1 .. Len(r) : x = r[j]
      BY <1>2, <2>1 DEF Range
    <3> QED
      BY <3>1, <1>2, <1>3 DEF Range, IsInjective
  <2>2. ASSUME x \in Range(q), x # q[i] PROVE x \in Range(r)
    <3>1. PICK k \in 1 .. Len(q) : x = q[k] /\ k # i
      BY <1>2, <2>2 DEF Range
    <3>2. PICK j \in 1 .. Len(r) : p(j) = k
      BY <3>1, <1>5
    <3> QED
      BY <3>1, <3>2, <1>2, <1>3 DEF Range
  <2> QED
    BY <2>1, <2>2
<1> QED
  BY <1>1, <1>6, <1>7, <1>8

\* The command that runs is the next one that was sent.  It is answered, or the
\* session ends; all the server has read is the message and what it was in.
RunsCommand(c, i, l, result, behind) ==
  /\ l = asked[c][Len(done[c]) + 1] /\ l \in Lines /\ Len(done[c]) < Len(asked[c])
  /\ result = RunCommand(l, store)
  /\ writer[c] = <<>> /\ served[c] = "open"
  /\ store' = result.store /\ result.store \in Store
  /\ result.output \in Outputs /\ (result.output = Nothing => result.stop)
  /\ done' = [done EXCEPT ![c] = Append(@, [line |-> l, output |-> result.output])]
  /\ behind \in Seq(Bytes) /\ Len(behind) <= Len(up[c])
  /\ LET rest == FlattenSeq(RequestFrames(asked[c], Len(done[c]) + 1)) IN
       IsPrefix(behind, rest) /\ (c \notin left => Join(behind, out[c]) = rest)
  /\ \/ /\ result.stop \/ AnswerSize[l, result.output] > MaxMessage
        /\ HandleDrop(c, i)
        /\ Hangup(c, behind)
     \/ /\ ~(result.stop \/ AnswerSize[l, result.output] > MaxMessage)
        /\ reader' = [reader EXCEPT ![c] = <<>>]
        /\ writer' = [writer EXCEPT ![c] = ReplyFrame([line |-> l, output |-> result.output])]
        /\ up' = [up EXCEPT ![c] = behind]
        /\ UNCHANGED <<clients, down, peer, served>>

\* Reading a command does this.
LEMMA CommandRuns ==
  ASSUME Inv, NEW c \in Clients, NEW i \in 1 .. Len(clients), ReadCommand(c, i)
  PROVE  \E l, result, behind : RunsCommand(c, i, l, result, behind)
<1>0. PICK l, bytes, result, behind :
        /\ l = asked[c][Len(done[c]) + 1] /\ bytes = Received(c)
        /\ result = RunCommand(l, store) /\ behind = Behind(bytes)
  OBVIOUS
<1>1. Handling(c, i, "IN") /\ IsComplete(bytes) /\ ~Oversize(bytes)
  BY <1>0 DEF ReadCommand
<1>2. writer[c] = <<>> /\ served[c] = "open"
  BY <1>1, Handled
<1>3. HasHeader(bytes)
  BY <1>1 DEF IsComplete
<1> DEFINE rest == FlattenSeq(RequestFrames(asked[c], Len(done[c]) + 1))
<1>4. /\ Len(done[c]) < Len(asked[c]) /\ l \in Lines
      /\ Announced(bytes) \in Nat
      /\ MessageOf(bytes) = l /\ behind \in Seq(Bytes)
      /\ IsPrefix(behind, rest)
      /\ c \notin left => Join(behind, out[c]) = rest
  BY <1>0, <1>1, <1>2, <1>3, NextRequest
<1> HIDE DEF rest
<1>5. Len(behind) <= Len(up[c])
  <2>1. reader[c] \in Seq(Bytes) /\ up[c] \in Seq(Bytes) /\ bytes = Join(reader[c], up[c])
    BY <1>0, TypesOf DEF Inv
  <2>2. ~IsComplete(reader[c])
    BY DEF Inv, Streams
  <2> QED
    BY <1>0, <1>1, <1>4, <2>1, <2>2, BehindFits
<1>6. /\ result.store \in Store /\ result.output \in Outputs
      /\ result.output = Nothing => result.stop
  <2>1. store \in Store
    BY DEF Inv, Types
  <2> QED
    BY <1>0, <1>4, <2>1, RunCommandResult
<1>7. /\ store' = result.store
      /\ done' = [done EXCEPT ![c] = Append(@, [line |-> l, output |-> result.output])]
      /\ IF result.stop \/ HasPending(c) \/ AnswerSize[l, result.output] > MaxMessage
           THEN HandleDrop(c, i) /\ Hangup(c, Behind(bytes))
           ELSE /\ reader' = [reader EXCEPT ![c] = <<>>]
                /\ writer' = [writer EXCEPT ![c] = Frame(result.output, AnswerSize[l, result.output])]
                /\ up' = [up EXCEPT ![c] = Behind(bytes)]
                /\ UNCHANGED <<clients, down, peer, served>>
  BY <1>0, <1>4 DEF ReadCommand
<1>8. ~HasPending(c)
  BY <1>2 DEF HasPending
<1>9. Frame(result.output, AnswerSize[l, result.output]) = ReplyFrame([line |-> l, output |-> result.output])
  BY DEF ReplyFrame
<1>10. \/ /\ result.stop \/ AnswerSize[l, result.output] > MaxMessage
          /\ HandleDrop(c, i)
          /\ Hangup(c, behind)
       \/ /\ ~(result.stop \/ AnswerSize[l, result.output] > MaxMessage)
          /\ reader' = [reader EXCEPT ![c] = <<>>]
          /\ writer' = [writer EXCEPT ![c] = ReplyFrame([line |-> l, output |-> result.output])]
          /\ up' = [up EXCEPT ![c] = behind]
          /\ UNCHANGED <<clients, down, peer, served>>
  BY <1>0, <1>7, <1>8, <1>9
<1>11. RunsCommand(c, i, l, result, behind)
  BY <1>0, <1>2, <1>4, <1>5, <1>6, <1>7, <1>10 DEF rest, RunsCommand
<1> QED
  BY <1>11

\* What the client receives is the output of the next command.  The last one
\* of a session that the server has ended is not among them.
LEMMA AnswerComes ==
  ASSUME Inv, NEW c \in Clients, c \notin left, IsComplete(Heard(c))
  PROVE  \E n \in Nat, rest \in Seq(Bytes) :
           /\ n <= Len(done[c]) /\ Len(answers[c]) < n
           /\ IF served[c] = "open" THEN n = Len(done[c]) /\ rest = writer[c] ELSE n = Len(done[c]) - 1
           /\ MessageOf(Heard(c)) = done[c][Len(answers[c]) + 1].output
           /\ MessageOf(Heard(c)) \in Outputs
           /\ Behind(Heard(c)) \in Seq(Bytes) /\ Len(Behind(Heard(c))) <= Len(down[c])
           /\ Join(Behind(Heard(c)), rest) = FlattenSeq(ReplyFrames(done[c], Len(answers[c]) + 1, n))
<1>1. /\ Len(answers[c]) \in Nat /\ Len(done[c]) \in Nat /\ Len(answers[c]) <= Len(done[c])
      /\ Heard(c) \in Seq(Bytes) /\ writer[c] \in Seq(Bytes) /\ down[c] \in Seq(Bytes)
      /\ heard[c] \in Seq(Bytes) /\ Heard(c) = Join(heard[c], down[c])
  BY TypesOf, LenProperties DEF Inv, History
<1>2. HasHeader(Heard(c))
  BY DEF IsComplete
<1>3. \E n \in Nat, rest \in Seq(Bytes) :
        /\ n <= Len(done[c]) /\ Len(answers[c]) <= n
        /\ IF served[c] = "open" THEN n = Len(done[c]) /\ rest = writer[c] ELSE n = Len(done[c]) - 1
        /\ Join(Heard(c), rest) = FlattenSeq(Replies(c, n))
  <2>1. CASE served[c] = "open"
    <3>1. Join(Heard(c), writer[c]) = FlattenSeq(Replies(c, Len(done[c])))
      BY <2>1 DEF Inv, Streams, Join
    <3> QED
      BY <2>1, <3>1, <1>1
  <2>2. CASE served[c] # "open"
    <3>1. Len(answers[c]) < Len(done[c]) /\ IsPrefix(Heard(c), FlattenSeq(Replies(c, Len(done[c]) - 1)))
      BY <2>2 DEF Inv, Streams
    <3>2. PICK n \in Nat : n = Len(done[c]) - 1 /\ Len(answers[c]) <= n /\ n <= Len(done[c])
      <4>1. /\ Len(done[c]) - 1 \in Nat
            /\ Len(answers[c]) <= Len(done[c]) - 1 /\ Len(done[c]) - 1 <= Len(done[c])
        BY <3>1, <1>1
      <4> QED
        BY <4>1
    <3>3. Replies(c, n) = ReplyFrames(done[c], Len(answers[c]), n)
      BY DEF Replies, ReplyFrames, ReplyFrame
    <3>4. Replies(c, n) \in Seq(Seq(Bytes))
      <4>1. done[c] \in Seq(Ran)
        BY TypesOf DEF Inv
      <4>2. ReplyFrames(done[c], Len(answers[c]), n) \in Seq(Seq(Bytes))
        BY <1>1, <3>2, <4>1, ReplyFramesFirst
      <4> QED
        BY <3>3, <4>2
    <3>5. FlattenSeq(Replies(c, n)) \in Seq(Bytes)
      BY <3>4, FlattenType
    <3>6. PICK rest \in Seq(Bytes) : Join(Heard(c), rest) = FlattenSeq(Replies(c, n))
      BY <1>1, <3>1, <3>2, <3>5, RestOfPrefix
    <3> QED
      BY <2>2, <3>2, <3>6
  <2> QED
    BY <2>1, <2>2
<1>4. PICK n \in Nat, rest \in Seq(Bytes) :
        /\ n <= Len(done[c]) /\ Len(answers[c]) <= n
        /\ IF served[c] = "open" THEN n = Len(done[c]) /\ rest = writer[c] ELSE n = Len(done[c]) - 1
        /\ Join(Heard(c), rest) = FlattenSeq(Replies(c, n))
  BY <1>3
<1>5. ASSUME NEW i \in 1 .. n PROVE done[c][i].output # Nothing
  <2>1. i \in 1 .. Len(done[c]) /\ (served[c] # "open" => i # Len(done[c]))
    BY <1>1, <1>4
  <2> QED
    BY <2>1 DEF Inv, History
<1>6. /\ Len(answers[c]) < n /\ Announced(Heard(c)) \in Nat
      /\ MessageOf(Heard(c)) = done[c][Len(answers[c]) + 1].output
      /\ MessageOf(Heard(c)) \in Outputs
      /\ Behind(Heard(c)) \in Seq(Bytes)
      /\ Join(Behind(Heard(c)), rest) = FlattenSeq(ReplyFrames(done[c], Len(answers[c]) + 1, n))
  BY <1>2, <1>4, <1>5, NextReply
<1>7. Len(Behind(Heard(c))) <= Len(down[c])
  <2>1. ~IsComplete(heard[c])
    BY DEF Inv, Streams
  <2> QED
    BY <1>1, <1>6, <2>1, BehindFits
<1> QED
  BY <1>4, <1>6, <1>7

-----------------------------------------------------------------------------
(* The steps, the ways to end a session put together.                      *)

\* The server ends a session that the client has left.
GivesUp(c, i) ==
  /\ \E event : Handling(c, i, event)
  /\ HandleDrop(c, i)
  /\ \E unread : Hangup(c, unread)
  /\ UNCHANGED <<store, done>>

\* Errors end only sessions whose client has left: no message is too long.
LEMMA OnlyLeftGivenUp ==
  ASSUME Inv, NEW c \in Clients, NEW i \in 1 .. Len(clients),
         HandleError(c, i) \/ ReadFails(c, i) \/ WriteFails(c, i)
  PROVE  c \in left /\ GivesUp(c, i)
<1>1. CASE HandleError(c, i)
  BY <1>1, Handled DEF HandleError, GivesUp
<1>2. CASE ReadFails(c, i)
  <2>1. GivesUp(c, i) /\ served[c] = "open"
    BY <1>2, Handled DEF ReadFails, GivesUp
  <2>2. ~Oversize(Received(c))
    BY <2>1, NextRequest DEF Oversize
  <2>3. peer[c] # "open"
    BY <1>2, <2>2 DEF ReadFails
  <2> QED
    BY <2>1, <2>3 DEF Inv, Sessions
<1>3. CASE WriteFails(c, i)
  <2>1. GivesUp(c, i) /\ peer[c] = "rst"
    BY <1>3 DEF WriteFails, GivesUp
  <2> QED
    BY <2>1 DEF Inv, Sessions
<1> QED
  BY <1>1, <1>2, <1>3

\* Everything that may happen.
LEMMA Steps ==
  ASSUME Inv, [Next]_vars
  PROVE  \/ UNCHANGED vars
         \/ /\ UNCHANGED clientVars
            /\ \/ Poll
               \/ AcceptClients
               \/ \E c \in Clients, i \in 1 .. Len(clients) :
                    \/ c \in left /\ GivesUp(c, i)
                    \/ ReadIncomplete(c, i)
                    \/ ReadCommand(c, i)
                    \/ WriteAnswer(c, i)
         \/ \E c \in Clients : \/ Connect(c)
                               \/ \E l \in Lines : Ask(c, l)
                               \/ Send(c)
                               \/ Receive(c)
                               \/ c \in connected \ left /\ CloseSocket(c)
                               \/ Reset(c)
BY OnlyLeftGivenUp DEF Next, ServerStep, ServerNext, HandleClient, Leave, Fail, Active

-----------------------------------------------------------------------------
(* Every step keeps each part of the invariant.                            *)

\* No step stores a value of another type, or more than fits.
LEMMA TypesStep ==
  ASSUME Inv, [Next]_vars
  PROVE  Types'
<1>0. Types /\ BufferSize \in Nat
  BY BufferAssumption DEF Inv
<1>1. CASE UNCHANGED vars
  BY <1>0, <1>1 DEF vars, serverVars, connectionVars, clientVars, Types
<1>2. CASE UNCHANGED clientVars /\ Poll
  BY <1>0, <1>2 DEF clientVars, connectionVars, Poll, Types
<1>3. CASE UNCHANGED clientVars /\ AcceptClients
  <2> DEFINE free == DescriptorLimit - Len(clients)
             n == IF Len(backlog) < free THEN Len(backlog) ELSE free
  <2>1. clients \in Seq(Clients) /\ backlog \in Seq(Clients) /\ Len(clients) \in Nat /\ Len(backlog) \in Nat
    BY <1>0, LenProperties DEF Types
  <2>2. n \in Nat /\ n <= Len(backlog)
    BY <2>1, BufferAssumption DEF Inv, Sessions
  <2>3. \/ clients' = clients \o SubSeq(backlog, 1, n) /\ backlog' = SubSeq(backlog, n + 1, Len(backlog))
        \/ clients' = clients /\ backlog' = backlog
    BY <1>3 DEF AcceptClients
  <2> HIDE DEF n
  <2>4. SubSeq(backlog, 1, n) \in Seq(Clients) /\ SubSeq(backlog, n + 1, Len(backlog)) \in Seq(Clients)
    BY <2>1, <2>2, SplitJoin
  <2>5. clients' \in Seq(Clients) /\ backlog' \in Seq(Clients)
    BY <2>1, <2>3, <2>4, ConcatProperties
  <2>6. UNCHANGED <<store, reader, writer, done, up, down, peer, served, out, heard, asked, answers>>
    BY <1>3 DEF AcceptClients, connectionVars, clientVars
  <2> QED
    BY <1>0, <2>5, <2>6 DEF Types
<1>4. ASSUME NEW c \in Clients, NEW i \in 1 .. Len(clients), GivesUp(c, i), UNCHANGED clientVars
      PROVE  Types'
  <2>1. clients[i] = c /\ backlog' = backlog
    BY <1>4, Handled DEF GivesUp, Handling
  <2>2. clients' \in Seq(Clients)
    <3>1. clients \in Seq(Clients) /\ clients' = RemoveAt(clients, i)
      BY <1>0, <1>4 DEF Types, GivesUp, HandleDrop, RemoveAt
    <3> QED
      BY <3>1, RemoveAtProperties
  <2>3. /\ reader' = [reader EXCEPT ![c] = <<>>] /\ writer' = [writer EXCEPT ![c] = <<>>]
        /\ up' = [up EXCEPT ![c] = <<>>]
        /\ served' \in [Clients -> {"open", "fin", "rst"}]
        /\ UNCHANGED <<store, done, down, peer, out, heard, asked, answers>>
    BY <1>0, <1>4 DEF GivesUp, HandleDrop, Hangup, Types, clientVars
  <2>4. <<>> \in Seq(Bytes) /\ Len(<<>>) = 0
    BY EmptySeq
  <2>5. \A b \in Clients : Len(up'[b]) <= BufferSize
    BY <1>0, <2>3, <2>4 DEF Types
  <2> QED
    BY <1>0, <2>1, <2>2, <2>3, <2>4, <2>5 DEF Types
<1>5. ASSUME NEW c \in Clients, NEW i \in 1 .. Len(clients), ReadIncomplete(c, i), UNCHANGED clientVars
      PROVE  Types'
  <2>1. /\ reader' = [reader EXCEPT ![c] = Received(c)] /\ up' = [up EXCEPT ![c] = <<>>]
        /\ UNCHANGED <<store, clients, backlog, writer, done, down, peer, served, out, heard, asked, answers>>
    BY <1>5 DEF ReadIncomplete, Handling, clientVars
  <2>2. <<>> \in Seq(Bytes) /\ Len(<<>>) = 0 /\ Received(c) \in Seq(Bytes)
    BY <1>0, EmptySeq, TypesOf
  <2>3. \A b \in Clients : Len(up'[b]) <= BufferSize
    BY <1>0, <2>1, <2>2 DEF Types
  <2> QED
    BY <1>0, <2>1, <2>2, <2>3 DEF Types
<1>6. ASSUME NEW c \in Clients, NEW i \in 1 .. Len(clients), ReadCommand(c, i), UNCHANGED clientVars
      PROVE  Types'
  <2>0. PICK l, result, behind : RunsCommand(c, i, l, result, behind)
    BY <1>6, CommandRuns
  <2> DEFINE r == [line |-> l, output |-> result.output]
  <2>1. /\ l \in Lines /\ store' \in Store /\ result.output \in Outputs
        /\ done' = [done EXCEPT ![c] = Append(@, r)]
        /\ behind \in Seq(Bytes) /\ Len(behind) <= Len(up[c])
        /\ \/ HandleDrop(c, i) /\ Hangup(c, behind)
           \/ /\ reader' = [reader EXCEPT ![c] = <<>>]
              /\ writer' = [writer EXCEPT ![c] = ReplyFrame(r)]
              /\ up' = [up EXCEPT ![c] = behind]
              /\ UNCHANGED <<clients, down, peer, served>>
    BY <2>0 DEF RunsCommand
  <2>2. r \in Ran
    BY <2>1 DEF Ran
  <2> HIDE DEF r
  <2>3. ReplyFrame(r) \in Seq(Bytes) /\ <<>> \in Seq(Bytes) /\ Len(<<>>) = 0
    BY <2>2, FramesTypes, EmptySeq
  <2>4. done' \in [Clients -> Seq(Ran)]
    BY <1>0, <2>1, <2>2, AppendProperties DEF Types
  <2>5. clients' \in Seq(Clients)
    <3>1. clients \in Seq(Clients) /\ (clients' = RemoveAt(clients, i) \/ clients' = clients)
      BY <1>0, <2>1 DEF Types, HandleDrop, RemoveAt
    <3> QED
      BY <3>1, RemoveAtProperties
  <2>6. UNCHANGED <<backlog, out, heard, asked, answers>>
    BY <1>6 DEF ReadCommand, Handling, clientVars
  <2>7. /\ reader' = [reader EXCEPT ![c] = <<>>]
        /\ \/ writer' = [writer EXCEPT ![c] = <<>>]
           \/ writer' = [writer EXCEPT ![c] = ReplyFrame(r)]
        /\ up' = [up EXCEPT ![c] = <<>>] \/ up' = [up EXCEPT ![c] = behind]
        /\ served' \in [Clients -> {"open", "fin", "rst"}]
        /\ UNCHANGED <<down, peer>>
    BY <1>0, <2>1 DEF HandleDrop, Hangup, Types
  <2>8. /\ reader' \in [Clients -> Seq(Bytes)] /\ writer' \in [Clients -> Seq(Bytes)]
        /\ up' \in [Clients -> Seq(Bytes)]
    <3>1. /\ reader \in [Clients -> Seq(Bytes)] /\ writer \in [Clients -> Seq(Bytes)]
          /\ up \in [Clients -> Seq(Bytes)]
      BY <1>0 DEF Types
    <3>2. reader' \in [Clients -> Seq(Bytes)]
      BY <2>3, <2>7, <3>1
    <3>3. writer' \in [Clients -> Seq(Bytes)]
      BY <2>3, <2>7, <3>1
    <3>4. up' \in [Clients -> Seq(Bytes)]
      BY <2>1, <2>3, <2>7, <3>1
    <3> QED
      BY <3>2, <3>3, <3>4
  <2>9. ASSUME NEW b \in Clients PROVE Len(up'[b]) <= BufferSize
    <3>1. up'[b] \in {up[b], <<>>, behind} /\ (up'[b] # up[b] => b = c)
      BY <1>0, <2>7 DEF Types
    <3>2. Len(up[b]) \in Nat /\ Len(up[b]) <= BufferSize /\ Len(behind) \in Nat
      BY <1>0, <2>1, LenProperties DEF Types
    <3> QED
      BY <1>0, <2>1, <2>3, <3>1, <3>2
  <2> QED
    BY <1>0, <2>1, <2>4, <2>5, <2>6, <2>7, <2>8, <2>9 DEF Types
<1>7. ASSUME NEW c \in Clients, NEW i \in 1 .. Len(clients), WriteAnswer(c, i), UNCHANGED clientVars
      PROVE  Types'
  <2> DEFINE free == BufferSize - Len(down[c])
             n == IF Len(writer[c]) < free THEN Len(writer[c]) ELSE free
             sent == SubSeq(writer[c], 1, n)
             unsent == SubSeq(writer[c], n + 1, Len(writer[c]))
  <2>1. /\ down' = [down EXCEPT ![c] = @ \o sent] /\ writer' = [writer EXCEPT ![c] = unsent]
        /\ UNCHANGED <<store, clients, backlog, reader, done, up, peer, served, out, heard, asked, answers>>
    BY <1>7 DEF WriteAnswer, Handling, clientVars
  <2>2. /\ down[c] \in Seq(Bytes) /\ writer[c] \in Seq(Bytes)
        /\ Len(down[c]) \in Nat /\ Len(writer[c]) \in Nat /\ Len(down[c]) <= BufferSize
    BY <1>0, TypesOf, LenProperties DEF Types
  <2>3. n \in Nat /\ n <= Len(writer[c]) /\ Len(down[c]) + n <= BufferSize
    <3> DEFINE d == Len(down[c])
               w == Len(writer[c])
    <3>1. d \in Nat /\ w \in Nat /\ d <= BufferSize
      BY <2>2
    <3> HIDE DEF d, w
    <3>2. /\ (IF w < BufferSize - d THEN w ELSE BufferSize - d) \in Nat
          /\ (IF w < BufferSize - d THEN w ELSE BufferSize - d) <= w
          /\ d + (IF w < BufferSize - d THEN w ELSE BufferSize - d) <= BufferSize
      BY <3>1, BufferAssumption
    <3> QED
      BY <3>2 DEF d, w
  <2> HIDE DEF n
  <2>4. sent \in Seq(Bytes) /\ Len(sent) = n /\ unsent \in Seq(Bytes)
    BY <2>2, <2>3, SplitJoin
  <2> HIDE DEF sent, unsent
  <2> DEFINE new == Join(down[c], sent)
  <2>5. new \in Seq(Bytes) /\ Joined(new, down[c], sent)
    BY <2>2, <2>4, JoinProperties
  <2>6. down' = [down EXCEPT ![c] = new]
    BY <2>1 DEF Join
  <2> HIDE DEF new
  <2>7. new \in Seq(Bytes) /\ Len(new) <= BufferSize
    BY <2>2, <2>3, <2>4, <2>5 DEF Joined
  <2> QED
    BY <1>0, <2>1, <2>4, <2>6, <2>7 DEF Types
<1>8. ASSUME NEW c \in Clients, Connect(c)
      PROVE  Types'
  BY <1>0, <1>8, AppendProperties DEF Connect, serverVars, connectionVars, Types
<1>9. ASSUME NEW c \in Clients, NEW l \in Lines, Ask(c, l)
      PROVE  Types'
  <2>1. RequestFrame(l) \in Seq(Bytes)
    BY FramesTypes
  <2>2. /\ asked' = [asked EXCEPT ![c] = Append(@, l)] /\ out' = [out EXCEPT ![c] = RequestFrame(l)]
        /\ UNCHANGED <<store, clients, backlog, reader, writer, done, up, down, peer, served, heard, answers>>
    BY <1>9 DEF Ask, RequestFrame, serverVars, connectionVars
  <2> QED
    BY <1>0, <2>1, <2>2, AppendProperties DEF Types
<1>10. ASSUME NEW c \in Clients, Send(c)
       PROVE  Types'
  <2>1. PICK n \in 1 .. Len(out[c]) :
          /\ Len(up[c]) + n <= BufferSize
          /\ up' = [up EXCEPT ![c] = @ \o SubSeq(out[c], 1, n)]
          /\ out' = [out EXCEPT ![c] = SubSeq(@, n + 1, Len(@))]
    BY <1>10 DEF Send
  <2> DEFINE sent == SubSeq(out[c], 1, n)
             unsent == SubSeq(out[c], n + 1, Len(out[c]))
             new == up[c] \o sent
  <2>2. up[c] \in Seq(Bytes) /\ out[c] \in Seq(Bytes) /\ Len(up[c]) \in Nat /\ Len(out[c]) \in Nat
    BY <1>0, TypesOf, LenProperties
  <2>3. sent \in Seq(Bytes) /\ Len(sent) = n /\ unsent \in Seq(Bytes)
    BY <2>2, SplitJoin
  <2>4. up' = [up EXCEPT ![c] = new] /\ out' = [out EXCEPT ![c] = unsent]
    BY <2>1
  <2>5. UNCHANGED <<store, clients, backlog, reader, writer, done, down, peer, served, heard, asked, answers>>
    BY <1>10 DEF Send, serverVars
  <2> HIDE DEF sent, unsent
  <2>6. new \in Seq(Bytes) /\ Len(new) <= BufferSize
    BY <2>1, <2>2, <2>3, ConcatProperties
  <2> HIDE DEF new
  <2> QED
    BY <1>0, <2>3, <2>4, <2>5, <2>6 DEF Types
<1>11. ASSUME NEW c \in Clients, Receive(c)
       PROVE  Types'
  <2>1. UNCHANGED <<store, clients, backlog, reader, writer, done, up, peer, served, out, asked>>
    BY <1>11 DEF Receive, serverVars
  <2>2. <<>> \in Seq(Bytes) /\ Len(<<>>) = 0 /\ Heard(c) \in Seq(Bytes)
    BY <1>0, EmptySeq, TypesOf
  <2>3. CASE IsComplete(Heard(c))
    <3> DEFINE behind == Behind(Heard(c))
               answer == MessageOf(Heard(c))
    <3>1. c \notin left
      BY <1>11 DEF Receive, Active
    <3>2. answer \in Outputs /\ behind \in Seq(Bytes) /\ Len(behind) <= Len(down[c])
      BY <2>3, <3>1, AnswerComes
    <3>3. /\ answers' = [answers EXCEPT ![c] = Append(@, answer)]
          /\ heard' = [heard EXCEPT ![c] = <<>>] /\ down' = [down EXCEPT ![c] = behind]
      BY <1>11, <2>3 DEF Receive
    <3> HIDE DEF behind, answer
    <3>4. Len(behind) <= BufferSize
      BY <1>0, <3>2, LenProperties DEF Types
    <3>5. answers' \in [Clients -> Seq(Outputs)]
      BY <1>0, <3>2, <3>3, AppendProperties DEF Types
    <3> QED
      BY <1>0, <2>1, <2>2, <3>2, <3>3, <3>4, <3>5 DEF Types
  <2>4. CASE ~IsComplete(Heard(c))
    <3>1. /\ heard' = [heard EXCEPT ![c] = Heard(c)] /\ down' = [down EXCEPT ![c] = <<>>]
          /\ answers' = answers
      BY <1>11, <2>4 DEF Receive
    <3> QED
      BY <1>0, <2>1, <2>2, <3>1 DEF Types
  <2> QED
    BY <2>3, <2>4
<1>12. ASSUME NEW c \in Clients, CloseSocket(c)
       PROVE  Types'
  <2>1. /\ peer' \in [Clients -> {"open", "fin", "rst"}]
        /\ down' = [down EXCEPT ![c] = <<>>] /\ out' = [out EXCEPT ![c] = <<>>]
        /\ heard' = [heard EXCEPT ![c] = <<>>]
        /\ UNCHANGED <<store, clients, backlog, reader, writer, done, up, served, asked, answers>>
    BY <1>0, <1>12 DEF CloseSocket, serverVars, Types
  <2>2. <<>> \in Seq(Bytes) /\ Len(<<>>) = 0
    BY EmptySeq
  <2> QED
    BY <1>0, <2>1, <2>2 DEF Types
<1>13. ASSUME NEW c \in Clients, Reset(c)
       PROVE  Types'
  BY <1>0, <1>13 DEF Reset, serverVars, clientVars, Types
<1> QED
  BY <1>1, <1>2, <1>3, <1>4, <1>5, <1>6, <1>7, <1>8, <1>9, <1>10, <1>11, <1>12, <1>13, Steps

\* Ending the session of a client that is served.
LEMMA SessionEnds ==
  ASSUME Inv, NEW c \in Clients, NEW i \in 1 .. Len(clients), NEW event,
         Handling(c, i, event), HandleDrop(c, i), NEW unread, Hangup(c, unread),
         UNCHANGED clientVars
  PROVE  Sessions'
<1>1. clients[i] = c /\ c \in connected /\ c \in Range(clients)
  BY Handled
<1>2. /\ clients' \in Seq(Clients) /\ Len(clients') = Len(clients) - 1 /\ IsInjective(clients')
      /\ Range(clients') = Range(clients) \ {c}
  <2>1. clients \in Seq(Clients) /\ IsInjective(clients)
    BY DEF Inv, Types, Sessions
  <2>2. clients' = RemoveAt(clients, i)
    BY DEF HandleDrop
  <2> QED
    BY <1>1, <2>1, <2>2, Erased
<1>3. UNCHANGED <<left, connected, backlog, peer>>
  BY DEF Handling, Hangup, clientVars
<1>4. \E x \in {"fin", "rst"} : served' = [served EXCEPT ![c] = x]
  BY DEF Hangup
<1>5. \A b \in Clients : served'[b] = "open" <=> served[b] = "open" /\ b # c
  BY <1>4 DEF Inv, Types
<1>6. Len(clients') <= DescriptorLimit
  BY <1>2, LenProperties, BufferAssumption DEF Inv, Types, Sessions
<1>7. Range(clients') \cap Range(backlog') = {}
  BY <1>2, <1>3 DEF Inv, Sessions
<1>8. Range(clients') \cup Range(backlog') = {b \in connected' : served'[b] = "open"}
  <2>1. Range(clients) \cup Range(backlog) = {b \in connected : served[b] = "open"}
    BY DEF Inv, Sessions
  <2>2. c \notin Range(backlog)
    BY <1>1 DEF Inv, Sessions
  <2>3. connected \subseteq Clients
    BY DEF Inv, Sessions
  <2> QED
    BY <1>2, <1>3, <1>5, <2>1, <2>2, <2>3
<1> QED
  BY <1>1, <1>2, <1>3, <1>5, <1>6, <1>7, <1>8 DEF Inv, Sessions

\* No step loses a client or has it twice.
LEMMA SessionsStep ==
  ASSUME Inv, [Next]_vars
  PROVE  Sessions'
<1>0. Sessions /\ Types
  BY DEF Inv
<1>1. ASSUME UNCHANGED <<left, connected, clients, backlog, served, peer>>
      PROVE  Sessions'
  BY <1>0, <1>1 DEF Sessions
<1>2. CASE UNCHANGED vars
  BY <1>1, <1>2 DEF vars, serverVars, connectionVars, clientVars
<1>3. CASE UNCHANGED clientVars /\ Poll
  BY <1>1, <1>3 DEF clientVars, connectionVars, Poll
<1>4. CASE UNCHANGED clientVars /\ AcceptClients
  <2> DEFINE free == DescriptorLimit - Len(clients)
             n == IF Len(backlog) < free THEN Len(backlog) ELSE free
             front == SubSeq(backlog, 1, n)
             behind == SubSeq(backlog, n + 1, Len(backlog))
  <2>1. /\ clients \in Seq(Clients) /\ backlog \in Seq(Clients)
        /\ Len(clients) \in Nat /\ Len(backlog) \in Nat
        /\ DOMAIN clients = 1 .. Len(clients) /\ DOMAIN backlog = 1 .. Len(backlog)
    BY <1>0, LenProperties DEF Types
  <2>2. n \in Nat /\ n <= Len(backlog) /\ Len(clients) + n <= DescriptorLimit
    BY <2>1, <1>0, BufferAssumption DEF Sessions
  <2>3. UNCHANGED <<left, connected, served, peer>>
    BY <1>4 DEF AcceptClients, connectionVars, clientVars
  <2>4. CASE clients' = Join(clients, front) /\ backlog' = behind
    <3> HIDE DEF n
    <3>1. /\ front \in Seq(Clients) /\ Len(front) = n /\ \A j \in 1 .. n : front[j] = backlog[j]
          /\ behind \in Seq(Clients) /\ Len(behind) = Len(backlog) - n
          /\ \A j \in 1 .. Len(backlog) - n : behind[j] = backlog[n + j]
      BY <2>1, <2>2, SplitJoin
    <3> HIDE DEF front, behind
    <3>2. clients' \in Seq(Clients) /\ Joined(clients', clients, front)
      BY <2>1, <2>4, <3>1, JoinProperties
    <3>3. /\ Len(clients') = Len(clients) + n
          /\ \A j \in 1 .. Len(clients) : clients'[j] = clients[j]
          /\ \A j \in 1 .. n : clients'[Len(clients) + j] = backlog[j]
      BY <3>1, <3>2 DEF Joined
    <3>4. /\ Len(backlog') = Len(backlog) - n
          /\ \A j \in 1 .. Len(backlog) - n : backlog'[j] = backlog[n + j]
      BY <2>4, <3>1
    <3>5. DOMAIN clients' = 1 .. Len(clients') /\ DOMAIN backlog' = 1 .. Len(backlog')
      BY <2>4, <3>1, <3>2, LenProperties
    <3>6. Range(clients) \cap Range(backlog) = {} /\ IsInjective(clients) /\ IsInjective(backlog)
      BY <1>0 DEF Sessions
    <3>7. \A j \in 1 .. Len(clients), k \in 1 .. Len(backlog) : clients[j] # backlog[k]
      BY <2>1, <3>6 DEF Range
    <3>8. \A j \in 1 .. Len(clients') :
             \/ j \in 1 .. Len(clients) /\ clients'[j] = clients[j]
             \/ \E k \in 1 .. n : j = Len(clients) + k /\ clients'[j] = backlog[k]
      <4> TAKE j \in 1 .. Len(clients')
      <4>1. CASE j <= Len(clients)
        BY <4>1, <2>1, <3>3
      <4>2. CASE ~(j <= Len(clients))
        <5>1. j - Len(clients) \in 1 .. n /\ j = Len(clients) + (j - Len(clients))
          BY <4>2, <2>1, <2>2, <3>3
        <5> QED
          BY <5>1, <3>3
      <4> QED
        BY <4>1, <4>2
    <3>9. \A k \in 1 .. n : k \in 1 .. Len(backlog)
      BY <2>1, <2>2
    <3>10. IsInjective(clients')
      <4>1. SUFFICES ASSUME NEW j \in 1 .. Len(clients'), NEW k \in 1 .. Len(clients'),
                            clients'[j] = clients'[k]
                     PROVE  j = k
        BY <3>5 DEF IsInjective
      <4>2. CASE j \in 1 .. Len(clients) /\ clients'[j] = clients[j]
        <5>1. k \in 1 .. Len(clients) /\ clients'[k] = clients[k]
          BY <4>1, <4>2, <3>7, <3>8, <3>9
        <5> QED
          BY <4>1, <4>2, <5>1, <2>1, <3>6 DEF IsInjective
      <4>3. CASE \E m \in 1 .. n : j = Len(clients) + m /\ clients'[j] = backlog[m]
        <5>1. PICK m \in 1 .. n : j = Len(clients) + m /\ clients'[j] = backlog[m]
          BY <4>3
        <5>2. PICK o \in 1 .. n : k = Len(clients) + o /\ clients'[k] = backlog[o]
          BY <4>1, <5>1, <3>7, <3>8, <3>9
        <5>3. m = o
          BY <4>1, <5>1, <5>2, <2>1, <3>6, <3>9 DEF IsInjective
        <5> QED
          BY <5>1, <5>2, <5>3
      <4> QED
        BY <4>2, <4>3, <3>8
    <3>11. \A j \in 1 .. Len(backlog') :
             n + j \in 1 .. Len(backlog) /\ ~(n + j \in 1 .. n) /\ backlog'[j] = backlog[n + j]
      BY <2>1, <2>2, <3>4
    <3>12. IsInjective(backlog')
      <4>1. SUFFICES ASSUME NEW j \in 1 .. Len(backlog'), NEW k \in 1 .. Len(backlog'),
                            backlog'[j] = backlog'[k]
                     PROVE  j = k
        BY <3>5 DEF IsInjective
      <4>2. n + j = n + k
        BY <4>1, <2>1, <3>6, <3>11 DEF IsInjective
      <4> QED
        BY <4>2, <2>2
    <3>13. \A k \in 1 .. Len(backlog) : k \in 1 .. n \/ \E j \in 1 .. Len(backlog') : k = n + j
      <4> TAKE k \in 1 .. Len(backlog)
      <4>1. CASE ~(k \in 1 .. n)
        <5>1. k - n \in 1 .. Len(backlog') /\ k = n + (k - n)
          BY <4>1, <2>1, <2>2, <3>4
        <5> QED
          BY <5>1
      <4> QED
        BY <4>1
    <3>14. Range(clients') \cap Range(backlog') = {}
      <4>1. SUFFICES ASSUME NEW j \in 1 .. Len(clients'), NEW k \in 1 .. Len(backlog'),
                            clients'[j] = backlog'[k]
                     PROVE  FALSE
        BY <3>5 DEF Range
      <4>2. n + k \in 1 .. Len(backlog) /\ ~(n + k \in 1 .. n) /\ clients'[j] = backlog[n + k]
        BY <4>1, <3>11
      <4>3. PICK m \in 1 .. n : clients'[j] = backlog[m]
        BY <4>2, <3>7, <3>8
      <4> QED
        BY <4>2, <4>3, <2>1, <3>6, <3>9 DEF IsInjective
    <3>15. Range(clients') \cup Range(backlog') = Range(clients) \cup Range(backlog)
      <4>1. ASSUME NEW x \in Range(clients') PROVE x \in Range(clients) \cup Range(backlog)
        <5>1. PICK j \in 1 .. Len(clients') : x = clients'[j]
          BY <3>5 DEF Range
        <5> QED
          BY <5>1, <2>1, <3>8, <3>9 DEF Range
      <4>2. ASSUME NEW x \in Range(backlog') PROVE x \in Range(backlog)
        BY <2>1, <3>5, <3>11 DEF Range
      <4>3. ASSUME NEW x \in Range(clients) PROVE x \in Range(clients')
        <5>1. PICK j \in 1 .. Len(clients) : x = clients[j]
          BY <2>1 DEF Range
        <5>2. j \in 1 .. Len(clients')
          BY <2>1, <2>2, <3>3
        <5> QED
          BY <5>1, <5>2, <3>3, <3>5 DEF Range
      <4>4. ASSUME NEW x \in Range(backlog) PROVE x \in Range(clients') \cup Range(backlog')
        <5>1. PICK k \in 1 .. Len(backlog) : x = backlog[k]
          BY <2>1 DEF Range
        <5>2. CASE k \in 1 .. n
          <6>1. Len(clients) + k \in 1 .. Len(clients') /\ clients'[Len(clients) + k] = x
            <7>1. Len(clients) + k \in 1 .. Len(clients) + n
              BY <5>2, <2>1, <2>2
            <7> QED
              BY <5>1, <5>2, <7>1, <3>3
          <6> QED
            BY <6>1, <3>5 DEF Range
        <5>3. CASE ~(k \in 1 .. n)
          BY <5>1, <5>3, <3>5, <3>11, <3>13 DEF Range
        <5> QED
          BY <5>2, <5>3
      <4> QED
        BY <4>1, <4>2, <4>3, <4>4
    <3>16. Len(clients') <= DescriptorLimit
      BY <2>2, <3>3
    <3> QED
      BY <1>0, <2>3, <3>10, <3>12, <3>14, <3>15, <3>16 DEF Sessions
  <2>5. CASE UNCHANGED <<clients, backlog>>
    BY <1>1, <2>3, <2>5
  <2> QED
    BY <1>4, <2>4, <2>5 DEF AcceptClients, Join
<1>5. ASSUME NEW c \in Clients, NEW i \in 1 .. Len(clients), GivesUp(c, i), UNCHANGED clientVars
      PROVE  Sessions'
  BY <1>5, SessionEnds DEF GivesUp
<1>6. ASSUME NEW c \in Clients, NEW i \in 1 .. Len(clients), ReadIncomplete(c, i), UNCHANGED clientVars
      PROVE  Sessions'
  BY <1>1, <1>6 DEF ReadIncomplete, Handling, clientVars
<1>7. ASSUME NEW c \in Clients, NEW i \in 1 .. Len(clients), ReadCommand(c, i), UNCHANGED clientVars
      PROVE  Sessions'
  <2>1. PICK l, result, behind : RunsCommand(c, i, l, result, behind)
    BY <1>7, CommandRuns
  <2>2. Handling(c, i, "IN")
    BY <1>7 DEF ReadCommand
  <2>3. CASE HandleDrop(c, i) /\ Hangup(c, behind)
    BY <1>7, <2>2, <2>3, SessionEnds
  <2>4. CASE UNCHANGED <<clients, down, peer, served>>
    BY <1>1, <1>7, <2>2, <2>4 DEF Handling, clientVars
  <2> QED
    BY <2>1, <2>3, <2>4 DEF RunsCommand
<1>8. ASSUME NEW c \in Clients, NEW i \in 1 .. Len(clients), WriteAnswer(c, i), UNCHANGED clientVars
      PROVE  Sessions'
  BY <1>1, <1>8 DEF WriteAnswer, Handling, clientVars
<1>9. ASSUME NEW c \in Clients, Connect(c)
      PROVE  Sessions'
  <2>1. /\ c \notin connected /\ connected' = connected \cup {c} /\ backlog' = Append(backlog, c)
        /\ UNCHANGED <<left, clients, served, peer>>
    BY <1>9 DEF Connect, serverVars, connectionVars
  <2>2. backlog \in Seq(Clients) /\ Len(backlog) \in Nat /\ DOMAIN backlog = 1 .. Len(backlog)
    BY <1>0, LenProperties DEF Types
  <2>3. /\ backlog' \in Seq(Clients) /\ Len(backlog') = Len(backlog) + 1
        /\ backlog'[Len(backlog) + 1] = c
        /\ \A j \in 1 .. Len(backlog) : backlog'[j] = backlog[j]
    BY <2>1, <2>2, AppendProperties
  <2>4. DOMAIN backlog' = 1 .. Len(backlog) + 1
    BY <2>3, LenProperties
  <2>5. Range(backlog') = Range(backlog) \cup {c}
    <3>1. \A j \in 1 .. Len(backlog) + 1 : j \in 1 .. Len(backlog) \/ j = Len(backlog) + 1
      BY <2>2
    <3>2. /\ Len(backlog) + 1 \in 1 .. Len(backlog) + 1
          /\ \A j \in 1 .. Len(backlog) : j \in 1 .. Len(backlog) + 1
      BY <2>2
    <3> QED
      BY <2>2, <2>3, <2>4, <3>1, <3>2 DEF Range
  <2>6. c \notin Range(backlog) /\ c \notin Range(clients) /\ served[c] = "open"
    BY <1>0, <2>1 DEF Sessions
  <2>7. IsInjective(backlog')
    <3>1. \A j \in 1 .. Len(backlog) + 1 : j \in 1 .. Len(backlog) \/ j = Len(backlog) + 1
      BY <2>2
    <3>2. \A j \in 1 .. Len(backlog) : backlog[j] # c
      BY <2>2, <2>6 DEF Range
    <3>3. IsInjective(backlog)
      BY <1>0 DEF Sessions
    <3> QED
      BY <2>2, <2>3, <2>4, <3>1, <3>2, <3>3 DEF IsInjective
  <2>8. Range(clients') \cap Range(backlog') = {}
    BY <1>0, <2>1, <2>5, <2>6 DEF Sessions
  <2>9. Range(clients') \cup Range(backlog') = {b \in connected' : served'[b] = "open"}
    BY <1>0, <2>1, <2>5, <2>6 DEF Sessions
  <2> QED
    BY <1>0, <2>1, <2>7, <2>8, <2>9 DEF Sessions
<1>10. ASSUME NEW c \in Clients, NEW l \in Lines, Ask(c, l)
       PROVE  Sessions'
  BY <1>1, <1>10 DEF Ask, serverVars, connectionVars
<1>11. ASSUME NEW c \in Clients, Send(c)
       PROVE  Sessions'
  BY <1>1, <1>11 DEF Send, serverVars
<1>12. ASSUME NEW c \in Clients, Receive(c)
       PROVE  Sessions'
  BY <1>1, <1>12 DEF Receive, serverVars
<1>13. ASSUME NEW c \in Clients, c \in connected \ left, CloseSocket(c)
       PROVE  Sessions'
  <2>1. /\ left' = left \cup {c} /\ (\E x \in {"fin", "rst"} : peer' = [peer EXCEPT ![c] = x])
        /\ UNCHANGED <<connected, clients, backlog, served>>
    BY <1>13 DEF CloseSocket, serverVars
  <2>2. \A b \in Clients : peer'[b] = "open" <=> peer[b] = "open" /\ b # c
    BY <1>0, <2>1 DEF Types
  <2> QED
    BY <1>0, <1>13, <2>1, <2>2 DEF Sessions
<1>14. ASSUME NEW c \in Clients, Reset(c)
       PROVE  Sessions'
  <2>1. /\ peer[c] = "fin" /\ peer' = [peer EXCEPT ![c] = "rst"]
        /\ UNCHANGED <<left, connected, clients, backlog, served>>
    BY <1>14 DEF Reset, serverVars, clientVars
  <2>2. \A b \in Clients : peer'[b] = "open" <=> peer[b] = "open"
    BY <1>0, <2>1 DEF Types
  <2> QED
    BY <1>0, <2>1, <2>2 DEF Sessions
<1> QED
  BY <1>2, <1>3, <1>4, <1>5, <1>6, <1>7, <1>8, <1>9, <1>10, <1>11, <1>12, <1>13, <1>14, Steps

\* No step invalidates what is still to be handled, erasing a client neither.
LEMMA EventsStandStep ==
  ASSUME Inv, [Next]_vars
  PROVE  EventsStand'
<1>0. EventsStand /\ clients \in Seq(Clients) /\ Len(clients) \in Nat
  BY LenProperties DEF Inv, Types
<1>1. \A d \in polled : d.fd \in Clients
  BY <1>0, ElementOfSeq DEF EventsStand
<1>2. ASSUME UNCHANGED <<polled, running, clients, writer>>,
             \A b \in Clients : peer[b] = "rst" => peer'[b] = "rst"
      PROVE  EventsStand'
  BY <1>0, <1>1, <1>2 DEF EventsStand
<1>3. ASSUME NEW c \in Clients, NEW i \in 1 .. Len(clients), NEW event, Handling(c, i, event),
             \A j \in 1 .. i - 1 : j \in 1 .. Len(clients') /\ clients'[j] = clients[j],
             \A b \in Clients : b # c => writer'[b] = writer[b],
             peer' = peer
      PROVE  EventsStand'
  <2>1. /\ polled' \subseteq polled /\ running
        /\ \A d \in polled' : d.index < i /\ d.fd # c
    BY <1>3, Handled
  <2>2. running' = running
    BY <1>3 DEF Handling
  <2>3. ASSUME NEW d \in polled'
        PROVE  /\ d.index \in 1 .. Len(clients') /\ clients'[d.index] = d.fd
               /\ "ERR" \in d.events => peer'[d.fd] = "rst"
               /\ "IN" \in d.events => writer'[d.fd] = <<>>
               /\ \A e \in polled' : d.index = e.index => d = e
    <3>1. d \in polled /\ d.index < i /\ d.fd # c /\ d.fd \in Clients
      BY <2>1, <1>1
    <3>2. d.index \in 1 .. Len(clients) /\ clients[d.index] = d.fd
      BY <1>0, <3>1 DEF EventsStand
    <3>3. d.index \in 1 .. i - 1
      BY <1>0, <3>1, <3>2
    <3>4. d.index \in 1 .. Len(clients') /\ clients'[d.index] = d.fd
      BY <1>3, <3>2, <3>3
    <3>5. /\ "ERR" \in d.events => peer'[d.fd] = "rst"
          /\ "IN" \in d.events => writer'[d.fd] = <<>>
      BY <1>0, <1>3, <3>1 DEF EventsStand
    <3>6. \A e \in polled' : d.index = e.index => d = e
      BY <1>0, <2>1, <3>1 DEF EventsStand
    <3> QED
      BY <3>4, <3>5, <3>6
  <2> QED
    BY <2>1, <2>2, <2>3 DEF EventsStand
<1>4. ASSUME NEW c \in Clients, NEW i \in 1 .. Len(clients), NEW event, Handling(c, i, event),
             HandleDrop(c, i), NEW unread, Hangup(c, unread)
      PROVE  EventsStand'
  <2>1. IsInjective(clients) /\ clients' = RemoveAt(clients, i)
    BY <1>4 DEF Inv, Sessions, HandleDrop
  <2>2. \A j \in 1 .. i - 1 : j \in 1 .. Len(clients') /\ clients'[j] = clients[j]
    BY <1>0, <2>1, Erased
  <2>3. writer' = [writer EXCEPT ![c] = <<>>] /\ peer' = peer /\ writer \in [Clients -> Seq(Bytes)]
    BY <1>4 DEF HandleDrop, Hangup, Inv, Types
  <2>4. \A b \in Clients : b # c => writer'[b] = writer[b]
    BY <2>3
  <2> QED
    BY <1>3, <1>4, <2>2, <2>3, <2>4
<1>5. ASSUME NEW i \in 1 .. Len(clients) PROVE \A j \in 1 .. i - 1 : j \in 1 .. Len(clients)
  BY <1>0
<1>6. CASE UNCHANGED vars
  BY <1>2, <1>6 DEF vars, serverVars, connectionVars
<1>7. CASE UNCHANGED clientVars /\ Poll
  <2> DEFINE descriptor(i) == [index |-> i, fd |-> clients[i], events |-> Events(clients[i])]
  <2>1. /\ polled' = {d \in {descriptor(i) : i \in 1 .. Len(clients)} : d.events # {}}
        /\ running' /\ UNCHANGED <<clients, writer, peer>>
    BY <1>7 DEF Poll, connectionVars
  <2>2. ASSUME NEW d \in polled'
        PROVE  /\ d.index \in 1 .. Len(clients') /\ clients'[d.index] = d.fd
               /\ "ERR" \in d.events => peer'[d.fd] = "rst"
               /\ "IN" \in d.events => writer'[d.fd] = <<>>
               /\ \A e \in polled' : d.index = e.index => d = e
    <3>1. PICK i \in 1 .. Len(clients) : d = descriptor(i)
      BY <2>1
    <3>2. "ERR" \in Events(clients[i]) => peer[clients[i]] = "rst"
      BY DEF Events
    <3>3. "IN" \in Events(clients[i]) => writer[clients[i]] = <<>>
      BY DEF Events, HasPending
    <3>4. ASSUME NEW e \in polled', d.index = e.index PROVE d = e
      <4>1. PICK j \in 1 .. Len(clients) : e = descriptor(j)
        BY <2>1
      <4> QED
        BY <3>1, <3>4, <4>1
    <3> QED
      BY <2>1, <3>1, <3>2, <3>3, <3>4
  <2> QED
    BY <2>1, <2>2 DEF EventsStand
<1>8. CASE UNCHANGED clientVars /\ AcceptClients
  <2>1. polled' = {}
    BY <1>8 DEF AcceptClients
  <2> QED
    BY <2>1 DEF EventsStand
<1>9. ASSUME NEW c \in Clients, NEW i \in 1 .. Len(clients), GivesUp(c, i)
      PROVE  EventsStand'
  BY <1>4, <1>9 DEF GivesUp
<1>10. ASSUME NEW c \in Clients, NEW i \in 1 .. Len(clients), ReadIncomplete(c, i)
       PROVE  EventsStand'
  <2>1. Handling(c, i, "IN") /\ UNCHANGED <<clients, writer, peer>>
    BY <1>10 DEF ReadIncomplete
  <2> QED
    BY <1>3, <1>5, <2>1
<1>11. ASSUME NEW c \in Clients, NEW i \in 1 .. Len(clients), ReadCommand(c, i)
       PROVE  EventsStand'
  <2>1. PICK l, result, behind : RunsCommand(c, i, l, result, behind)
    BY <1>11, CommandRuns
  <2>2. Handling(c, i, "IN")
    BY <1>11 DEF ReadCommand
  <2>3. CASE HandleDrop(c, i) /\ Hangup(c, behind)
    BY <1>4, <2>2, <2>3
  <2>4. CASE /\ writer' = [writer EXCEPT ![c] = ReplyFrame([line |-> l, output |-> result.output])]
             /\ UNCHANGED <<clients, down, peer, served>>
    <3>1. \A b \in Clients : b # c => writer'[b] = writer[b]
      BY <2>4 DEF Inv, Types
    <3> QED
      BY <1>3, <1>5, <2>2, <2>4, <3>1
  <2> QED
    BY <2>1, <2>3, <2>4 DEF RunsCommand
<1>12. ASSUME NEW c \in Clients, NEW i \in 1 .. Len(clients), WriteAnswer(c, i)
       PROVE  EventsStand'
  <2>1. /\ Handling(c, i, "OUT") /\ UNCHANGED <<clients, peer>>
        /\ \E x : writer' = [writer EXCEPT ![c] = x]
    BY <1>12 DEF WriteAnswer
  <2>2. \A b \in Clients : b # c => writer'[b] = writer[b]
    BY <2>1 DEF Inv, Types
  <2> QED
    BY <1>3, <1>5, <2>1, <2>2
<1>13. ASSUME NEW c \in Clients, Connect(c)
       PROVE  EventsStand'
  BY <1>2, <1>13 DEF Connect, serverVars, connectionVars
<1>14. ASSUME NEW c \in Clients, NEW l \in Lines, Ask(c, l)
       PROVE  EventsStand'
  BY <1>2, <1>14 DEF Ask, serverVars, connectionVars
<1>15. ASSUME NEW c \in Clients, Send(c)
       PROVE  EventsStand'
  BY <1>2, <1>15 DEF Send, serverVars
<1>16. ASSUME NEW c \in Clients, Receive(c)
       PROVE  EventsStand'
  BY <1>2, <1>16 DEF Receive, serverVars
<1>17. ASSUME NEW c \in Clients, c \in connected \ left, CloseSocket(c)
       PROVE  EventsStand'
  <2>1. /\ UNCHANGED <<polled, running, clients, writer>>
        /\ \E x : peer' = [peer EXCEPT ![c] = x]
    BY <1>17 DEF CloseSocket, serverVars
  <2>2. peer[c] = "open"
    BY <1>17 DEF Inv, Sessions
  <2>3. \A b \in Clients : peer[b] = "rst" => peer'[b] = "rst"
    BY <2>1, <2>2 DEF Inv, Types
  <2> QED
    BY <1>2, <2>1, <2>3
<1>18. ASSUME NEW c \in Clients, Reset(c)
       PROVE  EventsStand'
  <2>1. UNCHANGED <<polled, running, clients, writer>> /\ peer' = [peer EXCEPT ![c] = "rst"]
    BY <1>18 DEF Reset, serverVars
  <2>2. \A b \in Clients : peer[b] = "rst" => peer'[b] = "rst"
    BY <2>1 DEF Inv, Types
  <2> QED
    BY <1>2, <2>1, <2>2
<1> QED
  BY <1>6, <1>7, <1>8, <1>9, <1>10, <1>11, <1>12, <1>13, <1>14, <1>15, <1>16, <1>17, <1>18, Steps

\* No step runs what was not sent, or answers what has not run.
LEMMA HistoryStep ==
  ASSUME Inv, [Next]_vars
  PROVE  History'
<1>0. History /\ Types
  BY DEF Inv
<1> DEFINE Good(c) ==
      /\ Len(answers[c]) <= Len(done[c]) /\ Len(done[c]) <= Len(asked[c])
      /\ \A i \in 1 .. Len(asked[c]) : RequestSize[asked[c][i]] <= MaxMessage
      /\ \A i \in 1 .. Len(done[c]) :
           done[c][i].output = Nothing => i = Len(done[c]) /\ served[c] # "open"
<1>1. \A c \in Clients : Good(c)
  BY <1>0 DEF History
<1>2. ASSUME NEW c \in Clients, Good(c)',
             \A b \in Clients : b # c =>
               answers'[b] = answers[b] /\ done'[b] = done[b] /\ asked'[b] = asked[b] /\ served'[b] = served[b]
      PROVE  History'
  <2>1. ASSUME NEW b \in Clients PROVE Good(b)'
    BY <1>1, <1>2
  <2> QED
    BY <2>1 DEF History
<1>3. ASSUME UNCHANGED <<asked, done, answers, served>>
      PROVE  History'
  BY <1>0, <1>3 DEF History
<1>4. CASE UNCHANGED vars
  BY <1>3, <1>4 DEF vars, serverVars, connectionVars, clientVars
<1>5. CASE UNCHANGED clientVars /\ (Poll \/ AcceptClients)
  BY <1>3, <1>5 DEF Poll, AcceptClients, connectionVars, clientVars
<1>6. ASSUME NEW c \in Clients, NEW i \in 1 .. Len(clients), GivesUp(c, i), UNCHANGED clientVars
      PROVE  History'
  <2>1. UNCHANGED <<asked, done, answers>> /\ \E x \in {"fin", "rst"} : served' = [served EXCEPT ![c] = x]
    BY <1>6 DEF GivesUp, Hangup, clientVars
  <2>2. \A b \in Clients : b # c => served'[b] = served[b]
    BY <1>0, <2>1 DEF Types
  <2>3. served'[c] # "open"
    BY <1>0, <2>1 DEF Types
  <2>4. Good(c)'
    BY <1>1, <2>1, <2>3
  <2> HIDE DEF Good
  <2> QED
    BY <1>2, <2>1, <2>2, <2>4
<1>7. ASSUME NEW c \in Clients, NEW i \in 1 .. Len(clients), ReadCommand(c, i), UNCHANGED clientVars
      PROVE  History'
  <2>1. PICK l, result, behind : RunsCommand(c, i, l, result, behind)
    BY <1>7, CommandRuns
  <2> DEFINE r == [line |-> l, output |-> result.output]
  <2>2. /\ done' = [done EXCEPT ![c] = Append(@, r)]
        /\ UNCHANGED <<asked, answers>>
        /\ Len(done[c]) < Len(asked[c]) /\ served[c] = "open"
    BY <1>7, <2>1 DEF RunsCommand, clientVars
  <2>3. \/ served' = served /\ result.output # Nothing
        \/ \E x \in {"fin", "rst"} : served' = [served EXCEPT ![c] = x]
    BY <2>1 DEF RunsCommand, Hangup
  <2>4. \A b \in Clients : b # c => done'[b] = done[b] /\ served'[b] = served[b]
    BY <1>0, <2>2, <2>3 DEF Types
  <2>5. r \in Ran /\ r.output = result.output
    BY <2>1 DEF RunsCommand, Ran
  <2> HIDE DEF r
  <2>6. /\ done'[c] = Append(done[c], r) /\ done[c] \in Seq(Ran)
        /\ Len(done[c]) \in Nat /\ Len(asked[c]) \in Nat /\ Len(answers[c]) \in Nat
    BY <1>0, <2>2, LenProperties DEF Types
  <2>7. /\ Len(done'[c]) = Len(done[c]) + 1 /\ done'[c][Len(done[c]) + 1] = r
        /\ \A j \in 1 .. Len(done[c]) : done'[c][j] = done[c][j]
    BY <2>5, <2>6, AppendProperties
  <2>8. ASSUME NEW j \in 1 .. Len(done'[c]), done'[c][j].output = Nothing
        PROVE  j = Len(done'[c]) /\ served'[c] # "open"
    <3>1. CASE j \in 1 .. Len(done[c])
      BY <1>1, <2>2, <2>7, <2>8, <3>1
    <3>2. CASE j = Len(done[c]) + 1
      <4>1. result.output = Nothing
        BY <2>5, <2>7, <2>8, <3>2
      <4>2. served'[c] # "open"
        BY <1>0, <2>3, <4>1 DEF Types
      <4> QED
        BY <2>7, <3>2, <4>2
    <3> QED
      BY <2>6, <2>7, <3>1, <3>2
  <2>9. Good(c)'
    <3>1. Len(answers[c]) <= Len(done[c]) + 1 /\ Len(done[c]) + 1 <= Len(asked[c])
      BY <1>1, <2>2, <2>6
    <3> QED
      BY <1>1, <2>2, <2>7, <2>8, <3>1
  <2> HIDE DEF Good
  <2> QED
    BY <1>2, <2>2, <2>4, <2>9
<1>8. ASSUME NEW c \in Clients, NEW i \in 1 .. Len(clients), ReadIncomplete(c, i) \/ WriteAnswer(c, i),
             UNCHANGED clientVars
      PROVE  History'
  BY <1>3, <1>8 DEF ReadIncomplete, WriteAnswer, clientVars
<1>9. ASSUME NEW c \in Clients, Connect(c) \/ Send(c) \/ CloseSocket(c) \/ Reset(c)
      PROVE  History'
  BY <1>3, <1>9 DEF Connect, Send, CloseSocket, Reset, serverVars, connectionVars, clientVars
<1>10. ASSUME NEW c \in Clients, NEW l \in Lines, Ask(c, l)
       PROVE  History'
  <2>1. /\ asked' = [asked EXCEPT ![c] = Append(@, l)] /\ RequestSize[l] <= MaxMessage
        /\ UNCHANGED <<done, answers, served>>
    BY <1>10 DEF Ask, serverVars, connectionVars
  <2>2. /\ asked'[c] = Append(asked[c], l) /\ asked[c] \in Seq(Lines)
        /\ Len(done[c]) \in Nat /\ Len(asked[c]) \in Nat
    BY <1>0, <2>1, LenProperties DEF Types
  <2>3. /\ Len(asked'[c]) = Len(asked[c]) + 1 /\ asked'[c][Len(asked[c]) + 1] = l
        /\ \A j \in 1 .. Len(asked[c]) : asked'[c][j] = asked[c][j]
    BY <2>2, AppendProperties
  <2>4. ASSUME NEW j \in 1 .. Len(asked'[c]) PROVE RequestSize[asked'[c][j]] <= MaxMessage
    <3>1. j \in 1 .. Len(asked[c]) \/ j = Len(asked[c]) + 1
      BY <2>2, <2>3
    <3> QED
      BY <1>1, <2>1, <2>3, <3>1
  <2>5. Len(done[c]) <= Len(asked'[c])
    BY <1>1, <2>2, <2>3
  <2>6. Good(c)'
    BY <1>1, <2>1, <2>4, <2>5
  <2>7. \A b \in Clients : b # c => asked'[b] = asked[b]
    BY <1>0, <2>1 DEF Types
  <2> HIDE DEF Good
  <2> QED
    BY <1>2, <2>1, <2>6, <2>7
<1>11. ASSUME NEW c \in Clients, Receive(c)
       PROVE  History'
  <2>1. UNCHANGED <<asked, done, served>>
    BY <1>11 DEF Receive, serverVars
  <2>2. CASE IsComplete(Heard(c))
    <3>1. c \notin left /\ answers' = [answers EXCEPT ![c] = Append(@, MessageOf(Heard(c)))]
      BY <1>11, <2>2 DEF Receive, Active
    <3>2. \E n \in Nat : n <= Len(done[c]) /\ Len(answers[c]) < n
      BY <2>2, <3>1, AnswerComes
    <3>3. /\ Len(answers[c]) \in Nat /\ Len(done[c]) \in Nat /\ answers[c] \in Seq(Outputs)
          /\ MessageOf(Heard(c)) \in Outputs
      BY <1>0, <2>2, <3>1, AnswerComes, LenProperties DEF Types
    <3>4. Len(answers'[c]) = Len(answers[c]) + 1
      BY <1>0, <3>1, <3>3, AppendProperties DEF Types
    <3>5. Len(answers'[c]) <= Len(done[c])
      BY <3>2, <3>3, <3>4
    <3>6. Good(c)'
      BY <1>1, <2>1, <3>5
    <3>7. \A b \in Clients : b # c => answers'[b] = answers[b]
      BY <1>0, <3>1 DEF Types
    <3> HIDE DEF Good
    <3> QED
      BY <1>2, <2>1, <3>6, <3>7
  <2>3. CASE ~IsComplete(Heard(c))
    BY <1>3, <1>11, <2>1, <2>3 DEF Receive
  <2> QED
    BY <2>2, <2>3
<1> QED
  BY <1>4, <1>5, <1>6, <1>7, <1>8, <1>9, <1>10, <1>11, Steps

\* The streams of one client, by the values of its variables.
Flows(rd, u, o, w, h, d, as, dn, an, open, gone) ==
  /\ ~IsComplete(rd) /\ ~IsComplete(h)
  /\ open => /\ IsPrefix(Join(rd, u), FlattenSeq(RequestFrames(as, Len(dn))))
             /\ ~gone => /\ Join(Join(rd, u), o) = FlattenSeq(RequestFrames(as, Len(dn)))
                         /\ Join(Join(h, d), w) = FlattenSeq(ReplyFrames(dn, Len(an), Len(dn)))
  /\ ~open /\ ~gone => /\ Len(an) < Len(dn)
                       /\ IsPrefix(Join(h, d), FlattenSeq(ReplyFrames(dn, Len(an), Len(dn) - 1)))

FlowsOf(c) ==
  Flows(reader[c], up[c], out[c], writer[c], heard[c], down[c],
        asked[c], done[c], answers[c], served[c] = "open", c \in left)

\* Streams, client by client.
LEMMA StreamsFlow ==
  /\ Streams <=> \A c \in Clients : FlowsOf(c)
  /\ Streams' <=> \A c \in Clients : FlowsOf(c)'
BY DEF Streams, Flows, FlowsOf, Received, Heard, Requests, Replies, Join,
       RequestFrames, RequestFrame, ReplyFrames, ReplyFrame

\* Nothing is added by nothing.
LEMMA JoinNothing ==
  ASSUME NEW B, NEW s \in Seq(B)
  PROVE  Join(s, <<>>) = s /\ Join(<<>>, s) = s
BY ConcatEmptySeq DEF Join

\* The part in the middle may be counted with either side.
LEMMA JoinRegrouped ==
  \A B : \A a, b, u, v \in Seq(B) : Join(Join(a, Join(b, u)), v) = Join(Join(a, b), Join(u, v))
<1> TAKE B
<1> TAKE a, b, u, v \in Seq(B)
<1>1. Join(Join(a, b), u) = Join(a, Join(b, u))
  BY Associative
<1>2. Join(a, b) \in Seq(B)
  BY JoinProperties
<1>3. Join(Join(Join(a, b), u), v) = Join(Join(a, b), Join(u, v))
  BY <1>2, Associative
<1> QED
  BY <1>1, <1>3

\* Moving bytes from the front of one part to the end of the one before it.
Moved(a, b, s, n) ==
  Join(Join(a, Join(b, SubSeq(s, 1, n))), SubSeq(s, n + 1, Len(s))) = Join(Join(a, b), s)

\* The whole stays the same.
LEMMA JoinMoved ==
  ASSUME NEW B, NEW a \in Seq(B), NEW b \in Seq(B), NEW s \in Seq(B), NEW n \in Nat, n <= Len(s)
  PROVE  Moved(a, b, s, n)
<1> DEFINE u == SubSeq(s, 1, n)
           v == SubSeq(s, n + 1, Len(s))
<1>1. u \in Seq(B) /\ v \in Seq(B) /\ Join(u, v) = s
  BY SplitJoin
<1>2. Moved(a, b, s, n) <=> Join(Join(a, Join(b, u)), v) = Join(Join(a, b), s)
  BY DEF Moved
<1> HIDE DEF u, v
<1>3. u \in Seq(B) /\ v \in Seq(B)
  BY <1>1
<1>4. Join(Join(a, Join(b, u)), v) = Join(Join(a, b), Join(u, v))
  BY <1>3, JoinRegrouped
<1> QED
  BY <1>1, <1>2, <1>4

\* No step loses, repeats or moves a byte.
LEMMA StreamsStep ==
  ASSUME Inv, [Next]_vars
  PROVE  Streams'
<1>0. Types /\ Types' /\ History /\ \A c \in Clients : FlowsOf(c)
  BY StreamsFlow, TypesStep DEF Inv
<1>1. ASSUME NEW c \in Clients, FlowsOf(c)',
             \A b \in Clients : b # c =>
               /\ reader'[b] = reader[b] /\ up'[b] = up[b] /\ out'[b] = out[b]
               /\ writer'[b] = writer[b] /\ heard'[b] = heard[b] /\ down'[b] = down[b]
               /\ asked'[b] = asked[b] /\ done'[b] = done[b] /\ answers'[b] = answers[b]
               /\ served'[b] = served[b] /\ (b \in left' <=> b \in left)
      PROVE  Streams'
  <2>1. ASSUME NEW b \in Clients PROVE FlowsOf(b)'
    <3>1. CASE b = c
      BY <1>1, <3>1
    <3>2. CASE b # c
      <4>1. FlowsOf(b)
        BY <1>0
      <4> QED
        BY <1>1, <3>2, <4>1 DEF FlowsOf
    <3> QED
      BY <3>1, <3>2
  <2> QED
    BY <2>1, StreamsFlow
<1>2. ASSUME UNCHANGED <<reader, up, out, writer, heard, down, asked, done, answers, served, left>>
      PROVE  Streams'
  <2>1. ASSUME NEW b \in Clients PROVE FlowsOf(b)'
    BY <1>0, <1>2 DEF FlowsOf
  <2> QED
    BY <2>1, StreamsFlow
<1>3. <<>> \in Seq(Bytes) /\ ~IsComplete(<<>>)
  BY NothingIsIncomplete, EmptySeq
<1>4. CASE UNCHANGED vars
  BY <1>2, <1>4 DEF vars, serverVars, connectionVars, clientVars
<1>5. CASE UNCHANGED clientVars /\ (Poll \/ AcceptClients)
  BY <1>2, <1>5 DEF Poll, AcceptClients, connectionVars, clientVars
<1>6. ASSUME NEW c \in Clients, Connect(c) \/ Reset(c)
      PROVE  Streams'
  BY <1>2, <1>6 DEF Connect, Reset, serverVars, connectionVars, clientVars
<1>7. ASSUME NEW c \in Clients, NEW i \in 1 .. Len(clients), c \in left, GivesUp(c, i), UNCHANGED clientVars
      PROVE  Streams'
  <2>1. /\ reader' = [reader EXCEPT ![c] = <<>>] /\ writer' = [writer EXCEPT ![c] = <<>>]
        /\ up' = [up EXCEPT ![c] = <<>>]
        /\ \E x \in {"fin", "rst"} : served' = [served EXCEPT ![c] = x]
        /\ UNCHANGED <<done, down, out, heard, asked, answers, left>>
    BY <1>7 DEF GivesUp, HandleDrop, Hangup, clientVars
  <2>2. reader'[c] = <<>> /\ heard'[c] = heard[c] /\ served'[c] # "open" /\ c \in left'
    BY <1>0, <1>7, <2>1 DEF Types
  <2>3. ~IsComplete(heard[c])
    BY <1>0 DEF FlowsOf, Flows
  <2>4. FlowsOf(c)'
    BY <1>3, <2>2, <2>3 DEF FlowsOf, Flows
  <2> QED
    BY <1>0, <1>1, <2>1, <2>4 DEF Types
<1>8. ASSUME NEW c \in Clients, NEW i \in 1 .. Len(clients), ReadIncomplete(c, i), UNCHANGED clientVars
      PROVE  Streams'
  <2>1. /\ reader' = [reader EXCEPT ![c] = Received(c)] /\ up' = [up EXCEPT ![c] = <<>>]
        /\ ~IsComplete(Received(c))
        /\ UNCHANGED <<writer, done, down, served, out, heard, asked, answers, left>>
    BY <1>8 DEF ReadIncomplete, clientVars
  <2>2. reader'[c] = Join(reader[c], up[c]) /\ up'[c] = <<>> /\ ~IsComplete(Join(reader[c], up[c]))
    BY <1>0, <2>1, TypesOf DEF Types
  <2>3. Join(reader'[c], up'[c]) = Join(reader[c], up[c])
    <3>1. Join(reader[c], up[c]) \in Seq(Bytes)
      BY <1>0, TypesOf, JoinProperties
    <3> QED
      BY <2>2, <3>1, JoinNothing
  <2>4. FlowsOf(c)
    BY <1>0
  <2>5. FlowsOf(c)'
    BY <2>1, <2>2, <2>3, <2>4 DEF FlowsOf, Flows
  <2> QED
    BY <1>0, <1>1, <2>1, <2>5 DEF Types
<1>9. ASSUME NEW c \in Clients, NEW i \in 1 .. Len(clients), ReadCommand(c, i), UNCHANGED clientVars
      PROVE  Streams'
  <2>1. PICK l, result, behind : RunsCommand(c, i, l, result, behind)
    BY <1>9, CommandRuns
  <2> DEFINE r == [line |-> l, output |-> result.output]
  <2>2. /\ done' = [done EXCEPT ![c] = Append(@, r)]
        /\ reader' = [reader EXCEPT ![c] = <<>>]
        /\ UNCHANGED <<down, out, heard, asked, answers, left>>
        /\ behind \in Seq(Bytes) /\ writer[c] = <<>> /\ served[c] = "open"
    BY <1>9, <2>1 DEF RunsCommand, HandleDrop, Hangup, clientVars
  <2>3. r \in Ran
    BY <2>1 DEF RunsCommand, Ran
  <2> HIDE DEF r
  <2>4. /\ done'[c] = Append(done[c], r) /\ done[c] \in Seq(Ran) /\ reader'[c] = <<>>
        /\ Len(done[c]) \in Nat /\ Len(answers[c]) \in Nat /\ Len(answers[c]) <= Len(done[c])
    BY <1>0, <2>2, LenProperties DEF Types, History
  <2>5. Len(done'[c]) = Len(done[c]) + 1
    BY <2>3, <2>4, AppendProperties
  <2> DEFINE old == ReplyFrames(done[c], Len(answers[c]), Len(done[c]))
  <2>6. /\ ReplyFrames(done'[c], Len(answers[c]), Len(done[c])) = old
        /\ ReplyFrames(done'[c], Len(answers[c]), Len(done[c]) + 1) = Append(old, ReplyFrame(r))
        /\ old \in Seq(Seq(Bytes)) /\ ReplyFrame(r) \in Seq(Bytes)
    <3>1. Len(done[c]) <= Len(done[c])
      BY <2>4
    <3>2. old \in Seq(Seq(Bytes))
      BY <2>4, <3>1, ReplyFramesFirst
    <3>3. ReplyFrame(r) \in Seq(Bytes)
      BY <2>3, FramesTypes
    <3> QED
      BY <2>3, <2>4, <3>2, <3>3, ReplyFramesAppend
  <2> HIDE DEF old
  <2>7. FlattenSeq(Append(old, ReplyFrame(r))) = Join(FlattenSeq(old), ReplyFrame(r))
    BY <2>6, FlattenAppend DEF Join
  <2>8. c \notin left => Join(heard[c], down[c]) = FlattenSeq(old)
    <3>1. Join(heard[c], down[c]) \in Seq(Bytes)
      BY <1>0, TypesOf, JoinProperties
    <3>2. c \notin left => Join(Join(heard[c], down[c]), <<>>) = FlattenSeq(old)
      BY <1>0, <2>2 DEF FlowsOf, Flows, old
    <3> QED
      BY <3>1, <3>2, JoinNothing
  <2>9. ~IsComplete(heard'[c])
    BY <1>0, <2>2 DEF FlowsOf, Flows
  <2>10. CASE HandleDrop(c, i) /\ Hangup(c, behind)
    <3>1. /\ writer' = [writer EXCEPT ![c] = <<>>] /\ up' = [up EXCEPT ![c] = <<>>]
          /\ \E x \in {"fin", "rst"} : served' = [served EXCEPT ![c] = x]
      BY <2>10 DEF HandleDrop, Hangup
    <3>2. served'[c] # "open"
      BY <1>0, <3>1 DEF Types
    <3>3. c \notin left => IsPrefix(Join(heard[c], down[c]), FlattenSeq(old))
      <4>1. heard[c] \in Seq(Bytes) /\ down[c] \in Seq(Bytes) /\ Join(heard[c], down[c]) \in Seq(Bytes)
        BY <1>0, TypesOf, JoinProperties
      <4>2. Join(Join(heard[c], down[c]), <<>>) = Join(heard[c], down[c])
        BY <4>1, JoinNothing
      <4>3. IsPrefix(Join(heard[c], down[c]), Join(heard[c], down[c]))
        BY <1>3, <4>1, <4>2, PrefixOfJoin
      <4> QED
        BY <2>8, <4>3
    <3>4. Len(answers[c]) < Len(done'[c]) /\ Len(done'[c]) - 1 = Len(done[c])
      BY <2>4, <2>5
    <3>5. FlowsOf(c)'
      BY <1>3, <2>2, <2>4, <2>6, <2>9, <3>2, <3>3, <3>4 DEF FlowsOf, Flows
    <3> QED
      BY <1>0, <1>1, <2>2, <3>1, <3>5 DEF Types
  <2>11. CASE /\ writer' = [writer EXCEPT ![c] = ReplyFrame(r)]
              /\ up' = [up EXCEPT ![c] = behind]
              /\ UNCHANGED <<clients, down, peer, served>>
    <3>1. writer'[c] = ReplyFrame(r) /\ up'[c] = behind
      BY <1>0, <2>11 DEF Types
    <3>2. Join(reader'[c], up'[c]) = behind
      BY <2>2, <2>4, <3>1, JoinNothing
    <3>3. /\ IsPrefix(behind, FlattenSeq(RequestFrames(asked[c], Len(done[c]) + 1)))
          /\ c \notin left => Join(behind, out[c]) = FlattenSeq(RequestFrames(asked[c], Len(done[c]) + 1))
      BY <2>1 DEF RunsCommand
    <3>4. c \notin left => Join(Join(heard[c], down[c]), ReplyFrame(r)) =
                             FlattenSeq(ReplyFrames(done'[c], Len(answers[c]), Len(done[c]) + 1))
      BY <2>6, <2>7, <2>8
    <3>5. FlowsOf(c)'
      BY <1>3, <2>2, <2>4, <2>5, <2>9, <2>11, <3>1, <3>2, <3>3, <3>4 DEF FlowsOf, Flows
    <3> QED
      BY <1>0, <1>1, <2>2, <2>11, <3>5 DEF Types
  <2> QED
    BY <2>1, <2>10, <2>11 DEF RunsCommand, r
<1>10. ASSUME NEW c \in Clients, NEW i \in 1 .. Len(clients), WriteAnswer(c, i), UNCHANGED clientVars
       PROVE  Streams'
  <2> DEFINE free == BufferSize - Len(down[c])
             n == IF Len(writer[c]) < free THEN Len(writer[c]) ELSE free
             sent == SubSeq(writer[c], 1, n)
             unsent == SubSeq(writer[c], n + 1, Len(writer[c]))
  <2>1. /\ down' = [down EXCEPT ![c] = Join(@, sent)] /\ writer' = [writer EXCEPT ![c] = unsent]
        /\ UNCHANGED <<reader, done, up, served, out, heard, asked, answers, left>>
    BY <1>10 DEF WriteAnswer, clientVars, Join
  <2>2. /\ down[c] \in Seq(Bytes) /\ writer[c] \in Seq(Bytes) /\ heard[c] \in Seq(Bytes)
        /\ Len(down[c]) \in Nat /\ Len(writer[c]) \in Nat /\ Len(down[c]) <= BufferSize
    BY <1>0, TypesOf, LenProperties DEF Types
  <2>3. n \in Nat /\ n <= Len(writer[c])
    BY <2>2, BufferAssumption
  <2> HIDE DEF n
  <2>9. Moved(heard[c], down[c], writer[c], n)
    BY <2>2, <2>3, JoinMoved
  <2>4. Join(Join(heard[c], Join(down[c], sent)), unsent) = Join(Join(heard[c], down[c]), writer[c])
    BY <2>9, Zenon DEF Moved
  <2> HIDE DEF sent, unsent
  <2>5. down'[c] = Join(down[c], sent) /\ writer'[c] = unsent
    BY <1>0, <2>1 DEF Types
  <2>6. served[c] = "open"
    BY <1>10, Handled DEF WriteAnswer
  <2>7. FlowsOf(c)
    BY <1>0
  <2>8. FlowsOf(c)'
    BY <2>1, <2>4, <2>5, <2>6, <2>7 DEF FlowsOf, Flows
  <2> QED
    BY <1>0, <1>1, <2>1, <2>8 DEF Types
<1>11. ASSUME NEW c \in Clients, NEW l \in Lines, Ask(c, l)
       PROVE  Streams'
  <2> DEFINE frame == RequestFrame(l)
             old == RequestFrames(asked[c], Len(done[c]))
  <2>1. /\ asked' = [asked EXCEPT ![c] = Append(@, l)] /\ out' = [out EXCEPT ![c] = frame]
        /\ out[c] = <<>> /\ c \notin left
        /\ UNCHANGED <<reader, writer, done, up, down, served, heard, answers, left>>
    BY <1>11 DEF Ask, Active, RequestFrame, serverVars, connectionVars
  <2>2. /\ asked'[c] = Append(asked[c], l) /\ out'[c] = frame /\ asked[c] \in Seq(Lines)
        /\ Len(done[c]) \in Nat /\ Len(done[c]) <= Len(asked[c])
    BY <1>0, <2>1, LenProperties DEF Types, History
  <2>3. /\ RequestFrames(asked'[c], Len(done[c])) = Append(old, frame)
        /\ old \in Seq(Seq(Bytes)) /\ frame \in Seq(Bytes)
    BY <2>2, RequestFramesAppend, RequestFramesFirst, FramesTypes, ZenonT(30)
  <2> HIDE DEF frame, old
  <2>4. FlattenSeq(Append(old, frame)) = Join(FlattenSeq(old), frame)
    BY <2>3, FlattenAppend DEF Join
  <2>5. FlowsOf(c)
    BY <1>0
  <2>6. CASE served[c] = "open"
    <3>1. Join(Join(reader[c], up[c]), <<>>) = FlattenSeq(old)
      BY <2>1, <2>5, <2>6 DEF FlowsOf, Flows, old
    <3>2. Join(reader[c], up[c]) \in Seq(Bytes)
      BY <1>0, TypesOf, JoinProperties
    <3>3. FlattenSeq(Append(old, frame)) = Join(Join(reader[c], up[c]), frame)
      BY <2>4, <3>1, <3>2, JoinNothing
    <3>4. IsPrefix(Join(reader[c], up[c]), FlattenSeq(Append(old, frame)))
      BY <2>3, <3>2, <3>3, PrefixOfJoin
    <3>5. FlowsOf(c)'
      BY <2>1, <2>2, <2>3, <2>5, <2>6, <3>3, <3>4 DEF FlowsOf, Flows
    <3> QED
      BY <1>0, <1>1, <2>1, <3>5 DEF Types
  <2>7. CASE served[c] # "open"
    <3>1. FlowsOf(c)'
      BY <2>1, <2>5, <2>7 DEF FlowsOf, Flows
    <3> QED
      BY <1>0, <1>1, <2>1, <3>1 DEF Types
  <2> QED
    BY <2>6, <2>7
<1>12. ASSUME NEW c \in Clients, Send(c)
       PROVE  Streams'
  <2>1. PICK n \in 1 .. Len(out[c]) :
          /\ up' = [up EXCEPT ![c] = Join(@, SubSeq(out[c], 1, n))]
          /\ out' = [out EXCEPT ![c] = SubSeq(@, n + 1, Len(@))]
    BY <1>12 DEF Send, Join
  <2> DEFINE sent == SubSeq(out[c], 1, n)
             unsent == SubSeq(out[c], n + 1, Len(out[c]))
  <2>2. /\ served[c] = "open" /\ c \notin left
        /\ UNCHANGED <<reader, writer, done, down, served, heard, asked, answers, left>>
    BY <1>12 DEF Send, Active, serverVars
  <2>3. /\ reader[c] \in Seq(Bytes) /\ up[c] \in Seq(Bytes) /\ out[c] \in Seq(Bytes)
        /\ n \in Nat /\ n <= Len(out[c])
    BY <1>0, TypesOf, LenProperties
  <2>12. Moved(reader[c], up[c], out[c], n)
    BY <2>3, JoinMoved
  <2>4. Join(Join(reader[c], Join(up[c], sent)), unsent) = Join(Join(reader[c], up[c]), out[c])
    BY <2>12, Zenon DEF Moved
  <2>5. up'[c] = Join(up[c], sent) /\ out'[c] = unsent
    BY <1>0, <2>1 DEF Types
  <2>6. reader'[c] \in Seq(Bytes) /\ up'[c] \in Seq(Bytes) /\ out'[c] \in Seq(Bytes)
    BY <1>0 DEF Types
  <2> HIDE DEF sent, unsent
  <2>7. FlowsOf(c)
    BY <1>0
  <2>8. Join(Join(reader'[c], up'[c]), out'[c]) = FlattenSeq(RequestFrames(asked[c], Len(done[c])))
    BY <2>2, <2>4, <2>5, <2>7 DEF FlowsOf, Flows
  <2>9. Join(reader'[c], up'[c]) \in Seq(Bytes)
    BY <2>6, JoinProperties
  <2>10. IsPrefix(Join(reader'[c], up'[c]), FlattenSeq(RequestFrames(asked[c], Len(done[c]))))
    BY <2>6, <2>8, <2>9, PrefixOfJoin
  <2>11. FlowsOf(c)'
    BY <2>2, <2>7, <2>8, <2>10 DEF FlowsOf, Flows
  <2> QED
    BY <1>0, <1>1, <2>1, <2>2, <2>11 DEF Types
<1>13. ASSUME NEW c \in Clients, Receive(c)
       PROVE  Streams'
  <2>1. /\ c \notin left /\ UNCHANGED <<reader, up, out, writer, asked, done, served, left>>
    BY <1>13 DEF Receive, Active, serverVars
  <2>2. FlowsOf(c)
    BY <1>0
  <2>3. CASE IsComplete(Heard(c))
    <3> DEFINE behind == Behind(Heard(c))
    <3>1. PICK n \in Nat, rest \in Seq(Bytes) :
            /\ Len(answers[c]) < n
            /\ IF served[c] = "open" THEN n = Len(done[c]) /\ rest = writer[c] ELSE n = Len(done[c]) - 1
            /\ MessageOf(Heard(c)) \in Outputs /\ behind \in Seq(Bytes)
            /\ Join(behind, rest) = FlattenSeq(ReplyFrames(done[c], Len(answers[c]) + 1, n))
      BY <2>1, <2>3, AnswerComes
    <3>2. /\ answers' = [answers EXCEPT ![c] = Append(@, MessageOf(Heard(c)))]
          /\ heard' = [heard EXCEPT ![c] = <<>>] /\ down' = [down EXCEPT ![c] = behind]
      BY <1>13, <2>3 DEF Receive
    <3> HIDE DEF behind
    <3>3. /\ heard'[c] = <<>> /\ down'[c] = behind
          /\ answers'[c] = Append(answers[c], MessageOf(Heard(c)))
          /\ answers[c] \in Seq(Outputs) /\ Len(answers[c]) \in Nat /\ Len(done[c]) \in Nat
      BY <1>0, <3>2, LenProperties DEF Types
    <3>4. Len(answers'[c]) = Len(answers[c]) + 1 /\ Join(heard'[c], down'[c]) = behind
      BY <3>1, <3>3, AppendProperties, JoinNothing
    <3>5. IsPrefix(behind, Join(behind, rest))
      BY <3>1, PrefixOfJoin
    <3>6. CASE served[c] = "open"
      <4>1. Join(behind, writer[c]) = FlattenSeq(ReplyFrames(done[c], Len(answers[c]) + 1, Len(done[c])))
        BY <3>1, <3>6
      <4>2. FlowsOf(c)'
        BY <1>3, <2>1, <2>2, <3>3, <3>4, <3>6, <4>1 DEF FlowsOf, Flows
      <4> QED
        BY <1>0, <1>1, <2>1, <3>2, <4>2 DEF Types
    <3>7. CASE served[c] # "open"
      <4>1. Len(answers[c]) + 1 < Len(done[c]) /\ n = Len(done[c]) - 1
        BY <3>1, <3>3, <3>7
      <4>2. IsPrefix(behind, FlattenSeq(ReplyFrames(done[c], Len(answers[c]) + 1, Len(done[c]) - 1)))
        BY <3>1, <3>5, <4>1
      <4>3. FlowsOf(c)'
        BY <1>3, <2>1, <2>2, <3>3, <3>4, <3>7, <4>1, <4>2 DEF FlowsOf, Flows
      <4> QED
        BY <1>0, <1>1, <2>1, <3>2, <4>3 DEF Types
    <3> QED
      BY <3>6, <3>7
  <2>4. CASE ~IsComplete(Heard(c))
    <3>1. /\ heard' = [heard EXCEPT ![c] = Heard(c)] /\ down' = [down EXCEPT ![c] = <<>>]
          /\ answers' = answers
      BY <1>13, <2>4 DEF Receive
    <3>2. heard'[c] = Join(heard[c], down[c]) /\ down'[c] = <<>> /\ ~IsComplete(Join(heard[c], down[c]))
      BY <1>0, <2>4, <3>1, TypesOf DEF Types
    <3>3. Join(heard'[c], down'[c]) = Join(heard[c], down[c])
      <4>1. Join(heard[c], down[c]) \in Seq(Bytes)
        BY <1>0, TypesOf, JoinProperties
      <4> QED
        BY <3>2, <4>1, JoinNothing
    <3>4. FlowsOf(c)'
      BY <2>1, <2>2, <3>1, <3>2, <3>3 DEF FlowsOf, Flows
    <3> QED
      BY <1>0, <1>1, <2>1, <3>1, <3>4 DEF Types
  <2> QED
    BY <2>3, <2>4
<1>14. ASSUME NEW c \in Clients, CloseSocket(c)
       PROVE  Streams'
  <2>1. /\ left' = left \cup {c}
        /\ down' = [down EXCEPT ![c] = <<>>] /\ out' = [out EXCEPT ![c] = <<>>]
        /\ heard' = [heard EXCEPT ![c] = <<>>]
        /\ UNCHANGED <<reader, writer, done, up, served, asked, answers>>
    BY <1>14 DEF CloseSocket, serverVars
  <2>2. heard'[c] = <<>> /\ c \in left'
    BY <1>0, <2>1 DEF Types
  <2>3. FlowsOf(c)
    BY <1>0
  <2>4. FlowsOf(c)'
    BY <1>3, <2>1, <2>2, <2>3 DEF FlowsOf, Flows
  <2> QED
    BY <1>0, <1>1, <2>1, <2>4 DEF Types
<1> QED
  BY <1>4, <1>5, <1>6, <1>7, <1>8, <1>9, <1>10, <1>11, <1>12, <1>13, <1>14, Steps

-----------------------------------------------------------------------------
(* The invariant holds.                                                    *)

\* Nothing has been sent at the beginning.
LEMMA InitInv == Init => Inv
<1> SUFFICES ASSUME Init PROVE Inv
  OBVIOUS
<1> USE DEF Init, ServerInit, ConnectionInit
<1>1. \A S : <<>> \in Seq(S) /\ Len(<<>>) = 0 /\ Range(<<>>) = {} /\ IsInjective(<<>>)
  BY EmptySeq, LenProperties DEF Range, IsInjective
<1>2. Types
  <2>1. store \in Store
    BY DEF Store
  <2> QED
    BY <1>1, <2>1, BufferAssumption DEF Types
<1>3. Sessions
  BY <1>1, BufferAssumption DEF Sessions
<1>4. EventsStand
  BY DEF EventsStand
<1>5. History
  BY <1>1 DEF History
<1>6. Streams
  <2>1. ASSUME NEW c \in Clients PROVE FlowsOf(c)
    <3>1. RequestFrames(<<>>, 0) = <<>> /\ ReplyFrames(<<>>, 0, 0) = <<>>
      <4>1. 0 \in Nat /\ 0 <= 0 /\ 0 <= Len(<<>>)
        BY <1>1
      <4>2. <<>> \in Seq(Lines) /\ <<>> \in Seq(Ran)
        BY <1>1
      <4>3. /\ RequestFrames(<<>>, 0) \in Seq(Seq(Bytes)) /\ Len(RequestFrames(<<>>, 0)) = 0
            /\ ReplyFrames(<<>>, 0, 0) \in Seq(Seq(Bytes)) /\ Len(ReplyFrames(<<>>, 0, 0)) = 0
        <5>1. PICK a \in Seq(Lines), d \in Seq(Ran), z \in Nat :
                a = <<>> /\ d = <<>> /\ z = 0 /\ z <= z /\ z <= Len(a) /\ z <= Len(d) /\ Len(a) = 0
          BY <1>1, <4>1, <4>2
        <5>2. RequestFrames(a, z) \in Seq(Seq(Bytes)) /\ Len(RequestFrames(a, z)) = Len(a) - z
          BY <5>1, RequestFramesFirst
        <5>3. ReplyFrames(d, z, z) \in Seq(Seq(Bytes)) /\ Len(ReplyFrames(d, z, z)) = z - z
          BY <5>1, ReplyFramesFirst, ZenonT(30)
        <5> QED
          BY <5>1, <5>2, <5>3
      <4> QED
        BY <4>3, EmptySeq
    <3>2. FlattenSeq(RequestFrames(<<>>, 0)) = <<>> /\ FlattenSeq(ReplyFrames(<<>>, 0, 0)) = <<>>
      BY <3>1, FlattenEmpty
    <3>3. Join(<<>>, <<>>) = <<>>
      BY <1>1, JoinNothing
    <3>4. IsPrefix(<<>>, <<>>)
      BY <1>1, <3>3, PrefixOfJoin
    <3>5. Flows(<<>>, <<>>, <<>>, <<>>, <<>>, <<>>, <<>>, <<>>, <<>>, TRUE, FALSE)
      BY <1>1, <3>2, <3>3, <3>4, NothingIsIncomplete DEF Flows
    <3>6. /\ reader[c] = <<>> /\ up[c] = <<>> /\ out[c] = <<>> /\ writer[c] = <<>>
          /\ heard[c] = <<>> /\ down[c] = <<>>
          /\ asked[c] = <<>> /\ done[c] = <<>> /\ answers[c] = <<>>
          /\ served[c] = "open" /\ c \notin left
      OBVIOUS
    <3> QED
      BY <3>5, <3>6 DEF FlowsOf, Flows
  <2> QED
    BY <2>1, StreamsFlow
<1> QED
  BY <1>2, <1>3, <1>4, <1>5, <1>6 DEF Inv

\* The invariant is inductive, and so holds of whatever the server and its
\* clients do, whatever the clients, the lines, the sizes and the buffers.
THEOREM Invariance == Spec => []Inv
<1>1. Init => Inv
  BY InitInv
<1>2. Inv /\ [Next]_vars => Inv'
  BY TypesStep, SessionsStep, EventsStandStep, HistoryStep, StreamsStep DEF Inv
<1> QED
  BY <1>1, <1>2, PTL DEF Spec

\* Every variable of the server and its clients has the values of its C++
\* counterpart: no buffer holds more than it can, no more clients are served
\* than there are descriptors for, and who is served has connected.
THEOREM TypeCorrect == Spec => []TypeOK
<1>1. Inv => TypeOK
  <2> SUFFICES ASSUME Inv PROVE TypeOK
    OBVIOUS
  <2>1. store \in [Words -> Words \cup {NoValue}]
    BY DEF Inv, Types, Store
  <2>2. /\ Range(clients) \cup Range(backlog) \subseteq connected
        /\ Len(clients) <= DescriptorLimit /\ left \subseteq connected
    BY DEF Inv, Sessions
  <2>3. ASSUME NEW c \in Clients
        PROVE  /\ Range(reader[c]) \cup Range(writer[c]) \cup Range(up[c]) \cup Range(down[c])
                    \cup Range(out[c]) \cup Range(heard[c]) \subseteq Bytes
               /\ Len(up[c]) <= BufferSize /\ Len(down[c]) <= BufferSize
               /\ {peer[c], served[c]} \subseteq {"open", "fin", "rst"}
    <3>1. ASSUME NEW s \in Seq(Bytes) PROVE Range(s) \subseteq Bytes
      BY LenProperties, ElementOfSeq DEF Range
    <3>2. /\ Range(reader[c]) \subseteq Bytes /\ Range(writer[c]) \subseteq Bytes
          /\ Range(up[c]) \subseteq Bytes /\ Range(down[c]) \subseteq Bytes
          /\ Range(out[c]) \subseteq Bytes /\ Range(heard[c]) \subseteq Bytes
      BY <3>1, TypesOf DEF Inv
    <3>3. Len(up[c]) <= BufferSize /\ Len(down[c]) <= BufferSize
      BY DEF Inv, Types
    <3>4. {peer[c], served[c]} \subseteq {"open", "fin", "rst"}
      BY DEF Inv, Types
    <3> QED
      BY <3>2, <3>3, <3>4
  <2> QED
    BY <2>1, <2>2, <2>3 DEF TypeOK
<1> QED
  BY <1>1, Invariance, PTL

\* While the loop over the clients erases some of them, the index it comes to
\* next still is that of the client whose descriptor was polled.
THEOREM EventsAreTheirClients == Spec => []EventsOfTheirClient
<1>1. Inv => EventsOfTheirClient
  <2> SUFFICES ASSUME Inv, NEW d \in polled PROVE d.index <= Len(clients) /\ clients[d.index] = d.fd
    BY DEF EventsOfTheirClient
  <2>1. d.index \in 1 .. Len(clients) /\ clients[d.index] = d.fd
    BY DEF Inv, EventsStand
  <2> QED
    BY <2>1
<1> QED
  BY <1>1, Invariance, PTL

\* A sequence without repetitions holds a value once or not at all.
LEMMA OnceOrNever ==
  ASSUME NEW q \in Seq(Clients), IsInjective(q), NEW c
  PROVE  Cardinality({i \in 1 .. Len(q) : q[i] = c}) = IF c \in Range(q) THEN 1 ELSE 0
<1>1. DOMAIN q = 1 .. Len(q)
  BY LenProperties
<1>2. CASE c \in Range(q)
  <2>1. PICK k \in 1 .. Len(q) : q[k] = c
    BY <1>1, <1>2 DEF Range
  <2>2. {i \in 1 .. Len(q) : q[i] = c} = {k}
    BY <1>1, <2>1 DEF IsInjective
  <2> QED
    BY <1>2, <2>2, FS_Singleton
<1>3. CASE c \notin Range(q)
  <2>1. {i \in 1 .. Len(q) : q[i] = c} = {}
    BY <1>1, <1>3 DEF Range
  <2> QED
    BY <1>3, <2>1, FS_EmptySet
<1> QED
  BY <1>2, <1>3

\* A client is waiting, accepted or gone, and never two of these: accept()
\* takes each connection once and erasing a client erases no other.
THEOREM EachConnectedOnce == Spec => []ConnectedOnce
<1>1. Inv => ConnectedOnce
  <2> SUFFICES ASSUME Inv, NEW c \in connected
               PROVE  Cardinality({i \in 1 .. Len(backlog) : backlog[i] = c}) +
                      Cardinality({i \in 1 .. Len(clients) : clients[i] = c})
                        = IF served[c] = "open" THEN 1 ELSE 0
    BY DEF ConnectedOnce
  <2>1. /\ Cardinality({i \in 1 .. Len(backlog) : backlog[i] = c}) = IF c \in Range(backlog) THEN 1 ELSE 0
        /\ Cardinality({i \in 1 .. Len(clients) : clients[i] = c}) = IF c \in Range(clients) THEN 1 ELSE 0
    BY OnceOrNever DEF Inv, Types, Sessions
  <2>2. /\ ~(c \in Range(backlog) /\ c \in Range(clients))
        /\ c \in Range(backlog) \/ c \in Range(clients) <=> served[c] = "open"
    BY DEF Inv, Sessions
  <2> QED
    BY <2>1, <2>2
<1> QED
  BY <1>1, Invariance, PTL

\* Between a client and the server no byte is lost, repeated or put in another
\* place, wherever the sockets cut a message and however many commands are in
\* flight: what is on its way are the frames of the commands that have not run
\* and of the outputs that have not been heard.
THEOREM NoByteLost == Spec => []BytesAccountedFor
<1>1. Inv => BytesAccountedFor
  BY DEF Inv, Streams, BytesAccountedFor, Active
<1> QED
  BY <1>1, Invariance, PTL

-----------------------------------------------------------------------------
(* The server and its clients are a service.                               *)

\* The service splits a line into the words that the server does.
LEMMA SameTokens == \A line : Service!Tokens(line) = Tokens(line)
BY DEF Service!Tokens, Tokens, Service!NextToken, NextToken, Service!Skip, Skip, Service!Min, Min

\* It asks for as many arguments.
LEMMA SameRequiredArgs == \A name : Service!RequiredArgs(name) = RequiredArgs(name)
BY DEF Service!RequiredArgs, RequiredArgs

\* It finds the same command.
LEMMA SameParse == \A tokens : Service!Parse(tokens) = Parse(tokens)
BY SameRequiredArgs
   DEF Service!Parse, Parse, Service!Names, Names, Service!MaxArgs, MaxArgs, Service!Command, Command

\* The builtins have the same results.
LEMMA SameExecute == \A name, args, s : Service!Execute(name, args, s) = Execute(name, args, s)
BY DEF Service!Execute, Execute, Service!Result, Result

\* So a command has the same result and leaves the same store.
LEMMA SameRunCommand == \A line, s : Service!RunCommand(line, s) = RunCommand(line, s)
BY SameTokens, SameParse, SameExecute
   DEF Service!RunCommand, RunCommand, Service!Rejected, Rejected, Service!Result, Result

\* The sessions that the server has ended.
Closed == {c \in Clients : served[c] # "open"}

\* A session is over once the server's end is closed.
LEMMA ClosedWith ==
  ASSUME Types, NEW c \in Clients, NEW x \in {"fin", "rst"}, served' = [served EXCEPT ![c] = x]
  PROVE  Closed' = Closed \cup {c}
<1>1. served'[c] # "open" /\ \A b \in Clients : b # c => served'[b] = served[b]
  BY DEF Types
<1> QED
  BY <1>1 DEF Closed

\* A command that runs is the next one of the session, and ends it only if it
\* is exit or if its output is too long.
LEMMA RunImplements ==
  ASSUME Inv, NEW c \in Clients, NEW i \in 1 .. Len(clients), ReadCommand(c, i), UNCHANGED clientVars
  PROVE  Service!Run(c)
<1>1. PICK l, result, behind : RunsCommand(c, i, l, result, behind)
  BY CommandRuns
<1> DEFINE ends == result.stop \/ AnswerSize[l, result.output] > MaxMessage
<1>2. /\ l = asked[c][Len(done[c]) + 1] /\ Len(done[c]) < Len(asked[c])
      /\ result = RunCommand(l, store)
      /\ store' = result.store
      /\ done' = [done EXCEPT ![c] = Append(@, [line |-> l, output |-> result.output])]
      /\ served[c] = "open"
      /\ \/ ends /\ Hangup(c, behind)
         \/ ~ends /\ UNCHANGED served
  BY <1>1, Zenon DEF RunsCommand
<1> HIDE DEF ends
<1>3. Closed' = IF ends THEN Closed \cup {c} ELSE Closed
  <2>1. CASE ends
    <3>1. PICK x \in {"fin", "rst"} : served' = [served EXCEPT ![c] = x]
      BY <1>2, <2>1 DEF Hangup
    <3> QED
      BY <2>1, <3>1, ClosedWith DEF Inv
  <2>2. CASE ~ends
    BY <1>2, <2>2 DEF Closed
  <2> QED
    BY <2>1, <2>2
<1>4. UNCHANGED <<asked, answers, left>>
  BY DEF clientVars
<1>5. Service!RunCommand(asked[c][Len(done[c]) + 1], store) = result
  BY <1>2, SameRunCommand
<1>6. c \notin Closed
  BY <1>2 DEF Closed
<1>7. done' = [done EXCEPT ![c] = Append(@, [line |-> asked[c][Len(done[c]) + 1], output |-> result.output])]
  BY <1>2
<1>8. Closed' = IF result.stop \/ AnswerSize[asked[c][Len(done[c]) + 1], result.output] > MaxMessage
                 THEN Closed \cup {c} ELSE Closed
  BY <1>2, <1>3, Zenon DEF ends
<1> QED
  BY <1>2, <1>4, <1>5, <1>6, <1>7, <1>8, Zenon DEF Service!Run, Closed

\* The server gives up a session only after its client has left.
LEMMA CloseImplements ==
  ASSUME Inv, NEW c \in Clients, NEW i \in 1 .. Len(clients), c \in left, GivesUp(c, i), UNCHANGED clientVars
  PROVE  Service!Close(c)
<1>1. c \notin Closed
  BY Handled DEF GivesUp, Closed
<1>2. PICK x \in {"fin", "rst"} : served' = [served EXCEPT ![c] = x]
  BY DEF GivesUp, Hangup
<1>3. Closed' = Closed \cup {c}
  BY <1>2, ClosedWith DEF Inv
<1>4. UNCHANGED <<store, asked, done, answers, left>>
  BY DEF GivesUp, clientVars
<1> QED
  BY <1>1, <1>3, <1>4 DEF Service!Close, Closed

\* What a client receives is the output of the first command without an answer,
\* or a part of it.
LEMMA AnswerImplements ==
  ASSUME Inv, NEW c \in Clients, Receive(c)
  PROVE  Service!Answer(c) \/ UNCHANGED Service!vars
<1>1. UNCHANGED <<store, asked, done, left, served>> /\ c \notin left
  BY DEF Receive, Active, serverVars
<1>2. Closed' = Closed
  BY <1>1 DEF Closed
<1>3. CASE IsComplete(Heard(c))
  <2>1. PICK n \in Nat :
          /\ n <= Len(done[c]) /\ Len(answers[c]) < n
          /\ served[c] # "open" => n = Len(done[c]) - 1
          /\ MessageOf(Heard(c)) = done[c][Len(answers[c]) + 1].output
    BY <1>1, <1>3, AnswerComes
  <2>2. Len(answers[c]) \in Nat /\ Len(done[c]) \in Nat
    BY LenProperties DEF Inv, Types
  <2>3. Len(answers[c]) < Len(done[c])
    BY <2>1, <2>2
  <2>4. c \in Closed => Len(answers[c]) + 1 < Len(done[c])
    <3>1. ASSUME c \in Closed PROVE n = Len(done[c]) - 1
      BY <2>1, <3>1 DEF Closed
    <3> QED
      BY <2>1, <2>2, <3>1
  <2>5. answers' = [answers EXCEPT ![c] = Append(@, done[c][Len(answers[c]) + 1].output)]
    BY <1>3, <2>1 DEF Receive
  <2>6. Service!Answer(c)
    BY <1>1, <1>2, <2>3, <2>4, <2>5 DEF Service!Answer, Closed
  <2> QED
    BY <2>6
<1>4. CASE ~IsComplete(Heard(c))
  BY <1>1, <1>2, <1>4 DEF Receive, Service!vars, Closed
<1> QED
  BY <1>3, <1>4

\* The server and its clients, with all their bytes, buffers and polling, are
\* the service: each session runs its commands one at a time, each once and in
\* the order they were sent, and gets their outputs in that order; the server
\* ends no session but with exit, with an output that is too long, or after the
\* client has left.
THEOREM ServerImplementsService == Spec => ImplementsService
<1>1. Init => Service!Init
  BY DEF Init, ServerInit, ConnectionInit, Service!Init
<1>2. Inv /\ [Next]_vars => [Service!Next]_(Service!vars)
  <2> SUFFICES ASSUME Inv, [Next]_vars PROVE Service!Next \/ UNCHANGED Service!vars
    OBVIOUS
  <2>1. ASSUME UNCHANGED <<store, asked, done, answers, left, served>>
        PROVE  UNCHANGED Service!vars
    BY <2>1 DEF Service!vars
  <2>2. CASE UNCHANGED vars
    BY <2>1, <2>2 DEF vars, serverVars, connectionVars, clientVars
  <2>3. CASE UNCHANGED clientVars /\ (Poll \/ AcceptClients)
    BY <2>1, <2>3 DEF Poll, AcceptClients, connectionVars, clientVars
  <2>4. ASSUME NEW c \in Clients, NEW i \in 1 .. Len(clients), c \in left, GivesUp(c, i), UNCHANGED clientVars
        PROVE  Service!Next
    BY <2>4, CloseImplements DEF Service!Next
  <2>5. ASSUME NEW c \in Clients, NEW i \in 1 .. Len(clients), ReadCommand(c, i), UNCHANGED clientVars
        PROVE  Service!Next
    BY <2>5, RunImplements DEF Service!Next
  <2>6. ASSUME NEW c \in Clients, NEW i \in 1 .. Len(clients), ReadIncomplete(c, i) \/ WriteAnswer(c, i),
               UNCHANGED clientVars
        PROVE  UNCHANGED Service!vars
    BY <2>1, <2>6 DEF ReadIncomplete, WriteAnswer, clientVars
  <2>7. ASSUME NEW c \in Clients, Connect(c) \/ Send(c) \/ Reset(c)
        PROVE  UNCHANGED Service!vars
    BY <2>1, <2>7 DEF Connect, Send, Reset, serverVars, connectionVars, clientVars
  <2>8. ASSUME NEW c \in Clients, NEW l \in Lines, Ask(c, l)
        PROVE  Service!Next
    <3>1. Service!Ask(c, l)
      BY <2>8 DEF Ask, Active, serverVars, connectionVars, Service!Ask
    <3> QED
      BY <3>1 DEF Service!Next
  <2>9. ASSUME NEW c \in Clients, Receive(c)
        PROVE  Service!Next \/ UNCHANGED Service!vars
    BY <2>9, AnswerImplements DEF Service!Next
  <2>10. ASSUME NEW c \in Clients, c \in connected \ left, CloseSocket(c)
         PROVE  Service!Next
    <3>1. Service!Leave(c)
      BY <2>10 DEF CloseSocket, serverVars, Service!Leave
    <3> QED
      BY <3>1 DEF Service!Next
  <2> QED
    BY <2>2, <2>3, <2>4, <2>5, <2>6, <2>7, <2>8, <2>9, <2>10, Steps
<1> QED
  BY <1>1, <1>2, Invariance, PTL DEF Spec, Service!Spec, ImplementsService
=============================================================================
