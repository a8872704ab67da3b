--------------------------- MODULE RedirectProofs --------------------------
(***************************************************************************)
(* The safety properties of Redirect.tla for any lengths, any number of    *)
(* retries and faults, and a sequence space of any size that is large      *)
(* enough: what is on the three wires, and in which order.                 *)
(***************************************************************************)
EXTENDS Redirect, SequenceTheorems, TLAPS

-----------------------------------------------------------------------------
(* The invariant *)

\* The numbers the connection starts with.
S0 == SeqMod - 2
R0 == SeqMod - 3

\* How much the client has sent.
Sent == IF client.kind = "none" THEN 0
        ELSE IF client.more THEN ReqLen + RestLen ELSE ReqLen

Numbers == 0 .. SeqMod - 1

Segments == [kind : {"ack", "get", "post", "rest", "bye", "rst", "forged", "page"},
             seq : Numbers, ack : Numbers, len : Nat]

Requests == {"get", "post"}

Typed ==
    /\ site \in [driver : {"ntrack", "nos"}, bridged : BOOLEAN]
    /\ client \in [st : {"open", "done", "mixed", "served", "reset", "gaveup"},
                   kind : {"none"} \cup Requests, more : BOOLEAN, tries : Nat,
                   snd : Numbers, una : Numbers, rcv : Numbers]
    /\ server \in [st : {"open", "answered", "closed"}, snd : Numbers, rcv : Numbers]
    /\ faults \in Nat
    /\ exposed \in BOOLEAN

\* The client has sent its request, or a part of it, and nobody has touched
\* its numbers while it waits.
ClientInv ==
    /\ client.kind = "none" => ~client.more
    /\ client.snd = Plus(S0, Sent)
    /\ client.st = "open" => client.una = S0 /\ client.rcv = R0

\* What the client sends: the last packet of the handshake, the request from
\* its beginning, the rest, and its answer to a FIN.
FromClient(p) ==
    \/ p.kind = "ack" /\ p.seq = S0 /\ p.ack = R0 /\ p.len = 0
    \/ /\ p.kind \in Requests /\ p.seq = S0 /\ p.ack = R0
       /\ p.len \in {ReqLen, ReqLen + RestLen} /\ p.len <= Sent
    \/ p.kind = "rest" /\ p.seq = Plus(S0, ReqLen) /\ p.ack = R0 /\ p.len = RestLen
    \/ p.kind = "bye" /\ p.len = 0 /\ client.st # "open"

\* What reaches the server: the same and the resets of the driver; with nos
\* nothing but resets and what a client sends that is not waiting.
ToServer(p) ==
    /\ FromClient(p) \/ (p.kind = "rst" /\ p.seq = S0)
    /\ site.driver = "nos" => p.kind \in {"rst", "bye"}

\* What reaches the client.  A forged answer acknowledges some of what the
\* client has sent.
ToClient(p) ==
    \/ /\ p.kind = "forged" /\ p.seq = R0
       /\ \E a \in 0 .. Sent : /\ p.ack = Plus(S0, a)
                               /\ site.driver = "ntrack" => a # 0
    \/ p.kind = "page"
    \/ /\ p.kind = "rst" /\ server.st = "closed"
       /\ site.driver = "nos" => client.st # "open"

UpSegs == {p \in Segments : FromClient(p)}
WanSegs == {p \in Segments : ToServer(p)}
DownSegs == {p \in Segments : ToClient(p)}

WireInv == up \in Seq(UpSegs) /\ wan \in Seq(WanSegs) /\ down \in Seq(DownSegs)

\* Every request has a reset before it.
Guarded(q) ==
    \A i \in 1 .. Len(q) : q[i].kind \in Requests => \E j \in 1 .. i - 1 : q[j].kind = "rst"

\* The server takes nothing that the driver redirected: a reset comes first.
ServerInv ==
    /\ ~exposed => server.st # "answered" /\ server.rcv = S0
    /\ ~exposed /\ server.st # "closed" => Guarded(wan)
    /\ site.driver = "nos" => server.st # "answered"

\* A forged answer comes before any reset.
AnsweredFirst(q) ==
    \E j \in 1 .. Len(q) : /\ q[j].kind = "forged"
                           /\ \A i \in 1 .. j - 1 : q[i].kind # "rst"

\* A driver has reset the server, or is about to.
HasReset(q) == \E i \in 1 .. Len(q) : q[i].kind = "rst"

Resetting == server.st = "closed" \/ HasReset(wan)

\* As long as nothing is lost, the answer is on its way to the client when
\* the server is reset.
OrderInv ==
    /\ site.driver = "ntrack" /\ faults = 0 /\ client.st = "open" /\ Resetting
          => AnsweredFirst(down)
    /\ NeverReset

RedirectInv == Typed /\ ClientInv /\ WireInv /\ ServerInv /\ OrderInv

-----------------------------------------------------------------------------
(* Sequence numbers *)

\* What the lengths leave room for.
LEMMA Room ==
    /\ SeqMod \in Nat /\ SeqMod > 10
    /\ ReqLen \in Nat /\ ReqLen > 4
    /\ RestLen \in Nat /\ RestLen > 0
    /\ UrlLen \in Nat /\ PageLen \in Nat
    /\ ReqLen + RestLen < SeqMod
    /\ S0 \in Numbers /\ R0 \in Numbers
  BY LengthAssumption DEF S0, R0, Numbers

\* A number within one turn of the sequence space.
LEMMA Turn ==
    ASSUME NEW x \in Int
    PROVE  /\ x % SeqMod \in Numbers
           /\ x >= 0 /\ x < SeqMod => x % SeqMod = x
           /\ x >= SeqMod /\ x < 2 * SeqMod => x % SeqMod = x - SeqMod
           /\ x < 0 /\ x >= -SeqMod => x % SeqMod = x + SeqMod
<1>1. SeqMod \in Int /\ SeqMod > 0
  BY Room
<1>2. x % SeqMod \in 0 .. SeqMod - 1
  BY <1>1
<1> QED
  BY <1>1, <1>2 DEF Numbers

\* A segment of length a, from where the client starts, ends a further on;
\* what starts there comes after it, most of a turn before it.
LEMMA Distance ==
    ASSUME NEW a \in Nat, a < SeqMod
    PROVE  /\ Plus(S0, a) \in Numbers
           /\ Dist(S0, Plus(S0, a)) = a
           /\ a # 0 => Dist(Plus(S0, a), S0) = SeqMod - a
           /\ a = 0 => Plus(S0, a) = S0
<1>1. S0 \in Int /\ S0 + a \in Int /\ S0 >= 0 /\ S0 < SeqMod /\ S0 + a < 2 * SeqMod
  BY Room DEF Numbers
<1>2. CASE S0 + a < SeqMod
  <2>1. Plus(S0, a) = S0 + a
    <3>1. (S0 + a) % SeqMod = S0 + a BY <1>1, <1>2, Turn
    <3> QED BY <1>1, <3>1, Room DEF Plus
  <2>2. (S0 + a - S0) % SeqMod = a
    <3>1. S0 + a - S0 = a BY <1>1
    <3>2. a % SeqMod = a BY Turn
    <3> QED BY <3>1, <3>2
  <2>3. a # 0 => (S0 - (S0 + a)) % SeqMod = SeqMod - a
    <3>1. S0 - (S0 + a) = -a BY <1>1
    <3>2. -a \in Int /\ -a + SeqMod = SeqMod - a /\ (a # 0 => -a < 0) /\ -a >= -SeqMod
      BY Room
    <3>3. a # 0 => (-a) % SeqMod = -a + SeqMod BY <3>2, Turn
    <3> QED BY <3>1, <3>2, <3>3
  <2>4. S0 + a \in Numbers
    BY <1>1, <1>2, Room DEF Numbers
  <2>5. Dist(S0, S0 + a) = a /\ (a # 0 => Dist(S0 + a, S0) = SeqMod - a)
    BY <1>1, <2>2, <2>3, Room DEF Dist
  <2> QED
    BY <1>1, <2>1, <2>4, <2>5
<1>3. CASE S0 + a >= SeqMod
  <2>1. Plus(S0, a) = S0 + a - SeqMod
    <3>1. (S0 + a) % SeqMod = (S0 + a) - SeqMod BY <1>1, <1>3, Turn
    <3> QED BY <1>1, <3>1, Room DEF Plus
  <2>2. (S0 + a - SeqMod - S0) % SeqMod = a
    <3>1. S0 + a - SeqMod - S0 = a - SeqMod BY <1>1, Room
    <3>2. /\ a - SeqMod \in Int /\ a - SeqMod < 0 /\ a - SeqMod >= -SeqMod
          /\ (a - SeqMod) + SeqMod = a
      BY Room
    <3>3. (a - SeqMod) % SeqMod = a BY <3>2, Turn
    <3> QED BY <3>1, <3>3
  <2>3. (S0 - (S0 + a - SeqMod)) % SeqMod = SeqMod - a /\ a # 0
    <3>1. S0 - (S0 + a - SeqMod) = SeqMod - a BY <1>1, Room
    <3>2. a # 0 /\ SeqMod - a \in Int /\ SeqMod - a >= 0 /\ SeqMod - a < SeqMod
      BY <1>1, <1>3, Room
    <3>3. (SeqMod - a) % SeqMod = SeqMod - a BY <3>2, Turn
    <3> QED BY <3>1, <3>2, <3>3
  <2>4. S0 + a - SeqMod \in Numbers
    BY <1>1, <1>3, Room DEF Numbers
  <2>5. /\ Dist(S0, S0 + a - SeqMod) = a
        /\ Dist(S0 + a - SeqMod, S0) = SeqMod - a
    BY <1>1, <2>2, <2>3, Room DEF Dist
  <2> QED
    BY <2>1, <2>3, <2>4, <2>5
<1> QED
  BY <1>1, <1>2, <1>3, Room

\* Two segments, one behind the other.
LEMMA PlusTwice ==
    Plus(Plus(S0, ReqLen), RestLen) = Plus(S0, ReqLen + RestLen)
<1>1. /\ S0 \in Int /\ S0 >= 0 /\ S0 < SeqMod
      /\ S0 + ReqLen \in Int /\ S0 + ReqLen < 2 * SeqMod
      /\ S0 + (ReqLen + RestLen) \in Int /\ S0 + (ReqLen + RestLen) < 2 * SeqMod
      /\ S0 + ReqLen + RestLen = S0 + (ReqLen + RestLen)
  BY Room DEF Numbers
<1>2. CASE S0 + ReqLen < SeqMod
  <2>1. Plus(S0, ReqLen) = S0 + ReqLen
    BY <1>1, <1>2, Turn, Room DEF Plus
  <2> QED
    BY <1>1, <2>1 DEF Plus
<1>3. CASE S0 + ReqLen >= SeqMod
  <2>1. (S0 + ReqLen) % SeqMod = S0 + ReqLen - SeqMod
    BY <1>1, <1>3, Turn, Room
  <2>2. (S0 + (ReqLen + RestLen)) % SeqMod = S0 + (ReqLen + RestLen) - SeqMod
    BY <1>1, <1>3, Turn, Room
  <2>3. /\ S0 + ReqLen - SeqMod + RestLen \in Int
        /\ S0 + ReqLen - SeqMod + RestLen >= 0
        /\ S0 + ReqLen - SeqMod + RestLen < SeqMod
        /\ S0 + ReqLen - SeqMod + RestLen = S0 + (ReqLen + RestLen) - SeqMod
    BY <1>1, <1>3, Room
  <2>4. (S0 + ReqLen - SeqMod + RestLen) % SeqMod = S0 + ReqLen - SeqMod + RestLen
    BY <2>3, Turn
  <2> QED
    BY <2>1, <2>2, <2>3, <2>4 DEF Plus
<1> QED
  BY <1>1, <1>2, <1>3, Room

-----------------------------------------------------------------------------
(* Wires *)

\* What is joined to a wire is put behind it, one segment after the other.
LEMMA Joined ==
    ASSUME NEW S, NEW q \in Seq(S), NEW r \in S, NEW p \in S
    PROVE  /\ q \o <<>> = q
           /\ q \o <<r>> = Append(q, r)
           /\ q \o Append(<<>>, p) = Append(q, p)
           /\ q \o Append(<<r>>, p) = Append(Append(q, r), p)
<1>1. <<r>> \in Seq(S) /\ <<p>> \in Seq(S)
  OBVIOUS
<1>2. \A x \in S : q \o <<x>> = Append(q, x)
  BY AppendIsConcat
<1>3. Append(<<>>, p) = <<p>> /\ Append(<<r>>, p) = <<r>> \o <<p>>
  <2>1. <<>> \in Seq(S)
    OBVIOUS
  <2>2. Append(<<>>, p) = <<>> \o <<p>> /\ Append(<<r>>, p) = <<r>> \o <<p>>
    BY <1>1, <2>1, AppendIsConcat
  <2>3. <<>> \o <<p>> = <<p>>
    BY <1>1, ConcatEmptySeq
  <2> QED
    BY <2>2, <2>3
<1>4. q \o (<<r>> \o <<p>>) = (q \o <<r>>) \o <<p>>
  BY <1>1, ConcatAssociative
<1>5. (q \o <<r>>) \o <<p>> = Append(q \o <<r>>, p)
  BY <1>1, ConcatProperties, AppendIsConcat
<1>6. q \o <<>> = q
  BY ConcatEmptySeq
<1> QED
  BY <1>2, <1>3, <1>4, <1>5, <1>6

\* A segment that is put behind a wire.
LEMMA Behind ==
    ASSUME NEW S, NEW q \in Seq(S), NEW p \in S
    PROVE  /\ Append(q, p) \in Seq(S)
           /\ Len(q) \in Nat /\ Len(Append(q, p)) = Len(q) + 1
           /\ \A i \in 1 .. Len(q) : i \in 1 .. Len(q) + 1 /\ Append(q, p)[i] = q[i]
           /\ Append(q, p)[Len(q) + 1] = p
           /\ \A i \in 1 .. Len(q) + 1 : i \in 1 .. Len(q) \/ i = Len(q) + 1
  BY AppendProperties, LenProperties

\* The first segment is taken from a wire.
LEMMA Taken ==
    ASSUME NEW S, NEW q \in Seq(S), q # <<>>
    PROVE  /\ Head(q) \in S /\ Head(q) = q[1]
           /\ Tail(q) \in Seq(S)
           /\ Len(q) \in Nat \ {0} /\ Len(Tail(q)) = Len(q) - 1
           /\ \A i \in 1 .. Len(Tail(q)) : i + 1 \in 2 .. Len(q) /\ Tail(q)[i] = q[i + 1]
           /\ \A i \in 2 .. Len(q) : i - 1 \in 1 .. Len(Tail(q)) /\ Tail(q)[i - 1] = q[i]
<1>1. /\ Head(q) \in S /\ Tail(q) \in Seq(S) /\ Len(Tail(q)) = Len(q) - 1
      /\ \A i \in 1 .. Len(Tail(q)) : Tail(q)[i] = q[i + 1]
  BY HeadTailProperties
<1>2. Len(q) \in Nat \ {0}
  BY EmptySeq
<1>3. Head(q) = q[1]
  OBVIOUS
<1>4. PICK t : t = Tail(q)
  OBVIOUS
<1>5. /\ \A i \in 1 .. Len(t) : i + 1 \in 2 .. Len(q) /\ t[i] = q[i + 1]
      /\ \A i \in 2 .. Len(q) : i - 1 \in 1 .. Len(t) /\ t[i - 1] = q[i]
  BY <1>1, <1>2, <1>4
<1> QED
  BY <1>1, <1>2, <1>3, <1>4, <1>5

\* Taking a segment that is no reset leaves every request guarded.
LEMMA GuardedTail ==
    ASSUME NEW q \in Seq(Segments), q # <<>>, Guarded(q), Head(q).kind # "rst"
    PROVE  Guarded(Tail(q))
<1>1. PICK t : t = Tail(q)
  OBVIOUS
<1>2. /\ Len(q) \in Nat \ {0} /\ Len(t) = Len(q) - 1 /\ q[1].kind # "rst"
      /\ \A i \in 1 .. Len(t) : i + 1 \in 2 .. Len(q) /\ t[i] = q[i + 1]
      /\ \A i \in 2 .. Len(q) : i - 1 \in 1 .. Len(t) /\ t[i - 1] = q[i]
  BY <1>1, Taken
<1>3. ASSUME NEW i \in 1 .. Len(t), t[i].kind \in Requests
      PROVE  \E j \in 1 .. i - 1 : t[j].kind = "rst"
  <2>1. i + 1 \in 1 .. Len(q) /\ q[i + 1].kind \in Requests
    BY <1>2, <1>3
  <2>2. PICK j \in 1 .. i : q[j].kind = "rst"
    <3>1. PICK j \in 1 .. i + 1 - 1 : q[j].kind = "rst"
      BY <2>1 DEF Guarded
    <3>2. j \in 1 .. i BY <1>2, <3>1
    <3> QED BY <3>1, <3>2
  <2>3. j \in 2 .. Len(q) /\ j - 1 \in 1 .. i - 1
    BY <1>2, <2>2
  <2>4. t[j - 1].kind = "rst"
    BY <1>2, <2>2, <2>3
  <2> QED
    BY <2>3, <2>4
<1> QED
  BY <1>1, <1>3 DEF Guarded

\* A segment may join that is no request, or has a reset before it.
LEMMA GuardedAppend ==
    ASSUME NEW q \in Seq(Segments), NEW p \in Segments, Guarded(q),
           p.kind \notin Requests \/ HasReset(q)
    PROVE  Guarded(Append(q, p))
<1>1. PICK t : t = Append(q, p)
  OBVIOUS
<1>2. /\ Len(q) \in Nat /\ Len(t) = Len(q) + 1
      /\ \A i \in 1 .. Len(q) : i \in 1 .. Len(q) + 1 /\ t[i] = q[i]
      /\ t[Len(q) + 1] = p
      /\ \A i \in 1 .. Len(q) + 1 : i \in 1 .. Len(q) \/ i = Len(q) + 1
  BY <1>1, Behind
<1>3. ASSUME NEW i \in 1 .. Len(q), t[i].kind \in Requests
      PROVE  \E j \in 1 .. i - 1 : t[j].kind = "rst"
  <2>1. PICK j \in 1 .. i - 1 : q[j].kind = "rst"
    BY <1>2, <1>3 DEF Guarded
  <2>2. j \in 1 .. Len(q)
    BY <1>2
  <2> QED
    BY <1>2, <2>1, <2>2
<1>4. ASSUME p.kind \in Requests
      PROVE  \E j \in 1 .. Len(q) + 1 - 1 : t[j].kind = "rst"
  <2>1. PICK j \in 1 .. Len(q) : q[j].kind = "rst"
    BY <1>4 DEF HasReset
  <2>2. j \in 1 .. Len(q) + 1 - 1
    BY <1>2
  <2> QED
    BY <1>2, <2>1, <2>2
<1>5. Guarded(t)
  BY <1>2, <1>3, <1>4 DEF Guarded
<1> QED
  BY <1>1, <1>5

\* A wire has a reset if it had one, or one has joined it.
LEMMA ResetAppend ==
    ASSUME NEW q \in Seq(Segments), NEW p \in Segments
    PROVE  HasReset(Append(q, p)) <=> HasReset(q) \/ p.kind = "rst"
<1>1. PICK t : t = Append(q, p)
  OBVIOUS
<1>2. /\ Len(q) \in Nat /\ Len(t) = Len(q) + 1
      /\ \A i \in 1 .. Len(q) : i \in 1 .. Len(q) + 1 /\ t[i] = q[i]
      /\ t[Len(q) + 1] = p
      /\ \A i \in 1 .. Len(q) + 1 : i \in 1 .. Len(q) \/ i = Len(q) + 1
  BY <1>1, Behind
<1>3. HasReset(t) => HasReset(q) \/ p.kind = "rst"
  BY <1>2 DEF HasReset
<1>4. HasReset(q) => HasReset(t)
  BY <1>2 DEF HasReset
<1>5. p.kind = "rst" => HasReset(t)
  <2>1. Len(q) + 1 \in 1 .. Len(t) BY <1>2
  <2> QED BY <1>2, <2>1 DEF HasReset
<1> QED
  BY <1>1, <1>3, <1>4, <1>5

LEMMA ResetTail ==
    ASSUME NEW q \in Seq(Segments), q # <<>>, HasReset(Tail(q))
    PROVE  HasReset(q)
<1>1. PICK i \in 1 .. Len(Tail(q)) : Tail(q)[i].kind = "rst"
  BY DEF HasReset
<1>2. Len(q) \in Nat /\ i + 1 \in 2 .. Len(q) /\ Tail(q)[i] = q[i + 1]
  BY Taken
<1>3. i + 1 \in 1 .. Len(q) /\ q[i + 1].kind = "rst"
  BY <1>1, <1>2
<1> QED
  BY <1>3 DEF HasReset

\* What joins the wire does not come before the answer.
LEMMA AnsweredAppend ==
    ASSUME NEW q \in Seq(Segments), NEW p \in Segments,
           AnsweredFirst(q) \/ (~HasReset(q) /\ p.kind = "forged")
    PROVE  AnsweredFirst(Append(q, p))
<1>1. PICK t : t = Append(q, p)
  OBVIOUS
<1>2. /\ Len(q) \in Nat /\ Len(t) = Len(q) + 1
      /\ \A i \in 1 .. Len(q) : i \in 1 .. Len(q) + 1 /\ t[i] = q[i]
      /\ t[Len(q) + 1] = p
  BY <1>1, Behind
<1>3. CASE AnsweredFirst(q)
  <2>1. PICK j \in 1 .. Len(q) : /\ q[j].kind = "forged"
                                 /\ \A i \in 1 .. j - 1 : q[i].kind # "rst"
    BY <1>3 DEF AnsweredFirst
  <2>2. j \in 1 .. Len(t) /\ \A i \in 1 .. j - 1 : i \in 1 .. Len(q)
    BY <1>2
  <2>3. t[j].kind = "forged" /\ \A i \in 1 .. j - 1 : t[i].kind # "rst"
    BY <1>2, <2>1, <2>2
  <2> QED
    BY <1>1, <2>2, <2>3 DEF AnsweredFirst
<1>4. CASE ~HasReset(q) /\ p.kind = "forged"
  <2>1. Len(t) \in 1 .. Len(t) /\ t[Len(t)].kind = "forged"
    BY <1>2, <1>4
  <2>2. \A i \in 1 .. Len(t) - 1 : t[i].kind # "rst"
    BY <1>2, <1>4 DEF HasReset
  <2> QED
    BY <1>1, <2>1, <2>2 DEF AnsweredFirst
<1> QED
  BY <1>3, <1>4

\* The client takes the answer, or it stays before any reset.
LEMMA AnsweredTail ==
    ASSUME NEW q \in Seq(Segments), q # <<>>, AnsweredFirst(q)
    PROVE  \/ Head(q).kind = "forged"
           \/ Head(q).kind # "rst" /\ AnsweredFirst(Tail(q))
<1>1. PICK t : t = Tail(q)
  OBVIOUS
<1>2. /\ Len(q) \in Nat \ {0} /\ Len(t) = Len(q) - 1 /\ Head(q) = q[1]
      /\ \A i \in 1 .. Len(t) : i + 1 \in 2 .. Len(q) /\ t[i] = q[i + 1]
      /\ \A i \in 2 .. Len(q) : i - 1 \in 1 .. Len(t) /\ t[i - 1] = q[i]
  BY <1>1, Taken
<1>3. PICK j \in 1 .. Len(q) : /\ q[j].kind = "forged"
                               /\ \A i \in 1 .. j - 1 : q[i].kind # "rst"
  BY DEF AnsweredFirst
<1>4. CASE j = 1
  BY <1>2, <1>3, <1>4
<1>5. CASE j # 1
  <2>1. j \in 2 .. Len(q) /\ 1 \in 1 .. j - 1
    BY <1>2, <1>5
  <2>2. t[j - 1].kind = "forged" /\ j - 1 \in 1 .. Len(t)
    BY <1>2, <1>3, <2>1
  <2>3. \A i \in 1 .. j - 1 - 1 : i \in 1 .. Len(t) /\ i + 1 \in 1 .. j - 1
    BY <1>2, <2>1
  <2>4. \A i \in 1 .. j - 1 - 1 : t[i].kind # "rst"
    BY <1>2, <1>3, <2>3
  <2> QED
    BY <1>1, <1>2, <1>3, <2>1, <2>2, <2>4 DEF AnsweredFirst
<1> QED
  BY <1>4, <1>5

-----------------------------------------------------------------------------
(* Segments *)

\* How much the client may have sent.
LEMMA SentSoFar ==
    ASSUME Typed
    PROVE  /\ Sent \in {0, ReqLen, ReqLen + RestLen}
           /\ Sent \in Nat /\ Sent <= ReqLen + RestLen /\ Sent < SeqMod
           /\ client.kind # "none" => Sent >= ReqLen
<1>1. client.kind # "none" \/ client.kind = "none"
  OBVIOUS
<1>2. Sent \in {0, ReqLen, ReqLen + RestLen}
  BY DEF Sent
<1>3. client.kind # "none" => Sent \in {ReqLen, ReqLen + RestLen}
  BY DEF Sent
<1> QED
  BY <1>2, <1>3, Room

\* A segment is one when its parts are.
LEMMA SegIs ==
    ASSUME NEW k \in {"ack", "get", "post", "rest", "bye", "rst", "forged", "page"},
           NEW s \in Numbers, NEW a \in Numbers, NEW l \in Nat
    PROVE  /\ Seg(k, s, a, l) \in Segments
           /\ Seg(k, s, a, l).kind = k /\ Seg(k, s, a, l).seq = s
           /\ Seg(k, s, a, l).ack = a /\ Seg(k, s, a, l).len = l
  BY DEF Seg, Segments

\* What is on the wires stays legal while the client sends more, no longer
\* waits, or the server closes.
LEMMA StillLegal ==
    ASSUME Typed, Typed', WireInv, site' = site, Sent <= Sent',
           client.st # "open" => client'.st # "open",
           server.st = "closed" => server'.st = "closed"
    PROVE  /\ UpSegs \subseteq (UpSegs)' /\ WanSegs \subseteq (WanSegs)'
           /\ DownSegs \subseteq (DownSegs)'
           /\ up \in Seq((UpSegs)') /\ wan \in Seq((WanSegs)') /\ down \in Seq((DownSegs)')
<1>1. Sent \in Nat /\ Sent' \in Nat
  <2>1. Sent' \in {0, ReqLen, ReqLen + RestLen}
    BY DEF Sent
  <2> QED
    BY <2>1, SentSoFar, Room
<1>2. \A p \in Segments : FromClient(p) => FromClient(p)'
  <2> SUFFICES ASSUME NEW p \in Segments, FromClient(p) PROVE FromClient(p)'
    OBVIOUS
  <2>1. p.len \in Nat
    BY DEF Segments
  <2>2. p.len <= Sent => p.len <= Sent'
    BY <1>1, <2>1
  <2> HIDE DEF Sent, S0, R0
  <2> QED
    BY <2>2 DEF FromClient
<1>3. \A p \in Segments : ToServer(p) => ToServer(p)'
  BY <1>2 DEF ToServer, S0
<1>4. \A p \in Segments : ToClient(p) => ToClient(p)'
  <2>1. \A a \in 0 .. Sent : a \in 0 .. Sent'
    BY <1>1
  <2> QED
    BY <2>1 DEF ToClient, R0, S0
<1>5. /\ UpSegs \subseteq (UpSegs)' /\ WanSegs \subseteq (WanSegs)'
      /\ DownSegs \subseteq (DownSegs)'
  BY <1>2, <1>3, <1>4 DEF UpSegs, WanSegs, DownSegs
<1>6. up \in Seq(UpSegs) /\ wan \in Seq(WanSegs) /\ down \in Seq(DownSegs)
  BY DEF WireInv
<1> HIDE DEF UpSegs, WanSegs, DownSegs
<1> QED
  BY <1>5, <1>6, SeqMonotonic

\* The wires carry segments.
LEMMA Carried ==
    ASSUME WireInv
    PROVE  /\ up \in Seq(Segments) /\ wan \in Seq(Segments) /\ down \in Seq(Segments)
<1>1. UpSegs \subseteq Segments /\ WanSegs \subseteq Segments /\ DownSegs \subseteq Segments
  BY DEF UpSegs, WanSegs, DownSegs
<1> HIDE DEF UpSegs, WanSegs, DownSegs
<1> QED
  BY <1>1, SeqMonotonic DEF WireInv

-----------------------------------------------------------------------------
(* The steps *)

LEMMA InitRedirect == Init => RedirectInv
<1> SUFFICES ASSUME Init PROVE RedirectInv
  OBVIOUS
<1>1. Typed
  BY Room DEF Init, Typed, S0, R0, Requests
<1>2. ClientInv
  <2>1. Sent = 0
    BY DEF Init, Sent
  <2>2. Plus(S0, 0) = S0
    BY Room, Distance
  <2> QED
    BY <2>1, <2>2 DEF Init, ClientInv, S0, R0
<1>3. WireInv
  <2>1. Seg("ack", S0, R0, 0) \in UpSegs
    BY Room, SegIs DEF UpSegs, FromClient
  <2>2. up = <<Seg("ack", S0, R0, 0)>> /\ wan = <<>> /\ down = <<>>
    BY DEF Init, S0, R0
  <2> HIDE DEF UpSegs, WanSegs, DownSegs
  <2> QED
    BY <2>1, <2>2 DEF WireInv
<1>4. ServerInv
  <2>1. Guarded(wan)
    BY DEF Init, Guarded
  <2> QED
    BY <2>1 DEF Init, ServerInv, S0
<1>5. OrderInv
  <2>1. ~Resetting
    BY DEF Init, Resetting, HasReset
  <2> QED
    BY <2>1 DEF Init, OrderInv, NeverReset
<1> QED
  BY <1>1, <1>2, <1>3, <1>4, <1>5 DEF RedirectInv

\* The client sends a segment, and nothing else happens.
LEMMA StepSend ==
    ASSUME RedirectInv, Typed', ClientInv', Sent <= Sent', client'.st = client.st,
           NEW p \in Segments, FromClient(p)', up' = Append(up, p),
           UNCHANGED <<site, server, wan, down, faults, exposed>>
    PROVE  RedirectInv'
<1>1. WireInv'
  <2>1. /\ up \in Seq((UpSegs)') /\ wan \in Seq((WanSegs)') /\ down \in Seq((DownSegs)')
    BY StillLegal DEF RedirectInv
  <2>2. p \in (UpSegs)'
    BY DEF UpSegs
  <2> HIDE DEF UpSegs, WanSegs, DownSegs
  <2> QED
    BY <2>1, <2>2, AppendProperties DEF WireInv
<1>2. ServerInv'
  BY DEF RedirectInv, ServerInv, S0, Guarded
<1>3. OrderInv'
  BY DEF RedirectInv, OrderInv, NeverReset, Resetting, HasReset, AnsweredFirst
<1> QED
  BY <1>1, <1>2, <1>3 DEF RedirectInv

LEMMA StepBegin == RedirectInv /\ Begin => RedirectInv'
<1> SUFFICES ASSUME RedirectInv, NEW kind \in {"get", "post"}, Request(kind)
             PROVE  RedirectInv'
  BY DEF Begin
<1>1. /\ Typed /\ ClientInv /\ client.st = "open" /\ client.kind = "none"
      /\ client.una = S0 /\ client.rcv = R0 /\ ~client.more
  BY DEF RedirectInv, Request, ClientInv
<1>2. Sent = 0 /\ client.snd = S0
  <2>1. Sent = 0 BY <1>1 DEF Sent
  <2> QED BY <1>1, <2>1, Room, Distance DEF ClientInv
<1>3. client' = [client EXCEPT !.kind = kind, !.snd = Plus(S0, ReqLen)]
  BY <1>2 DEF Request
<1>4. Plus(S0, ReqLen) \in Numbers
  BY Room, Distance
<1>5. Typed'
  <2> HIDE DEF S0, R0, Numbers
  <2> QED BY <1>1, <1>3, <1>4 DEF Request, Typed, Requests
<1>6. /\ client'.kind = kind /\ ~client'.more /\ client'.st = client.st
      /\ client'.snd = Plus(S0, ReqLen) /\ client'.una = S0 /\ client'.rcv = R0
  <2> HIDE DEF S0, R0, Numbers
  <2> QED BY <1>1, <1>3 DEF Typed
<1>7. Sent' = ReqLen /\ Sent <= Sent'
  BY <1>2, <1>6, Room DEF Sent
<1>8. ClientInv'
  BY <1>6, <1>7 DEF ClientInv, S0, R0
<1>9. PICK p \in Segments : /\ up' = Append(up, p) /\ p.kind = kind
                            /\ p.seq = S0 /\ p.ack = R0 /\ p.len = ReqLen
  BY <1>1, <1>2, Room, SegIs DEF Request
<1>10. FromClient(p)'
  BY <1>7, <1>9, Room DEF FromClient, Requests, S0, R0
<1> QED
  BY <1>5, <1>6, <1>7, <1>8, <1>9, <1>10, StepSend DEF Request

LEMMA StepContinue == RedirectInv /\ Continue => RedirectInv'
<1> SUFFICES ASSUME RedirectInv, Continue PROVE RedirectInv'
  OBVIOUS
<1>1. /\ Typed /\ ClientInv /\ client.st = "open" /\ client.kind # "none"
      /\ client.una = S0 /\ client.rcv = R0 /\ ~client.more
  BY DEF RedirectInv, Continue, ClientInv
<1>2. Sent = ReqLen /\ client.snd = Plus(S0, ReqLen)
  BY <1>1 DEF Sent, ClientInv
<1>3. /\ Plus(S0, ReqLen) \in Numbers
      /\ Plus(Plus(S0, ReqLen), RestLen) = Plus(S0, ReqLen + RestLen)
      /\ Plus(S0, ReqLen + RestLen) \in Numbers
  BY Room, Distance, PlusTwice
<1>4. client' = [client EXCEPT !.more = TRUE, !.snd = Plus(S0, ReqLen + RestLen)]
  BY <1>2, <1>3 DEF Continue
<1>5. Typed'
  <2> HIDE DEF S0, R0, Numbers
  <2> QED BY <1>1, <1>3, <1>4 DEF Continue, Typed
<1>6. /\ client'.kind # "none" /\ client'.more /\ client'.st = client.st
      /\ client'.snd = Plus(S0, ReqLen + RestLen)
      /\ client'.una = S0 /\ client'.rcv = R0
  <2> HIDE DEF S0, R0, Numbers
  <2> QED BY <1>1, <1>4 DEF Typed
<1>7. Sent' = ReqLen + RestLen /\ Sent <= Sent'
  BY <1>2, <1>6, Room DEF Sent
<1>8. ClientInv'
  BY <1>6, <1>7 DEF ClientInv, S0, R0
<1>9. PICK p \in Segments : /\ up' = Append(up, p) /\ p.kind = "rest"
                            /\ p.seq = Plus(S0, ReqLen) /\ p.ack = R0 /\ p.len = RestLen
  <2>1. up' = Append(up, Seg("rest", Plus(S0, ReqLen), R0, RestLen))
    BY <1>1, <1>2 DEF Continue
  <2>2. PICK n \in Numbers : n = Plus(S0, ReqLen)
    BY <1>3
  <2>3. Seg("rest", n, R0, RestLen) \in Segments
    BY Room, SegIs
  <2>4. /\ Seg("rest", n, R0, RestLen).kind = "rest" /\ Seg("rest", n, R0, RestLen).seq = n
        /\ Seg("rest", n, R0, RestLen).ack = R0 /\ Seg("rest", n, R0, RestLen).len = RestLen
    BY DEF Seg
  <2> QED
    BY <2>1, <2>2, <2>3, <2>4
<1>10. FromClient(p)'
  BY <1>9 DEF FromClient, S0, R0, Plus
<1> QED
  BY <1>5, <1>6, <1>7, <1>8, <1>9, <1>10, StepSend DEF Continue

LEMMA StepRetry == RedirectInv /\ Retry => RedirectInv'
<1> SUFFICES ASSUME RedirectInv, Retry PROVE RedirectInv'
  OBVIOUS
<1>1. /\ Typed /\ ClientInv /\ client.st = "open" /\ client.una # client.snd
      /\ client.una = S0 /\ client.rcv = R0 /\ client.snd = Plus(S0, Sent)
  BY DEF RedirectInv, Retry, ClientInv
<1>2. Dist(client.una, client.snd) = Sent /\ Sent # 0
  BY <1>1, SentSoFar, Distance
<1>3. client.kind \in Requests /\ Sent \in {ReqLen, ReqLen + RestLen}
  BY <1>1, <1>2 DEF Sent, Typed
<1>4. client' = [client EXCEPT !.tries = client.tries + 1]
  BY DEF Retry
<1>5. Typed'
  <2> HIDE DEF S0, R0, Numbers
  <2> QED BY <1>1, <1>4 DEF Retry, Typed
<1>6. /\ client'.kind = client.kind /\ client'.more = client.more
      /\ client'.st = client.st /\ client'.snd = client.snd
      /\ client'.una = client.una /\ client'.rcv = client.rcv
  <2> HIDE DEF S0, R0, Numbers
  <2> QED BY <1>1, <1>4 DEF Typed
<1>7. Sent' = Sent /\ Sent <= Sent'
  <2>1. Sent' = Sent BY <1>6 DEF Sent
  <2> QED BY <1>1, <2>1, SentSoFar
<1>8. ClientInv'
  BY <1>1, <1>6, <1>7 DEF ClientInv, S0, R0
<1>9. PICK len \in {ReqLen, Dist(client.una, client.snd)} :
         up' = Append(up, Seg(client.kind, client.una, client.rcv, len))
  BY DEF Retry
<1>10. len \in {ReqLen, ReqLen + RestLen} /\ len <= Sent /\ len \in Nat
  BY <1>2, <1>3, <1>9, Room
<1>11. PICK p \in Segments : /\ up' = Append(up, p) /\ p.kind = client.kind
                             /\ p.seq = S0 /\ p.ack = R0 /\ p.len = len
  <2>1. client.kind \in {"ack", "get", "post", "rest", "bye", "rst", "forged", "page"}
    BY <1>3 DEF Requests
  <2>2. Seg(client.kind, S0, R0, len) \in Segments
    BY <1>10, <2>1, Room, SegIs
  <2>3. up' = Append(up, Seg(client.kind, S0, R0, len))
    BY <1>1, <1>9
  <2> QED
    BY <2>2, <2>3 DEF Seg
<1>12. FromClient(p)'
  BY <1>3, <1>7, <1>10, <1>11 DEF FromClient, S0, R0
<1> QED
  BY <1>5, <1>6, <1>7, <1>8, <1>11, <1>12, StepSend DEF Retry

LEMMA StepGiveUp == RedirectInv /\ GiveUp => RedirectInv'
<1> SUFFICES ASSUME RedirectInv, GiveUp PROVE RedirectInv'
  OBVIOUS
<1>1. Typed /\ ClientInv /\ client' = [client EXCEPT !.st = "gaveup"]
  BY DEF RedirectInv, GiveUp
<1>2. Typed'
  <2> HIDE DEF S0, R0, Numbers
  <2> QED BY <1>1 DEF GiveUp, Typed
<1>3. /\ client'.kind = client.kind /\ client'.more = client.more
      /\ client'.st = "gaveup" /\ client'.snd = client.snd
  <2> HIDE DEF S0, R0, Numbers
  <2> QED BY <1>1 DEF Typed
<1>4. Sent' = Sent /\ Sent <= Sent'
  <2>1. Sent' = Sent BY <1>3 DEF Sent
  <2> QED BY <1>1, <2>1, SentSoFar
<1>5. ClientInv'
  BY <1>1, <1>3, <1>4 DEF ClientInv, S0
<1>6. WireInv'
  <2>1. /\ up \in Seq((UpSegs)') /\ wan \in Seq((WanSegs)') /\ down \in Seq((DownSegs)')
    BY <1>2, <1>3, <1>4, StillLegal DEF RedirectInv, GiveUp
  <2> HIDE DEF UpSegs, WanSegs, DownSegs
  <2> QED BY <2>1 DEF WireInv, GiveUp
<1>7. ServerInv'
  BY DEF RedirectInv, ServerInv, GiveUp, S0, Guarded
<1>8. OrderInv'
  BY <1>3 DEF OrderInv, NeverReset
<1> QED
  BY <1>2, <1>5, <1>6, <1>7, <1>8 DEF RedirectInv

LEMMA StepNothing == RedirectInv /\ UNCHANGED vars => RedirectInv'
<1> SUFFICES ASSUME RedirectInv, UNCHANGED vars PROVE RedirectInv'
  OBVIOUS
<1>1. Typed' /\ ClientInv'
  BY DEF RedirectInv, vars, Typed, ClientInv, Sent
<1>2. WireInv'
  BY DEF RedirectInv, vars, WireInv, UpSegs, WanSegs, DownSegs, ToServer, ToClient,
         FromClient, Sent
<1>3. ServerInv' /\ OrderInv'
  BY DEF RedirectInv, vars, ServerInv, OrderInv, NeverReset, Resetting, HasReset,
         AnsweredFirst, Guarded
<1> QED
  BY <1>1, <1>2, <1>3 DEF RedirectInv

\* The client takes a segment: an answer that fits ends its waiting, and what
\* the server sends changes nothing else of what it keeps.
LEMMA ClientTakes ==
    ASSUME RedirectInv, NEW p \in Segments, ToClient(p),
           TakeForged(p) \/ TakePage(p) \/ TakeReset(p)
    PROVE  /\ client' \in [st : {"open", "done", "mixed", "served", "reset", "gaveup"},
                           kind : {"none"} \cup Requests, more : BOOLEAN, tries : Nat,
                           snd : Numbers, una : Numbers, rcv : Numbers]
           /\ client'.kind = client.kind /\ client'.more = client.more
           /\ client'.snd = client.snd
           /\ client'.st = "open" => client' = client /\ p.kind # "forged"
           /\ client'.st = "reset" => \/ client.st = "reset"
                                      \/ client.st = "open" /\ p.kind = "rst"
           /\ \/ up' = up
              \/ /\ client'.st # "open"
                 /\ \E b \in Segments : b.kind = "bye" /\ b.len = 0 /\ up' = Append(up, b)
<1>1. /\ Typed /\ ClientInv
      /\ client \in [st : {"open", "done", "mixed", "served", "reset", "gaveup"},
                     kind : {"none"} \cup Requests, more : BOOLEAN, tries : Nat,
                     snd : Numbers, una : Numbers, rcv : Numbers]
  BY DEF RedirectInv, Typed
<1>2. p.seq \in Numbers /\ p.ack \in Numbers /\ p.len \in Nat
  BY DEF Segments
<1>3. \A n \in Numbers, l \in Nat : Plus(n, l) \in Numbers
  <2>1. \A n \in Numbers, l \in Nat : n + l \in Int
    BY Room DEF Numbers
  <2> QED
    BY <2>1, Turn DEF Plus
<1>4. CASE TakeForged(p)
  <2>1. p.kind = "forged"
    BY <1>4 DEF TakeForged
  <2>2. client.st = "open" => Acceptable(p) /\ Dist(p.seq, client.rcv) <= UrlLen
    <3> SUFFICES ASSUME client.st = "open"
                 PROVE  Acceptable(p) /\ Dist(p.seq, client.rcv) <= UrlLen
      OBVIOUS
    <3>1. /\ client.una = S0 /\ client.rcv = R0 /\ client.snd = Plus(S0, Sent)
          /\ p.seq = R0
      BY <1>1, <2>1 DEF ClientInv, ToClient
    <3>2. PICK a \in 0 .. Sent : p.ack = Plus(S0, a)
      BY <2>1 DEF ToClient
    <3>3. a \in Nat /\ a <= Sent /\ a < SeqMod /\ Sent \in Nat /\ Sent < SeqMod
      BY <1>1, SentSoFar, Room
    <3>4. Dist(S0, Plus(S0, a)) = a /\ Dist(S0, Plus(S0, Sent)) = Sent
      BY <3>3, Distance
    <3>5. Dist(R0, R0) = 0
      <4>1. R0 - R0 = 0 /\ 0 % SeqMod = 0
        BY Room, Turn DEF Numbers
      <4> QED BY <4>1 DEF Dist
    <3>6. Acceptable(p)
      BY <3>1, <3>2, <3>3, <3>4 DEF Acceptable
    <3> QED
      BY <3>1, <3>5, <3>6, Room
  <2>3. CASE client' = client /\ up' = up /\ client.st # "open"
    BY <1>1, <2>3
  <2>4. CASE /\ client.st \in {"open", "served"}
             /\ client' = [client EXCEPT !.una = p.ack, !.rcv = Plus(p.seq, UrlLen + 1),
                             !.st = IF p.seq = client.rcv THEN "done" ELSE "mixed"]
             /\ up' = Append(up, Seg("bye", client.snd, Plus(p.seq, UrlLen + 1), 0))
    <3>1. Plus(p.seq, UrlLen + 1) \in Numbers /\ client.snd \in Numbers
      BY <1>1, <1>2, <1>3, Room
    <3>2. PICK r \in Numbers : r = Plus(p.seq, UrlLen + 1)
      BY <3>1
    <3> HIDE DEF Numbers, Segments
    <3>3. PICK s \in {"done", "mixed"} :
             client' = [client EXCEPT !.una = p.ack, !.rcv = r, !.st = s]
      BY <2>4, <3>2
    <3>4. PICK b \in Segments : b.kind = "bye" /\ b.len = 0 /\ up' = Append(up, b)
      BY <2>4, <3>1, SegIs
    <3>5. client' \in [st : {"open", "done", "mixed", "served", "reset", "gaveup"},
                       kind : {"none"} \cup Requests, more : BOOLEAN, tries : Nat,
                       snd : Numbers, una : Numbers, rcv : Numbers]
      BY <1>1, <1>2, <3>3
    <3>6. /\ client'.kind = client.kind /\ client'.more = client.more
          /\ client'.snd = client.snd /\ client'.st \in {"done", "mixed"}
      BY <1>1, <3>3
    <3> QED
      BY <3>4, <3>5, <3>6
  <2> QED
    BY <1>4, <2>2, <2>3, <2>4 DEF TakeForged
<1>5. CASE TakePage(p)
  <2>1. p.kind = "page" /\ up' = up
    BY <1>5 DEF TakePage
  <2>2. CASE client' = client
    BY <1>1, <2>1, <2>2
  <2>3. CASE client' = [client EXCEPT !.una = p.ack, !.rcv = Plus(p.seq, p.len),
                                      !.st = "served"]
    <3>1. PICK r \in Numbers : r = Plus(p.seq, p.len)
      BY <1>2, <1>3
    <3> HIDE DEF Numbers, Segments
    <3>2. client' = [client EXCEPT !.una = p.ack, !.rcv = r, !.st = "served"]
      BY <2>3, <3>1
    <3>3. client' \in [st : {"open", "done", "mixed", "served", "reset", "gaveup"},
                       kind : {"none"} \cup Requests, more : BOOLEAN, tries : Nat,
                       snd : Numbers, una : Numbers, rcv : Numbers]
      BY <1>1, <1>2, <3>2
    <3>4. /\ client'.kind = client.kind /\ client'.more = client.more
          /\ client'.snd = client.snd /\ client'.st = "served"
      BY <1>1, <3>2
    <3> QED
      BY <2>1, <3>3, <3>4
  <2> QED
    BY <1>5, <2>2, <2>3 DEF TakePage
<1>6. CASE TakeReset(p)
  <2>1. p.kind = "rst" /\ up' = up
    BY <1>6 DEF TakeReset
  <2>2. CASE client' = client
    BY <1>1, <2>1, <2>2
  <2>3. CASE client.st = "open" /\ client' = [client EXCEPT !.st = "reset"]
    <3> HIDE DEF Numbers
    <3>1. client' \in [st : {"open", "done", "mixed", "served", "reset", "gaveup"},
                       kind : {"none"} \cup Requests, more : BOOLEAN, tries : Nat,
                       snd : Numbers, una : Numbers, rcv : Numbers]
      BY <1>1, <2>3
    <3>2. /\ client'.kind = client.kind /\ client'.more = client.more
          /\ client'.snd = client.snd /\ client'.st = "reset"
      BY <1>1, <2>3
    <3> QED
      BY <2>1, <2>3, <3>1, <3>2
  <2> QED
    BY <1>6, <2>2, <2>3 DEF TakeReset
<1> QED
  BY <1>4, <1>5, <1>6

LEMMA StepReceive == RedirectInv /\ Receive => RedirectInv'
<1> SUFFICES ASSUME RedirectInv, Receive PROVE RedirectInv'
  OBVIOUS
<1>1. /\ Typed /\ ClientInv /\ WireInv /\ ServerInv /\ OrderInv
      /\ UNCHANGED <<site, server, wan, faults, exposed>>
      /\ down # <<>> /\ down' = Tail(down)
  BY DEF RedirectInv, Receive
<1>2. PICK p : p = Head(down)
  OBVIOUS
<1>3. p \in DownSegs /\ Tail(down) \in Seq(DownSegs)
  <2> HIDE DEF DownSegs
  <2> QED BY <1>1, <1>2, Taken DEF WireInv
<1>4. p \in Segments /\ ToClient(p)
  BY <1>3 DEF DownSegs
<1>5. TakeForged(p) \/ TakePage(p) \/ TakeReset(p)
  BY <1>2 DEF Receive
<1>6. /\ client' \in [st : {"open", "done", "mixed", "served", "reset", "gaveup"},
                      kind : {"none"} \cup Requests, more : BOOLEAN, tries : Nat,
                      snd : Numbers, una : Numbers, rcv : Numbers]
      /\ client'.kind = client.kind /\ client'.more = client.more
      /\ client'.snd = client.snd
      /\ client'.st = "open" => client' = client /\ p.kind # "forged"
      /\ client'.st = "reset" => \/ client.st = "reset"
                                 \/ client.st = "open" /\ p.kind = "rst"
  BY <1>4, <1>5, ClientTakes
<1>7. \/ up' = up
      \/ /\ client'.st # "open"
         /\ \E b \in Segments : b.kind = "bye" /\ b.len = 0 /\ up' = Append(up, b)
  BY <1>4, <1>5, ClientTakes
<1>8. Typed'
  BY <1>1, <1>6 DEF Typed
<1>9. Sent' = Sent /\ Sent <= Sent'
  <2>1. Sent' = Sent BY <1>6 DEF Sent
  <2> QED BY <1>1, <2>1, SentSoFar
<1>10. ClientInv'
  <2>1. client.kind = "none" => ~client.more
    BY <1>1 DEF ClientInv
  <2> QED BY <1>1, <1>6, <1>9, <2>1 DEF ClientInv, S0, R0
<1>11. WireInv'
  <2>1. /\ up \in Seq((UpSegs)') /\ wan \in Seq((WanSegs)') /\ DownSegs \subseteq (DownSegs)'
    BY <1>1, <1>6, <1>8, <1>9, StillLegal
  <2>2. \A b \in Segments : b.kind = "bye" /\ b.len = 0 /\ client'.st # "open" => b \in (UpSegs)'
    BY DEF UpSegs, FromClient
  <2> HIDE DEF UpSegs, WanSegs, DownSegs
  <2>3. up' \in Seq((UpSegs)')
    BY <1>7, <2>1, <2>2, AppendProperties
  <2>4. down' \in Seq((DownSegs)')
    BY <1>1, <1>3, <2>1, SeqMonotonic
  <2> QED
    BY <1>1, <2>1, <2>3, <2>4 DEF WireInv
<1>12. ServerInv'
  BY <1>1 DEF ServerInv, S0, Guarded
<1>13. OrderInv'
  <2>1. down \in Seq(Segments)
    BY <1>1, Carried
  <2>2. \/ p.kind = "forged"
        \/ p.kind # "rst" /\ AnsweredFirst(Tail(down))
        \/ ~AnsweredFirst(down)
    BY <1>1, <1>2, <2>1, AnsweredTail
  <2>3. ASSUME site.driver = "ntrack", faults = 0, client'.st = "open", Resetting'
        PROVE  AnsweredFirst(down')
    <3>1. Resetting /\ client.st = "open" /\ p.kind # "forged"
      BY <1>1, <1>6, <2>3 DEF Resetting, HasReset
    <3>2. AnsweredFirst(down)
      BY <1>1, <2>3, <3>1 DEF OrderInv
    <3> QED
      BY <1>1, <2>2, <3>1, <3>2
  <2>4. NeverReset'
    <3>1. CASE client.st = "reset"
      BY <1>1, <3>1 DEF OrderInv, NeverReset
    <3>2. CASE client.st = "open" /\ p.kind = "rst"
      <4>1. server.st = "closed" /\ site.driver # "nos"
        BY <1>4, <3>2 DEF ToClient
      <4>2. site.driver = "ntrack" /\ faults \in Nat
        BY <1>1, <4>1 DEF Typed
      <4>3. faults # 0
        <5> SUFFICES ASSUME faults = 0 PROVE FALSE
          OBVIOUS
        <5>1. AnsweredFirst(down)
          BY <1>1, <3>2, <4>1, <4>2 DEF OrderInv, Resetting
        <5> QED
          BY <2>2, <3>2, <5>1
      <4> QED
        BY <1>1, <4>2, <4>3 DEF NeverReset
    <3> QED
      BY <1>6, <3>1, <3>2 DEF NeverReset
  <2>5. AnsweredFirst(down') <=> AnsweredFirst(down)'
    BY DEF AnsweredFirst
  <2> QED
    BY <1>1, <2>3, <2>4, <2>5 DEF OrderInv
<1> QED
  BY <1>8, <1>10, <1>11, <1>12, <1>13 DEF RedirectInv

LEMMA StepServe == RedirectInv /\ Serve => RedirectInv'
<1> SUFFICES ASSUME RedirectInv, Serve PROVE RedirectInv'
  OBVIOUS
<1>1. /\ Typed /\ ClientInv /\ WireInv /\ ServerInv /\ OrderInv
      /\ UNCHANGED <<site, client, up, faults, exposed>>
      /\ wan # <<>> /\ wan' = Tail(wan)
  BY DEF RedirectInv, Serve
<1>2. PICK p : p = Head(wan)
  OBVIOUS
<1>3. p \in WanSegs /\ Tail(wan) \in Seq(WanSegs)
  <2> HIDE DEF WanSegs
  <2> QED BY <1>1, <1>2, Taken DEF WireInv
<1>4. /\ p \in Segments /\ ToServer(p)
      /\ p.seq \in Numbers /\ p.ack \in Numbers /\ p.len \in Nat
  BY <1>3 DEF WanSegs, Segments
<1>5. /\ server \in [st : {"open", "answered", "closed"}, snd : Numbers, rcv : Numbers]
      /\ server.snd \in Numbers /\ server.rcv \in Numbers
  BY <1>1 DEF Typed
<1>6. PICK rcv \in Numbers :
         rcv = IF Brings(p, server.rcv) THEN Plus(p.seq, p.len) ELSE server.rcv
  <2>1. p.seq + p.len \in Int
    BY <1>4, Room DEF Numbers
  <2>2. Plus(p.seq, p.len) \in Numbers
    BY <2>1, Turn DEF Plus
  <2> QED
    BY <1>5, <2>2
<1>7. wan \in Seq(Segments) /\ down \in Seq(Segments) /\ Tail(wan) \in Seq(Segments)
  <2>1. wan \in Seq(Segments) /\ down \in Seq(Segments)
    BY <1>1, Carried
  <2> QED
    BY <1>1, <2>1, Taken
<1>8. Sent' = Sent /\ Sent <= Sent'
  <2>1. Sent' = Sent BY <1>1 DEF Sent
  <2> QED BY <1>1, <2>1, SentSoFar
<1>9. ClientInv'
  BY <1>1, <1>8 DEF ClientInv, S0, R0
<1>10. HasReset(Tail(wan)) => HasReset(wan)
  BY <1>1, <1>7, ResetTail
<1>11. p.kind = "rst" => HasReset(wan)
  <2>1. p = wan[1] /\ 1 \in 1 .. Len(wan)
    BY <1>1, <1>2, <1>7, Taken
  <2> QED
    BY <2>1 DEF HasReset
<1>12. ~exposed /\ server.st # "closed" => p.kind \notin Requests
  <2> SUFFICES ASSUME ~exposed, server.st # "closed", p.kind \in Requests PROVE FALSE
    OBVIOUS
  <2>1. p = wan[1] /\ 1 \in 1 .. Len(wan) /\ Guarded(wan)
    BY <1>1, <1>2, <1>7, Taken DEF ServerInv
  <2>2. PICK j \in 1 .. 1 - 1 : wan[j].kind = "rst"
    BY <2>1 DEF Guarded
  <2> QED
    BY <2>2
<1>13. p.kind \notin Requests \cup {"rst"} => ~Brings(p, S0)
  <2> SUFFICES ASSUME p.kind \notin Requests \cup {"rst"} PROVE ~Brings(p, S0)
    OBVIOUS
  <2>1. FromClient(p)
    BY <1>4 DEF ToServer
  <2>2. CASE p.len = 0
    <3>1. S0 - p.seq \in Int
      BY <1>4, Room DEF Numbers
    <3>2. Dist(p.seq, S0) \in Numbers
      BY <3>1, Turn DEF Dist
    <3> QED
      BY <2>2, <3>2, Room DEF Brings, Numbers
  <2>3. CASE p.seq = Plus(S0, ReqLen) /\ p.len = RestLen
    <3>1. Dist(p.seq, S0) = SeqMod - ReqLen
      BY <2>3, Room, Distance
    <3> QED
      BY <2>3, <3>1, Room DEF Brings
  <2> QED
    BY <2>1, <2>2, <2>3 DEF FromClient
<1>14. ASSUME Typed', server.st = "closed" => server'.st = "closed",
              down' = down \/ \E x \in (DownSegs)' : down' = Append(down, x)
       PROVE  WireInv'
  <2>1. /\ up \in Seq((UpSegs)') /\ WanSegs \subseteq (WanSegs)' /\ down \in Seq((DownSegs)')
    BY <1>1, <1>8, <1>14, StillLegal
  <2> HIDE DEF UpSegs, WanSegs, DownSegs
  <2>2. wan' \in Seq((WanSegs)')
    BY <1>1, <1>3, <2>1, SeqMonotonic
  <2>3. down' \in Seq((DownSegs)')
    BY <1>14, <2>1, AppendProperties
  <2> QED
    BY <1>1, <2>1, <2>2, <2>3 DEF WireInv
<1>15. ASSUME server'.st = "closed" => server.st = "closed" \/ p.kind = "rst",
              down' = down \/ \E x \in Segments : down' = Append(down, x)
       PROVE  OrderInv'
  <2>1. Resetting' => Resetting
    BY <1>1, <1>10, <1>11, <1>15 DEF Resetting, HasReset
  <2>2. AnsweredFirst(down) => AnsweredFirst(down')
    BY <1>7, <1>15, AnsweredAppend
  <2>3. AnsweredFirst(down') <=> AnsweredFirst(down)'
    BY DEF AnsweredFirst
  <2> QED
    BY <1>1, <2>1, <2>2, <2>3 DEF OrderInv, NeverReset
<1>16. CASE server.st = "closed"
  <2>1. /\ server' = server
        /\ down' = IF p.kind = "rst" THEN down ELSE Append(down, Seg("rst", p.ack, 0, 0))
    BY <1>2, <1>16 DEF Serve
  <2>2. Typed'
    BY <1>1, <2>1 DEF Typed
  <2>3. PICK x \in Segments : x = Seg("rst", p.ack, 0, 0) /\ x.kind = "rst"
    <3>1. 0 \in Numbers
      BY Room DEF Numbers
    <3>2. Seg("rst", p.ack, 0, 0) \in Segments
      BY <1>4, <3>1, SegIs
    <3> QED
      BY <3>2 DEF Seg
  <2>4. p.kind # "rst" => x \in (DownSegs)'
    <3> SUFFICES ASSUME p.kind # "rst" PROVE x \in (DownSegs)'
      OBVIOUS
    <3>1. site.driver = "nos" => client.st # "open"
      BY <1>4 DEF ToServer, FromClient, Requests
    <3> QED
      BY <1>1, <1>16, <2>1, <2>3, <3>1 DEF DownSegs, ToClient
  <2>5. WireInv'
    BY <1>14, <1>16, <2>1, <2>2, <2>3, <2>4
  <2>6. OrderInv'
    BY <1>15, <1>16, <2>1, <2>3
  <2>7. ServerInv'
    BY <1>1, <1>16, <2>1 DEF ServerInv, S0
  <2> QED
    BY <1>9, <2>2, <2>5, <2>6, <2>7 DEF RedirectInv
<1>17. CASE server.st # "closed" /\ p.kind = "rst"
  <2>1. /\ server' = IF p.seq = server.rcv THEN [server EXCEPT !.st = "closed"] ELSE server
        /\ down' = down
    BY <1>2, <1>17 DEF Serve
  <2>2. /\ server' \in [st : {"open", "answered", "closed"}, snd : Numbers, rcv : Numbers]
        /\ server'.rcv = server.rcv
        /\ server'.st = IF p.seq = server.rcv THEN "closed" ELSE server.st
    <3> HIDE DEF Numbers
    <3> QED BY <1>5, <2>1
  <2>3. Typed'
    BY <1>1, <2>2 DEF Typed
  <2>4. p.seq = S0
    BY <1>4, <1>17 DEF ToServer, FromClient, Requests
  <2>5. WireInv' /\ OrderInv'
    BY <1>14, <1>15, <1>17, <2>1, <2>3
  <2>6. ServerInv'
    <3>1. ~exposed => server'.st = "closed"
      BY <1>1, <2>2, <2>4 DEF ServerInv
    <3> QED
      BY <1>1, <2>2, <3>1 DEF ServerInv, S0
  <2> QED
    BY <1>9, <2>3, <2>5, <2>6 DEF RedirectInv
<1>18. CASE server.st # "closed" /\ p.kind # "rst"
  <2>1. /\ server' = [server EXCEPT !.rcv = rcv,
                        !.st = IF p.kind \in Requests /\ Brings(p, server.rcv)
                               THEN "answered" ELSE server.st]
        /\ down' = IF p.kind \in Requests THEN Append(down, Answer(p, rcv)) ELSE down
    BY <1>2, <1>6, <1>18 DEF Serve, Requests
  <2>2. /\ server' \in [st : {"open", "answered", "closed"}, snd : Numbers, rcv : Numbers]
        /\ server'.rcv = rcv
        /\ server'.st = IF p.kind \in Requests /\ Brings(p, server.rcv)
                        THEN "answered" ELSE server.st
    <3>1. PICK s \in {"open", "answered", "closed"} :
             s = IF p.kind \in Requests /\ Brings(p, server.rcv) THEN "answered" ELSE server.st
      BY <1>5
    <3> HIDE DEF Numbers, Requests
    <3>2. server' = [server EXCEPT !.rcv = rcv, !.st = s]
      BY <2>1, <3>1
    <3> QED
      BY <1>5, <1>6, <3>1, <3>2
  <2>3. Typed'
    BY <1>1, <2>2 DEF Typed
  <2>4. PICK x \in Segments : x = Answer(p, rcv) /\ x.kind = "page"
    BY <1>5, Room, SegIs DEF Answer
  <2>5. x \in (DownSegs)'
    BY <2>4 DEF DownSegs, ToClient
  <2>6. server'.st # "closed"
    BY <1>18, <2>2
  <2>7. WireInv'
    BY <1>14, <1>18, <2>1, <2>3, <2>4, <2>5
  <2>8. OrderInv'
    BY <1>15, <2>1, <2>4, <2>6
  <2>9. ServerInv'
    <3>1. ~exposed => server'.st # "answered" /\ server'.rcv = S0
      BY <1>1, <1>6, <1>12, <1>13, <1>18, <2>2 DEF ServerInv
    <3>2. ~exposed => Guarded(wan')
      BY <1>1, <1>2, <1>7, <1>18, GuardedTail DEF ServerInv
    <3>3. Guarded(wan') <=> Guarded(wan)'
      BY DEF Guarded
    <3>4. site.driver = "nos" => server'.st # "answered"
      BY <1>1, <1>4, <2>2 DEF ServerInv, ToServer, Requests
    <3> QED
      BY <1>1, <3>1, <3>2, <3>3, <3>4 DEF ServerInv, S0
  <2> QED
    BY <1>9, <2>3, <2>7, <2>8, <2>9 DEF RedirectInv
<1> QED
  BY <1>16, <1>17, <1>18

\* What the driver makes of a packet of the client's: r is the reset of the
\* server and f the forged answer to it.
LEMMA DriverDoes ==
    ASSUME RedirectInv, NEW p \in Segments, FromClient(p), ntrack_hook_fw(p) \/ nos_do(p)
    PROVE  \E r \in Segments, f \in Segments :
              /\ r.kind = "rst" /\ r.seq = p.seq
              /\ f.kind = "forged" /\ f.seq = p.ack /\ f.ack = Plus(p.seq, p.len)
              /\ \/ /\ site.driver = "ntrack" /\ p.kind \in Requests
                    /\ wan' = Append(Append(wan, r), p) /\ down' = Append(down, f)
                    /\ faults' = faults /\ exposed' = exposed
                 \/ /\ site.driver = "ntrack" /\ p.kind \in Requests
                    /\ wan' = Append(wan, p) /\ exposed'
                    /\ \/ down' = Append(down, f) /\ faults' = faults
                       \/ down' \in {down, Append(down, f)} /\ faults' = faults + 1
                 \/ /\ \/ site.driver = "ntrack" /\ p.kind \notin Requests
                       \/ site.driver = "nos" /\ p.kind = "bye"
                    /\ wan' = Append(wan, p)
                    /\ UNCHANGED <<down, faults, exposed>>
                 \/ /\ site.driver = "nos" /\ p.kind \in {"get", "ack"}
                    /\ wan' \in {wan, Append(wan, r)} /\ down' \in {down, Append(down, f)}
                    /\ faults' \in {faults, faults + 1} /\ exposed' = exposed
                 \/ /\ site.driver = "nos" /\ UNCHANGED <<wan, down, faults, exposed>>
<1>1. /\ Typed /\ WireInv /\ p.seq \in Numbers /\ p.ack \in Numbers /\ p.len \in Nat
      /\ site.driver \in {"ntrack", "nos"}
  BY DEF RedirectInv, Typed, Segments
<1>2. PICK n \in Numbers : n = Plus(p.seq, p.len)
  <2>1. p.seq + p.len \in Int
    BY <1>1, Room DEF Numbers
  <2> QED
    BY <2>1, Turn DEF Plus
<1>3. PICK r \in Segments : /\ r = Seg("rst", p.seq, p.ack, 0)
                            /\ r.kind = "rst" /\ r.seq = p.seq
  BY <1>1, SegIs
<1>4. PICK f \in Segments : /\ f = Seg("forged", p.ack, Plus(p.seq, p.len), UrlLen)
                            /\ f.kind = "forged" /\ f.seq = p.ack /\ f.ack = n
  <2>1. Seg("forged", p.ack, n, UrlLen) \in Segments
    BY <1>1, Room, SegIs
  <2> QED
    BY <1>2, <2>1 DEF Seg
<1>5. /\ auth_reset(p) = r /\ nos_auth_reset(p) = r
      /\ auth_http(p) = f /\ auth_URL(p) = f
  BY <1>3, <1>4 DEF auth_reset, nos_auth_reset, auth_http, auth_URL
<1>6. /\ wan \o <<>> = wan /\ wan \o <<r>> = Append(wan, r)
      /\ wan \o Append(<<>>, p) = Append(wan, p)
      /\ wan \o Append(<<r>>, p) = Append(Append(wan, r), p)
  <2>1. wan \in Seq(Segments)
    BY <1>1, Carried
  <2> QED
    BY <2>1, Joined
<1>7. auth_check_http(p) <=> p.kind \in Requests
  BY <1>1, Room DEF auth_check_http, FromClient, Requests
<1>8. CASE ntrack_hook_fw(p)
  <2>1. site.driver = "ntrack"
    BY <1>8 DEF ntrack_hook_fw
  <2>2. PICK fail \in {"none", "url", "answer", "reset"} :
           IF auth_check_http(p)
           THEN /\ ntrack_redirect(p, fail)
                /\ exposed' = (exposed \/ Resets(auth_reset(p), fail) = <<>>)
           ELSE /\ fail = "none"
                /\ wan' = Append(wan, p)
                /\ UNCHANGED <<down, faults, exposed>>
    BY <1>8 DEF ntrack_hook_fw
  <2>3. CASE ~auth_check_http(p)
    BY <1>2, <1>3, <1>4, <1>7, <2>1, <2>2, <2>3
  <2>4. CASE auth_check_http(p)
    <3>1. /\ faults' = IF fail = "none" THEN faults ELSE faults + 1
          /\ down' = IF fail \in {"none", "reset"} THEN Append(down, f) ELSE down
          /\ wan' = wan \o Append(Resets(r, fail), p)
          /\ exposed' = (exposed \/ Resets(r, fail) = <<>>)
      BY <1>5, <2>2, <2>4 DEF ntrack_redirect, Allocate
    <3>2. CASE Resets(r, fail) = <<>>
      <4>1. wan' = Append(wan, p) /\ exposed'
        BY <1>6, <3>1, <3>2
      <4>2. \/ down' = Append(down, f) /\ faults' = faults
            \/ down' \in {down, Append(down, f)} /\ faults' = faults + 1
        BY <2>2, <3>1
      <4> QED
        BY <1>2, <1>3, <1>4, <1>7, <2>1, <2>4, <4>1, <4>2
    <3>3. CASE Resets(r, fail) = <<r>> /\ fail = "none"
      <4>1. wan' = Append(Append(wan, r), p)
        BY <1>6, <3>1, <3>3
      <4>2. <<r>> # <<>>
        OBVIOUS
      <4>3. exposed' = exposed
        BY <1>1, <3>1, <3>3, <4>2 DEF Typed
      <4> QED
        BY <1>2, <1>3, <1>4, <1>7, <2>1, <2>4, <3>1, <3>3, <4>1, <4>3
    <3> QED
      BY <3>2, <3>3 DEF Resets
  <2> QED
    BY <2>3, <2>4
<1>9. CASE nos_do(p)
  <2>1. site.driver = "nos" /\ exposed' = exposed
    BY <1>9 DEF nos_do
  <2>2. CASE p.kind = "bye"
    <3>1. wan' = Append(wan, p) /\ UNCHANGED <<down, faults>>
      BY <1>9, <2>2 DEF nos_do
    <3> QED
      BY <1>2, <1>3, <1>4, <2>1, <2>2, <3>1
  <2>3. CASE p.kind # "bye"
    <3>1. PICK residue \in BOOLEAN, fail \in {"none", "answer", "reset"} :
              IF nos_is_get(p, residue)
              THEN auth_redirect(p, fail)
              ELSE fail = "none" /\ UNCHANGED <<wan, down, faults>>
      BY <1>9, <2>3 DEF nos_do
    <3>2. CASE ~nos_is_get(p, residue)
      BY <1>2, <1>3, <1>4, <2>1, <3>1, <3>2
    <3>3. CASE nos_is_get(p, residue)
      <4>1. p.kind \in {"get", "ack"}
        BY <1>1, <2>3, <3>3, Room DEF nos_is_get, FromClient, Requests
      <4>2. /\ faults' \in {faults, faults + 1}
            /\ down' \in {down, Append(down, f)}
            /\ wan' = wan \o Resets(r, fail)
        BY <1>5, <3>1, <3>3 DEF auth_redirect, Allocate
      <4>3. wan' \in {wan, Append(wan, r)}
        BY <1>6, <4>2 DEF Resets
      <4> QED
        BY <1>2, <1>3, <1>4, <2>1, <4>1, <4>2, <4>3
    <3> QED
      BY <3>2, <3>3
  <2> QED
    BY <2>2, <2>3
<1> QED
  BY <1>8, <1>9

LEMMA StepForward == RedirectInv /\ Forward => RedirectInv'
<1> SUFFICES ASSUME RedirectInv, Forward PROVE RedirectInv'
  OBVIOUS
<1>1. /\ Typed /\ ClientInv /\ WireInv /\ ServerInv /\ OrderInv
      /\ UNCHANGED <<site, client, server>>
      /\ up # <<>> /\ up' = Tail(up)
  BY DEF RedirectInv, Forward
<1>2. PICK p : p = Head(up)
  OBVIOUS
<1>3. p \in UpSegs /\ Tail(up) \in Seq(UpSegs)
  <2> HIDE DEF UpSegs
  <2> QED BY <1>1, <1>2, Taken DEF WireInv
<1>4. p \in Segments /\ FromClient(p) /\ p.kind # "rst"
  BY <1>3 DEF UpSegs, FromClient, Requests
<1>5. PICK r \in Segments, f \in Segments :
         /\ r.kind = "rst" /\ r.seq = p.seq
         /\ f.kind = "forged" /\ f.seq = p.ack /\ f.ack = Plus(p.seq, p.len)
         /\ \/ /\ site.driver = "ntrack" /\ p.kind \in Requests
               /\ wan' = Append(Append(wan, r), p) /\ down' = Append(down, f)
               /\ faults' = faults /\ exposed' = exposed
            \/ /\ site.driver = "ntrack" /\ p.kind \in Requests
               /\ wan' = Append(wan, p) /\ exposed'
               /\ \/ down' = Append(down, f) /\ faults' = faults
                  \/ down' \in {down, Append(down, f)} /\ faults' = faults + 1
            \/ /\ \/ site.driver = "ntrack" /\ p.kind \notin Requests
                  \/ site.driver = "nos" /\ p.kind = "bye"
               /\ wan' = Append(wan, p)
               /\ UNCHANGED <<down, faults, exposed>>
            \/ /\ site.driver = "nos" /\ p.kind \in {"get", "ack"}
               /\ wan' \in {wan, Append(wan, r)} /\ down' \in {down, Append(down, f)}
               /\ faults' \in {faults, faults + 1} /\ exposed' = exposed
            \/ /\ site.driver = "nos" /\ UNCHANGED <<wan, down, faults, exposed>>
  <2>1. ntrack_hook_fw(p) \/ nos_do(p)
    BY <1>2 DEF Forward
  <2> QED
    BY <1>4, <2>1, DriverDoes
<1>6. Typed'
  <2>1. faults \in Nat /\ exposed \in BOOLEAN
    BY <1>1 DEF Typed
  <2>2. faults' \in Nat /\ exposed' \in BOOLEAN
    <3>1. faults' = faults \/ faults' = faults + 1
      BY <1>5
    <3>2. exposed' \in BOOLEAN
      BY <1>2, <2>1 DEF Forward, ntrack_hook_fw, nos_do
    <3> QED BY <2>1, <3>1, <3>2
  <2> QED
    BY <1>1, <2>2 DEF Typed
<1>7. Sent' = Sent /\ Sent <= Sent'
  <2>1. Sent' = Sent BY <1>1 DEF Sent
  <2> QED BY <1>1, <2>1, SentSoFar
<1>8. ClientInv'
  BY <1>1, <1>7 DEF ClientInv, S0, R0
<1>9. ASSUME p.kind \in Requests \/ (p.kind = "ack" /\ site.driver = "nos")
      PROVE  r \in WanSegs /\ f \in DownSegs
  <2>1. /\ p.seq = S0 /\ p.ack = R0 /\ p.len \in Nat /\ p.len <= Sent
        /\ p.kind \in Requests => p.len # 0
    <3>1. Sent \in Nat BY <1>1, SentSoFar
    <3> QED BY <1>4, <1>9, <3>1, Room DEF FromClient, Requests
  <2>2. r \in WanSegs
    BY <1>5, <2>1 DEF WanSegs, ToServer
  <2>3. f \in DownSegs
    <3>1. p.len \in 0 .. Sent /\ (site.driver = "ntrack" => p.len # 0)
      BY <1>1, <1>9, <2>1, SentSoFar
    <3>2. f.seq = R0 /\ f.ack = Plus(S0, p.len)
      BY <1>5, <2>1
    <3> QED
      BY <1>5, <3>1, <3>2 DEF DownSegs, ToClient
  <2> QED
    BY <2>2, <2>3
<1>10. p.kind = "bye" \/ site.driver = "ntrack" => p \in WanSegs
  BY <1>4 DEF WanSegs, ToServer
<1>11. WireInv'
  <2>1. /\ UpSegs \subseteq (UpSegs)' /\ WanSegs \subseteq (WanSegs)'
        /\ DownSegs \subseteq (DownSegs)'
    BY <1>1, <1>6, <1>7, StillLegal
  <2>2. wan \in Seq(WanSegs) /\ down \in Seq(DownSegs)
    BY <1>1 DEF WireInv
  <2>3. \A x \in WanSegs : Append(wan, x) \in Seq(WanSegs)
    <3> HIDE DEF WanSegs
    <3> QED BY <2>2, AppendProperties
  <2>4. \A x, y \in WanSegs : Append(Append(wan, x), y) \in Seq(WanSegs)
    <3> HIDE DEF WanSegs
    <3> QED BY <2>3, AppendProperties
  <2>5. \A x \in DownSegs : Append(down, x) \in Seq(DownSegs)
    <3> HIDE DEF DownSegs
    <3> QED BY <2>2, AppendProperties
  <2>6. wan' \in Seq(WanSegs) /\ down' \in Seq(DownSegs)
    <3> HIDE DEF WanSegs, DownSegs
    <3> QED BY <1>5, <1>9, <1>10, <2>2, <2>3, <2>4, <2>5 DEF Requests
  <2> HIDE DEF UpSegs, WanSegs, DownSegs
  <2> QED
    BY <1>1, <1>3, <2>1, <2>6, SeqMonotonic DEF WireInv
<1>12. wan \in Seq(Segments) /\ down \in Seq(Segments) /\ Append(wan, r) \in Seq(Segments)
  <2>1. wan \in Seq(Segments) /\ down \in Seq(Segments)
    BY <1>1, Carried
  <2> QED
    BY <2>1, Behind
<1>13. ServerInv'
  <2>1. ASSUME ~exposed', server.st # "closed"
        PROVE  Guarded(wan')
    <3>1. ~exposed /\ Guarded(wan)
      BY <1>1, <1>5, <2>1 DEF ServerInv
    <3>2. Guarded(Append(wan, r)) /\ HasReset(Append(wan, r))
      BY <1>5, <1>12, <3>1, GuardedAppend, ResetAppend DEF Requests
    <3>3. Guarded(Append(Append(wan, r), p))
      BY <1>4, <1>12, <3>2, GuardedAppend
    <3>4. p.kind \notin Requests => Guarded(Append(wan, p))
      BY <1>4, <1>12, <3>1, GuardedAppend
    <3> QED
      BY <1>5, <2>1, <3>1, <3>2, <3>3, <3>4 DEF Requests
  <2>2. Guarded(wan') <=> Guarded(wan)'
    BY DEF Guarded
  <2>3. ~exposed' => ~exposed
    BY <1>5
  <2> QED
    BY <1>1, <2>1, <2>2, <2>3 DEF ServerInv, S0
<1>14. OrderInv'
  <2>1. faults \in Nat /\ (faults' = faults \/ faults' = faults + 1)
    BY <1>1, <1>5 DEF Typed
  <2>2. ASSUME site.driver = "ntrack", faults' = 0, client.st = "open", Resetting'
        PROVE  AnsweredFirst(down')
    <3>1. faults = 0 /\ faults' = faults
      BY <2>1, <2>2
    <3>2. Resetting => AnsweredFirst(down)
      BY <1>1, <2>2, <3>1 DEF OrderInv
    <3>3. ~Resetting => ~HasReset(down)
      <4> SUFFICES ASSUME server.st # "closed" PROVE ~HasReset(down)
        BY DEF Resetting
      <4>1. down \in Seq(DownSegs)
        BY <1>1 DEF WireInv
      <4>2. \A i \in 1 .. Len(down) : down[i] \in DownSegs
        <5> HIDE DEF DownSegs
        <5> QED BY <4>1, ElementOfSeq
      <4> QED
        BY <4>2 DEF DownSegs, ToClient, HasReset
    <3>4. AnsweredFirst(Append(down, f))
      BY <1>5, <1>12, <3>2, <3>3, AnsweredAppend
    <3>5. wan' = Append(wan, p) => Resetting
      <4> SUFFICES ASSUME wan' = Append(wan, p) PROVE Resetting
        OBVIOUS
      <4>1. HasReset(wan') => HasReset(wan)
        BY <1>4, <1>12, ResetAppend
      <4>2. HasReset(wan') <=> HasReset(wan)'
        BY DEF HasReset
      <4> QED
        BY <1>1, <2>2, <4>1, <4>2 DEF Resetting
    <3>6. \/ down' = Append(down, f)
          \/ down' = down /\ wan' = Append(wan, p)
      <4>1. faults' # faults + 1 BY <2>1, <3>1
      <4> QED BY <1>5, <2>2, <4>1
    <3> QED
      BY <3>2, <3>4, <3>5, <3>6
  <2>3. AnsweredFirst(down') <=> AnsweredFirst(down)'
    BY DEF AnsweredFirst
  <2>4. NeverReset'
    <3>1. faults > 0 => faults' > 0
      BY <2>1
    <3> QED
      BY <1>1, <3>1 DEF OrderInv, NeverReset
  <2> QED
    BY <1>1, <2>2, <2>3, <2>4 DEF OrderInv
<1> QED
  BY <1>6, <1>8, <1>11, <1>13, <1>14 DEF RedirectInv

LEMMA StepLose == RedirectInv /\ Lose => RedirectInv'
<1> SUFFICES ASSUME RedirectInv, Lose PROVE RedirectInv'
  OBVIOUS
<1>1. /\ Typed /\ ClientInv /\ WireInv /\ ServerInv /\ OrderInv
      /\ UNCHANGED <<site, client, server>> /\ faults' = faults + 1 /\ faults \in Nat
  BY DEF RedirectInv, Lose, Typed
<1>2. Typed'
  <2>1. exposed' = exposed \/ exposed' = (exposed \/ Head(wan).kind = "rst")
    BY DEF Lose
  <2>2. exposed' \in BOOLEAN
    BY <1>1, <2>1 DEF Typed
  <2>3. faults' \in Nat
    BY <1>1
  <2> QED
    BY <1>1, <2>2, <2>3 DEF Typed
<1>3. Sent' = Sent /\ Sent <= Sent'
  <2>1. Sent' = Sent BY <1>1 DEF Sent
  <2> QED BY <1>1, <2>1, SentSoFar
<1>4. ClientInv'
  BY <1>1, <1>3 DEF ClientInv, S0, R0
<1>5. WireInv'
  <2>1. /\ up \in Seq((UpSegs)') /\ wan \in Seq((WanSegs)') /\ down \in Seq((DownSegs)')
    BY <1>1, <1>2, <1>3, StillLegal
  <2> HIDE DEF UpSegs, WanSegs, DownSegs
  <2>2. /\ up # <<>> => Tail(up) \in Seq((UpSegs)')
        /\ wan # <<>> => Tail(wan) \in Seq((WanSegs)')
        /\ down # <<>> => Tail(down) \in Seq((DownSegs)')
    BY <2>1, Taken
  <2>3. up' \in Seq((UpSegs)') /\ wan' \in Seq((WanSegs)') /\ down' \in Seq((DownSegs)')
    BY <2>1, <2>2 DEF Lose
  <2> QED
    BY <2>3 DEF WireInv
<1>6. ServerInv'
  <2>1. \/ wan' = wan /\ exposed' = exposed
        \/ /\ wan # <<>> /\ wan' = Tail(wan)
           /\ exposed' = (exposed \/ Head(wan).kind = "rst")
    BY DEF Lose
  <2>2. ~exposed' /\ server.st # "closed" => Guarded(wan')
    <3>1. wan \in Seq(Segments)
      BY <1>1, Carried
    <3> QED
      BY <1>1, <2>1, <3>1, GuardedTail DEF ServerInv
  <2>3. Guarded(wan') <=> Guarded(wan)'
    BY DEF Guarded
  <2> QED
    BY <1>1, <2>1, <2>2, <2>3 DEF ServerInv, S0
<1>7. OrderInv'
  BY <1>1 DEF OrderInv, NeverReset
<1> QED
  BY <1>2, <1>4, <1>5, <1>6, <1>7 DEF RedirectInv

LEMMA NextRedirect == RedirectInv /\ [Next]_vars => RedirectInv'
  BY StepBegin, StepContinue, StepRetry, StepGiveUp, StepForward, StepReceive, StepServe,
     StepLose, StepNothing DEF Next, Quiet

LEMMA RedirectHolds == Spec => []RedirectInv
  BY InitRedirect, NextRedirect, PTL DEF Spec

-----------------------------------------------------------------------------
(* The theorems *)

\* For all lengths, retries and faults, and a sequence space with room for
\* the exchange: while the client waits, every forged answer of auth_http and
\* auth_URL on its way starts at the byte it expects and acknowledges what it
\* has sent, across the wrap, and no fault changes that.
THEOREM RedirectForgedFits == Spec => []ForgedFits
<1>1. RedirectInv => ForgedFits
  <2> SUFFICES ASSUME RedirectInv, client.st = "open", NEW i \in DOMAIN down,
                      down[i].kind = "forged"
               PROVE  /\ down[i].seq = client.rcv
                      /\ Acceptable(down[i])
                      /\ site.driver = "ntrack" => down[i].ack # client.una
    BY DEF ForgedFits
  <2>1. /\ Typed /\ client.una = S0 /\ client.rcv = R0 /\ client.snd = Plus(S0, Sent)
        /\ down \in Seq(DownSegs)
    BY DEF RedirectInv, ClientInv, WireInv
  <2>2. down[i] \in DownSegs
    <3> HIDE DEF DownSegs
    <3> QED BY <2>1, ElementOfSeq
  <2>3. PICK a \in 0 .. Sent : /\ down[i].seq = R0 /\ down[i].ack = Plus(S0, a)
                               /\ site.driver = "ntrack" => a # 0
    BY <2>2 DEF DownSegs, ToClient
  <2>4. a \in Nat /\ a <= Sent /\ a < SeqMod /\ Sent \in Nat /\ Sent < SeqMod
    BY <2>1, SentSoFar, Room
  <2>5. Dist(S0, Plus(S0, a)) = a /\ Dist(S0, Plus(S0, Sent)) = Sent
    BY <2>4, Distance
  <2>6. Acceptable(down[i])
    BY <2>1, <2>3, <2>4, <2>5 DEF Acceptable
  <2>7. a # 0 => Plus(S0, a) # S0
    <3>1. Dist(S0, S0) = 0
      BY Room, Distance
    <3> QED BY <2>5, <3>1
  <2> QED
    BY <2>1, <2>3, <2>6, <2>7
<1> QED
  BY <1>1, RedirectHolds, PTL

\* The server answers a redirected request only when ntrack let it through
\* with no reset before it, however the packets of the two ends interleave.
THEOREM RedirectServerSilent == Spec => []ServerSilent
<1>1. RedirectInv => ServerSilent
  BY DEF RedirectInv, Typed, ServerInv, ServerSilent
<1> QED
  BY <1>1, RedirectHolds, PTL

\* The reset that ntrack_redirect and auth_redirect send to the server never
\* comes back to a client that still waits, unless ntrack lost a packet.
THEOREM RedirectNeverReset == Spec => []NeverReset
<1>1. RedirectInv => NeverReset
  BY DEF RedirectInv, OrderInv
<1> QED
  BY <1>1, RedirectHolds, PTL

=============================================================================
