-------------------------- MODULE ConversionsProofs --------------------------
(***************************************************************************)
(* Proofs about Conversions, for every range of the stream identifiers,    *)
(* every limit, and URLs of any length: what MCBoundary states of loggers, *)
(* channels and connections holds because the conversions do.              *)
(***************************************************************************)
EXTENDS MCBoundary, SequenceTheorems, WellFoundedInduction, TLAPS

(* ---- Log levels ----------------------------------------------------------------- *)

\* The filter of every logger level lets through the lines the logger would keep.
LEMMA FilterLetsThrough == FilterCovers
<1> SUFFICES ASSUME NEW py \in PyLevels, NEW rtc \in LogLevel.FATAL .. LogLevel.DEBUG
             PROVE  rtc <= _py_level_to_rtc(py) <=> _RTC_TO_PY_LEVEL[rtc] >= py
  BY DEF FilterCovers
<1>1. rtc \in {1, 2, 3, 4, 5} /\ py \in Int /\ py <= 50
  BY DEF LogLevel, PyLevels, CRITICAL
<1>2. _RTC_TO_PY_LEVEL[rtc] = IF rtc = 1 THEN 50 ELSE IF rtc = 2 THEN 40
                              ELSE IF rtc = 3 THEN 30 ELSE IF rtc = 4 THEN 20 ELSE 10
  BY <1>1 DEF _RTC_TO_PY_LEVEL, CRITICAL
<1>3. _py_level_to_rtc(py) = IF py <= 10 THEN 5 ELSE IF py <= 20 THEN 4 ELSE IF py <= 30 THEN 3
                             ELSE IF py <= 40 THEN 2 ELSE 1
  BY DEF _py_level_to_rtc, LogLevel
<1>q. QED
  BY <1>1, <1>2, <1>3

(* ---- The options of a data channel ------------------------------------------------ *)

\* An identifier within the range is not changed by the cut to it.
LEMMA WithinRange == ASSUME NEW n \in Nat, n < StreamRange PROVE n % StreamRange = n
  BY RangeAssumption

\* Every channel does with a message what its options say.
LEMMA OptionsAreKept == OptionsKept
<1> SUFFICES ASSUME NEW o \in DataChannelOptions,
                    NEW times \in 0..MaxLimit, NEW age \in 0..MaxLimit
             PROVE  LET c == Channel(rtcDataChannelInit(o))
                        lives == \/ o.max_packet_lifetime_ms = None
                                 \/ age < o.max_packet_lifetime_ms
                        tries == o.max_retransmits = None \/ times < o.max_retransmits
                        both == o.max_packet_lifetime_ms # None /\ o.max_retransmits # None
                    IN  /\ c.ordered = o.ordered
                        /\ ~both => (MayResend(c.limit, times, age) <=> lives /\ tries)
                        /\ both => (MayResend(c.limit, times, age) <=>
                                       IF o.max_packet_lifetime_ms > 0 THEN lives ELSE tries)
                        /\ o.stream_id < StreamRange => c.stream = o.stream_id
  BY DEF OptionsKept
<1> DEFINE life_ms == o.max_packet_lifetime_ms
           again == o.max_retransmits
           init == rtcDataChannelInit(o)
           c == Channel(init)
<1>1. /\ o.ordered \in BOOLEAN /\ life_ms \in {None} \cup Nat
      /\ again \in {None} \cup Nat /\ o.stream_id \in {None} \cup Nat
      /\ times \in Nat /\ age \in Nat
  BY RangeAssumption, LimitAssumption DEF DataChannelOptions
<1>2. /\ init.unordered = ~o.ordered
      /\ init.unreliable = (life_ms # None \/ again # None)
      /\ init.maxPacketLifeTime = OrZero(life_ms)
      /\ init.maxRetransmits = OrZero(again)
      /\ init.manualStream = (o.stream_id # None)
      /\ init.stream = OrZero(o.stream_id) % StreamRange
  BY DEF rtcDataChannelInit
<1> HIDE DEF init
<1>3. c.ordered = o.ordered
  BY <1>1, <1>2 DEF Channel
<1>4. c.limit = CASE ~init.unreliable -> <<"none", 0>>
                  [] init.unreliable /\ init.maxPacketLifeTime > 0
                         -> <<"lifetime", init.maxPacketLifeTime>>
                  [] OTHER -> <<"retransmits", init.maxRetransmits>>
  BY DEF Channel
<1>5. c.stream = IF init.manualStream THEN init.stream ELSE None
  BY DEF Channel
<1> HIDE DEF c
\* A lifetime above 0 is the limit.
<1>6. ASSUME life_ms > 0 PROVE MayResend(c.limit, times, age) <=> age < life_ms
  <2>1. life_ms # None /\ OrZero(life_ms) = life_ms
    BY <1>1, <1>6 DEF None, OrZero
  <2>2. c.limit = <<"lifetime", life_ms>>
    BY <1>2, <1>4, <1>6, <2>1
  <2>q. QED
    BY <2>2 DEF MayResend
\* Without one the retransmissions are; a lifetime of 0 alone makes them 0.
<1>7. ASSUME ~(life_ms > 0), life_ms # None \/ again # None
      PROVE  MayResend(c.limit, times, age) <=> times < OrZero(again)
  <2>1. init.unreliable /\ ~(init.maxPacketLifeTime > 0)
    <3>1. OrZero(life_ms) = 0
      <4>1. life_ms = None \/ life_ms = 0
        BY <1>1, <1>7
      <4>q. QED
        BY <4>1 DEF OrZero
    <3>q. QED
      <4>1. init.maxPacketLifeTime = 0 /\ ~(0 > 0)
        BY <1>2, <3>1
      <4>2. init.unreliable
        BY <1>2, <1>7
      <4>q. QED
        BY <4>1, <4>2
  <2>2. c.limit = <<"retransmits", OrZero(again)>>
    BY <1>2, <1>4, <2>1
  <2>q. QED
    BY <2>2 DEF MayResend
\* Without either there is no limit.
<1>8. ASSUME life_ms = None, again = None PROVE MayResend(c.limit, times, age)
  <2>1. c.limit = <<"none", 0>>
    BY <1>2, <1>4, <1>8
  <2>q. QED
    BY <2>1 DEF MayResend
<1> DEFINE lives == life_ms = None \/ age < life_ms
           tries == again = None \/ times < again
<1>9. ASSUME life_ms = None \/ again = None
      PROVE  MayResend(c.limit, times, age) <=> lives /\ tries
  <2>1. CASE life_ms = None /\ again = None
    BY <1>8, <2>1
  <2>2. CASE life_ms = None /\ again # None
    BY <1>7, <2>2 DEF None, OrZero
  <2>3. CASE life_ms # None /\ again = None
    <3>1. CASE life_ms > 0
      BY <1>6, <2>3, <3>1
    <3>2. CASE ~(life_ms > 0)
      <4>1. life_ms = 0 /\ OrZero(again) = 0 /\ ~(age < 0) /\ ~(times < 0)
        BY <1>1, <2>3, <3>2 DEF OrZero
      <4>q. QED
        BY <1>7, <2>3, <3>2, <4>1
    <3>q. QED
      BY <3>1, <3>2
  <2>q. QED
    BY <1>9, <2>1, <2>2, <2>3
<1>10. ASSUME life_ms # None, again # None
       PROVE  MayResend(c.limit, times, age) <=> IF life_ms > 0 THEN lives ELSE tries
  BY <1>6, <1>7, <1>10 DEF OrZero
<1>11. o.stream_id < StreamRange => c.stream = o.stream_id
  <2>1. CASE o.stream_id = None
    BY <1>2, <1>5, <2>1
  <2>2. CASE o.stream_id # None
    <3>1. o.stream_id \in Nat
      BY <1>1, <2>2
    <3>q. QED
      BY <1>2, <1>5, <2>2, <3>1, WithinRange DEF OrZero
  <2>q. QED
    BY <2>1, <2>2
<1>q. QED
  BY <1>3, <1>9, <1>10, <1>11 DEF c, init

(* ---- The credentials of an ICE server ------------------------------------------------ *)

\* A set of natural numbers that is not empty has a least element, which is Min.
LEMMA LeastElement == ASSUME NEW T, T \subseteq Nat, T # {}
                      PROVE  Min(T) \in T /\ \A y \in T : Min(T) <= y
<1> DEFINE R == OpToRel(<, Nat)
<1>1. \A i, j \in Nat : i < j => <<i, j>> \in R
  BY DEF OpToRel
<1>2. IsWellFoundedOn(R, Nat)
  BY NatLessThanWellFounded
<1> HIDE DEF R
<1>3. PICK x \in T : \A y \in T : <<y, x>> \notin R
  BY <1>2, WFMin
<1>4. ASSUME NEW y \in T PROVE x <= y
  <2>1. x \in Nat /\ y \in Nat /\ ~(y < x)
    BY <1>1, <1>3
  <2>q. QED
    BY <2>1
<1>q. QED
  BY <1>3, <1>4 DEF Min

\* The tokens of a URL, those of the credentials included.
Token == {":", "/", "@", "text", "user", "cred"}

\* n is where the first d of a sequence is, or the place behind its end.
IsFirst(n, u, d) ==
    /\ n \in 1..Len(u) + 1
    /\ n <= Len(u) => u[n] = d
    /\ \A i \in 1..n - 1 : u[i] # d

\* Every sequence has a first d or none, and is split there.
LEMMA Split == ASSUME NEW u \in Seq(Token), NEW d
               PROVE  \E n \in 1..Len(u) + 1 :
                         /\ IsFirst(n, u, d)
                         /\ Head1(u, d) = SubSeq(u, 1, n - 1)
                         /\ Tail1(u, d) = SubSeq(u, n + 1, Len(u))
<1>1. Len(u) \in Nat
  BY LenProperties
<1>2. CASE ~Contains(u, d)
  <2>1. Head1(u, d) = SubSeq(u, 1, Len(u))
    BY <1>2, SubSeqFull DEF Head1
  <2>2. Head1(u, d) = u
    BY <1>2 DEF Head1
  <2>3. Tail1(u, d) = SubSeq(u, Len(u) + 2, Len(u))
    BY <2>2 DEF Tail1
  <2>4. IsFirst(Len(u) + 1, u, d)
    BY <1>1, <1>2 DEF IsFirst, Contains
  <2>q. QED
    <3> WITNESS Len(u) + 1 \in 1..Len(u) + 1
    <3>q. QED
      BY <1>1, <2>1, <2>3, <2>4
<1>3. CASE Contains(u, d)
  <2> DEFINE I == {i \in 1..Len(u) : u[i] = d}
             n == Min(I)
  <2>1. I # {} /\ I \subseteq Nat
    BY <1>1, <1>3 DEF Contains
  <2>2. SelectInSeq(u, LAMBDA x : x = d) = n
    BY <2>1 DEF SelectInSeq
  <2> HIDE DEF I
  <2>3. n \in I /\ \A i \in I : n <= i
    BY <2>1, LeastElement
  <2> HIDE DEF n
  <2>4. n \in 1..Len(u) /\ u[n] = d
    BY <2>3 DEF I
  <2>5. ASSUME NEW i \in 1..n - 1 PROVE u[i] # d
    BY <1>1, <2>3, <2>4 DEF I
  <2>6. Head1(u, d) = SubSeq(u, 1, n - 1)
    BY <1>3, <2>2 DEF Head1
  <2>7. Len(SubSeq(u, 1, n - 1)) = n - 1
    <3>1. \A i \in 1..n - 1 : u[i] \in Token
      BY <1>1, <2>4, ElementOfSeq
    <3>q. QED
      BY <1>1, <2>4, <3>1, SubSeqProperties
  <2>8. Tail1(u, d) = SubSeq(u, n + 1, Len(u))
    BY <1>1, <2>4, <2>6, <2>7 DEF Tail1
  <2>q. QED
    BY <1>1, <2>4, <2>5, <2>6, <2>8 DEF IsFirst
<1>q. QED
  BY <1>2, <1>3

\* There is one such place only.
LEMMA FirstIsOne == ASSUME NEW u \in Seq(Token), NEW d, NEW m, NEW n,
                           IsFirst(m, u, d), IsFirst(n, u, d)
                    PROVE  m = n
<1>1. Len(u) \in Nat
  BY LenProperties
<1>q. QED
  BY <1>1 DEF IsFirst

\* A sequence that starts with something without a d is split where its rest is.
LEMMA SplitAfter ==
    ASSUME NEW a \in Seq(Token), NEW r \in Seq(Token), NEW d, ~Contains(a, d)
    PROVE  /\ Head1(a \o r, d) = a \o Head1(r, d)
           /\ Tail1(a \o r, d) = Tail1(r, d)
<1> DEFINE u == a \o r
<1>1. Len(a) \in Nat /\ Len(r) \in Nat
  BY LenProperties
<1>2. /\ u \in Seq(Token) /\ Len(u) = Len(a) + Len(r)
      /\ \A i \in 1..Len(a) + Len(r) : u[i] = IF i <= Len(a) THEN a[i] ELSE r[i - Len(a)]
  BY ConcatProperties
<1> HIDE DEF u
<1>3. PICK n \in 1..Len(r) + 1 : /\ IsFirst(n, r, d)
                                 /\ Head1(r, d) = SubSeq(r, 1, n - 1)
                                 /\ Tail1(r, d) = SubSeq(r, n + 1, Len(r))
  BY Split
<1>4. IsFirst(Len(a) + n, u, d)
  <2>1. Len(a) + n \in 1..Len(u) + 1
    BY <1>1, <1>2
  <2>2. Len(a) + n <= Len(u) => u[Len(a) + n] = d
    BY <1>1, <1>2, <1>3 DEF IsFirst
  <2>3. ASSUME NEW i \in 1..Len(a) + n - 1 PROVE u[i] # d
    <3>1. i \in Int /\ i >= 1 /\ i <= Len(a) + n - 1 /\ i <= Len(a) + Len(r)
      BY <1>1
    <3>2. CASE i <= Len(a)
      BY <1>1, <1>2, <3>1, <3>2 DEF Contains
    <3>3. CASE i > Len(a)
      <4>1. i - Len(a) \in 1..n - 1 /\ u[i] = r[i - Len(a)]
        BY <1>1, <1>2, <3>1, <3>3
      <4>q. QED
        BY <1>3, <4>1 DEF IsFirst
    <3>q. QED
      BY <1>1, <3>1, <3>2, <3>3
  <2>q. QED
    BY <2>1, <2>2, <2>3 DEF IsFirst
<1>5. /\ Head1(u, d) = SubSeq(u, 1, Len(a) + n - 1)
      /\ Tail1(u, d) = SubSeq(u, Len(a) + n + 1, Len(u))
  <2>1. PICK m \in 1..Len(u) + 1 : /\ IsFirst(m, u, d)
                                   /\ Head1(u, d) = SubSeq(u, 1, m - 1)
                                   /\ Tail1(u, d) = SubSeq(u, m + 1, Len(u))
    BY <1>2, Split
  <2>2. m = Len(a) + n
    BY <1>2, <1>4, <2>1, FirstIsOne
  <2>q. QED
    BY <2>1, <2>2
<1> DEFINE s == SubSeq(r, 1, n - 1)
           t == SubSeq(u, 1, Len(a) + n - 1)
           v == SubSeq(r, n + 1, Len(r))
           w == SubSeq(u, Len(a) + n + 1, Len(u))
<1>6. \A i \in 1..Len(r) : r[i] \in Token
  BY ElementOfSeq
<1>7. \A i \in 1..Len(u) : u[i] \in Token
  BY <1>2, ElementOfSeq
<1>8. s \in Seq(Token) /\ Len(s) = n - 1 /\ \A i \in 1..n - 1 : s[i] = r[i]
  <2>1. /\ s \in Seq(Token) /\ Len(s) = IF 1 <= n - 1 THEN n - 1 - 1 + 1 ELSE 0
        /\ \A i \in 1..n - 1 - 1 + 1 : s[i] = r[1 + i - 1]
    BY <1>1, <1>6, SubSeqProperties
  <2>q. QED
    BY <1>1, <2>1
<1>9. t \in Seq(Token) /\ Len(t) = Len(a) + n - 1 /\ \A i \in 1..Len(a) + n - 1 : t[i] = u[i]
  <2>1. /\ t \in Seq(Token)
        /\ Len(t) = IF 1 <= Len(a) + n - 1 THEN Len(a) + n - 1 - 1 + 1 ELSE 0
        /\ \A i \in 1..Len(a) + n - 1 - 1 + 1 : t[i] = u[1 + i - 1]
    BY <1>1, <1>2, <1>7, SubSeqProperties
  <2>q. QED
    BY <1>1, <2>1
<1>10. /\ v \in Seq(Token) /\ Len(v) = IF n + 1 <= Len(r) THEN Len(r) - n ELSE 0
       /\ \A i \in 1..Len(r) - n : v[i] = r[n + i]
  <2>1. /\ v \in Seq(Token) /\ Len(v) = IF n + 1 <= Len(r) THEN Len(r) - (n + 1) + 1 ELSE 0
        /\ \A i \in 1..Len(r) - (n + 1) + 1 : v[i] = r[n + 1 + i - 1]
    BY <1>1, <1>6, SubSeqProperties
  <2>q. QED
    BY <1>1, <2>1
<1>11. /\ w \in Seq(Token) /\ Len(w) = IF n + 1 <= Len(r) THEN Len(r) - n ELSE 0
       /\ \A i \in 1..Len(r) - n : w[i] = u[Len(a) + n + i]
  <2>1. /\ w \in Seq(Token)
        /\ Len(w) = IF Len(a) + n + 1 <= Len(u) THEN Len(u) - (Len(a) + n + 1) + 1 ELSE 0
        /\ \A i \in 1..Len(u) - (Len(a) + n + 1) + 1 : w[i] = u[Len(a) + n + 1 + i - 1]
    BY <1>1, <1>2, <1>7, SubSeqProperties
  <2>q. QED
    BY <1>1, <1>2, <2>1
<1> HIDE DEF s, t, v, w
<1>12. t = a \o s
  <2>1. /\ a \o s \in Seq(Token) /\ Len(a \o s) = Len(a) + n - 1
        /\ \A i \in 1..Len(a) + n - 1 : (a \o s)[i] = IF i <= Len(a) THEN a[i] ELSE s[i - Len(a)]
    <3>1. /\ a \o s \in Seq(Token) /\ Len(a \o s) = Len(a) + Len(s)
          /\ \A i \in 1..Len(a) + Len(s) : (a \o s)[i] = IF i <= Len(a) THEN a[i]
                                                         ELSE s[i - Len(a)]
      BY <1>8, ConcatProperties
    <3>q. QED
      BY <1>1, <1>8, <3>1
  <2>2. ASSUME NEW i \in 1..Len(t) PROVE t[i] = (a \o s)[i]
    <3>1. i \in Int /\ t[i] = u[i] /\ i \in 1..Len(a) + n - 1 /\ i \in 1..Len(a) + Len(r)
      BY <1>1, <1>9
    <3>2. CASE i <= Len(a)
      BY <1>2, <2>1, <3>1, <3>2
    <3>3. CASE i > Len(a)
      <4>1. i - Len(a) \in 1..n - 1
        BY <1>1, <3>1, <3>3
      <4>2. s[i - Len(a)] = r[i - Len(a)] /\ ~(i <= Len(a))
        BY <1>1, <1>8, <3>3, <4>1
      <4>q. QED
        BY <1>2, <2>1, <3>1, <4>2
    <3>4. i <= Len(a) \/ i > Len(a)
      BY <1>1, <3>1
    <3>q. QED
      BY <3>2, <3>3, <3>4
  <2>q. QED
    BY <1>9, <2>1, <2>2, SeqEqual
<1>13. v = w
  <2>1. ASSUME NEW i \in 1..Len(v) PROVE v[i] = w[i]
    <3>1. i \in 1..Len(r) - n
      BY <1>1, <1>10
    <3>2. u[Len(a) + n + i] = r[n + i]
      <4>1. /\ Len(a) + n + i \in 1..Len(a) + Len(r) /\ ~(Len(a) + n + i <= Len(a))
            /\ Len(a) + n + i - Len(a) = n + i
        BY <1>1, <3>1
      <4>q. QED
        BY <1>2, <4>1
    <3>q. QED
      BY <1>10, <1>11, <3>1, <3>2
  <2>q. QED
    BY <1>10, <1>11, <2>1, SeqEqual
<1>q. QED
  BY <1>3, <1>5, <1>12, <1>13 DEF s, t, u, v, w

\* A d in front is where a sequence is split.
LEMMA SplitBefore == ASSUME NEW r \in Seq(Token), NEW d \in Token
                     PROVE  Head1(<<d>> \o r, d) = <<>> /\ Tail1(<<d>> \o r, d) = r
<1> DEFINE u == <<d>> \o r
<1>1. <<d>> \in Seq(Token) /\ Len(<<d>>) = 1 /\ <<d>>[1] = d /\ Len(r) \in Nat
  BY LenProperties
<1>2. /\ u \in Seq(Token) /\ Len(u) = 1 + Len(r)
      /\ \A i \in 1..1 + Len(r) : u[i] = IF i <= 1 THEN <<d>>[i] ELSE r[i - 1]
  <2>1. /\ u \in Seq(Token) /\ Len(u) = Len(<<d>>) + Len(r)
        /\ \A i \in 1..Len(<<d>>) + Len(r) : u[i] = IF i <= Len(<<d>>) THEN <<d>>[i]
                                                  ELSE r[i - Len(<<d>>)]
    BY <1>1, ConcatProperties
  <2>q. QED
    BY <1>1, <2>1
<1> HIDE DEF u
<1>3. IsFirst(1, u, d)
  BY <1>1, <1>2 DEF IsFirst
<1>4. Head1(u, d) = SubSeq(u, 1, 0) /\ Tail1(u, d) = SubSeq(u, 2, Len(u))
  <2>1. PICK n \in 1..Len(u) + 1 : /\ IsFirst(n, u, d)
                                   /\ Head1(u, d) = SubSeq(u, 1, n - 1)
                                   /\ Tail1(u, d) = SubSeq(u, n + 1, Len(u))
    BY <1>2, Split
  <2>2. n = 1
    BY <1>2, <1>3, <2>1, FirstIsOne
  <2>q. QED
    BY <2>1, <2>2
<1>5. SubSeq(u, 1, 0) = <<>>
  BY SubSeqEmpty
<1>6. SubSeq(u, 2, Len(u)) = r
  <2>1. \A i \in 2..Len(u) : u[i] \in Token
    BY <1>1, <1>2, ElementOfSeq
  <2>2. /\ SubSeq(u, 2, Len(u)) \in Seq(Token)
        /\ Len(SubSeq(u, 2, Len(u))) = IF 2 <= Len(u) THEN Len(u) - 2 + 1 ELSE 0
        /\ \A i \in 1..Len(u) - 2 + 1 : SubSeq(u, 2, Len(u))[i] = u[2 + i - 1]
    BY <1>1, <1>2, <2>1, SubSeqProperties
  <2>3. Len(SubSeq(u, 2, Len(u))) = Len(r)
    BY <1>1, <1>2, <2>2
  <2>4. ASSUME NEW i \in 1..Len(r) PROVE SubSeq(u, 2, Len(u))[i] = r[i]
    BY <1>1, <1>2, <2>2
  <2>q. QED
    BY <2>2, <2>3, <2>4, SeqEqual
<1>q. QED
  BY <1>4, <1>5, <1>6 DEF u

\* The parts a sequence is split into are sequences, and the first has no d.
LEMMA Parts == ASSUME NEW u \in Seq(Token), NEW d
               PROVE  /\ Head1(u, d) \in Seq(Token) /\ Tail1(u, d) \in Seq(Token)
                      /\ ~Contains(Head1(u, d), d)
<1>1. PICK n \in 1..Len(u) + 1 : /\ IsFirst(n, u, d)
                                 /\ Head1(u, d) = SubSeq(u, 1, n - 1)
                                 /\ Tail1(u, d) = SubSeq(u, n + 1, Len(u))
  BY Split
<1>2. Len(u) \in Nat /\ \A i \in 1..Len(u) : u[i] \in Token
  BY LenProperties, ElementOfSeq
<1>3. /\ SubSeq(u, 1, n - 1) \in Seq(Token)
      /\ Len(SubSeq(u, 1, n - 1)) = n - 1
      /\ \A i \in 1..n - 1 : SubSeq(u, 1, n - 1)[i] = u[i]
  <2>1. \A i \in 1..n - 1 : u[i] \in Token
    BY <1>2
  <2>2. /\ SubSeq(u, 1, n - 1) \in Seq(Token)
        /\ Len(SubSeq(u, 1, n - 1)) = IF 1 <= n - 1 THEN n - 1 - 1 + 1 ELSE 0
        /\ \A i \in 1..n - 1 - 1 + 1 : SubSeq(u, 1, n - 1)[i] = u[1 + i - 1]
    BY <1>2, <2>1, SubSeqProperties
  <2>q. QED
    BY <1>2, <2>2
<1>4. SubSeq(u, n + 1, Len(u)) \in Seq(Token)
  <2>1. \A i \in n + 1..Len(u) : u[i] \in Token
    BY <1>2
  <2>q. QED
    BY <1>2, <2>1, SubSeqProperties
<1>q. QED
  BY <1>1, <1>3, <1>4 DEF Contains, IsFirst

\* A sequence that has a d in the middle, and none before, is split there.
LEMMA SplitAt == ASSUME NEW a \in Seq(Token), NEW r \in Seq(Token), NEW d \in Token,
                        ~Contains(a, d)
                 PROVE  Head1(a \o (<<d>> \o r), d) = a /\ Tail1(a \o (<<d>> \o r), d) = r
<1>1. <<d>> \o r \in Seq(Token)
  BY ConcatProperties
<1>2. /\ Head1(a \o (<<d>> \o r), d) = a \o Head1(<<d>> \o r, d)
      /\ Tail1(a \o (<<d>> \o r), d) = Tail1(<<d>> \o r, d)
  BY <1>1, SplitAfter
<1>3. a \o <<>> = a
  BY ConcatEmptySeq
<1>q. QED
  BY <1>2, <1>3, SplitBefore

\* Sequences of tokens, put together.
LEMMA Joined == ASSUME NEW a \in Seq(Token), NEW b \in Seq(Token)
                PROVE  /\ a \o b \in Seq(Token) /\ Len(a \o b) = Len(a) + Len(b)
BY ConcatProperties

\* Where the brackets are does not matter.
Brackets(a, b, c) == (a \o b) \o c = a \o (b \o c)

LEMMA Associative == \A a, b, c \in Seq(Token) : Brackets(a, b, c)
BY ConcatAssociative DEF Brackets

\* The credentials that are put into a URL.
Login == <<"user", ":", "cred">>

\* What a URL with them is made of.
LEMMA LoginParts ==
    /\ Login \in Seq(Token) /\ ~Contains(Login, "@") /\ ~Contains(Login, "/")
    /\ Head1(Login, ":") = <<"user">> /\ Tail1(Login, ":") = <<"cred">>
<1>1. Login \in Seq(Token) /\ ~Contains(Login, "@") /\ ~Contains(Login, "/")
  BY DEF Login, Token, Contains
<1>2. /\ <<"user">> \in Seq(Token) /\ <<"cred">> \in Seq(Token)
      /\ ":" \in Token /\ ~Contains(<<"user">>, ":")
  BY DEF Token, Contains
<1>3. Login = <<"user">> \o (<<":">> \o <<"cred">>)
  BY DEF Login
<1>q. QED
  BY <1>1, <1>2, <1>3, SplitAt

\* A sequence with them put in.
PutIn(h, r) ==
    LET x == Login \o (<<"@">> \o r)
    IN  /\ (h \o <<":", "user", ":", "cred", "@">>) \o r = h \o (<<":">> \o x)
        /\ x \in Seq(Token)
        /\ (h \o <<":", "user", ":", "cred", "@">>) \o r # <<>>

LEMMA WithLogin == \A h, r \in Seq(Token) : PutIn(h, r)
<1> SUFFICES ASSUME NEW h \in Seq(Token), NEW r \in Seq(Token) PROVE PutIn(h, r)
  OBVIOUS
<1>1. /\ <<"@">> \in Seq(Token) /\ <<":">> \in Seq(Token) /\ Len(<<":">>) = 1
      /\ <<":", "user", ":", "cred", "@">> = <<":">> \o (Login \o <<"@">>)
  BY DEF Token, Login
<1>2. PICK c \in Seq(Token) : c = <<":">>
  BY <1>1
<1>3. PICK s \in Seq(Token) : s = <<"@">>
  BY <1>1
<1>4. PICK l \in Seq(Token) : l = Login
  BY LoginParts
<1>5. PICK ls \in Seq(Token) : ls = l \o s
  BY Joined
<1>6. PICK cls \in Seq(Token) : cls = c \o ls
  BY Joined
<1>7. PICK sr \in Seq(Token) : sr = s \o r
  BY Joined
<1>8. PICK lsr \in Seq(Token) : lsr = l \o sr
  BY Joined
<1>9. PICK hcls \in Seq(Token) : hcls = h \o cls
  BY Joined
<1>10. Brackets(l, s, r) /\ Brackets(c, ls, r) /\ Brackets(h, cls, r)
  BY Associative
<1>11. hcls \o r = h \o (c \o lsr)
  BY <1>5, <1>6, <1>7, <1>8, <1>9, <1>10, Zenon DEF Brackets
<1>12. hcls \o r # <<>>
  <2>1. Len(hcls \o r) = Len(hcls) + Len(r) /\ Len(hcls) = Len(h) + Len(cls)
    BY <1>9, Joined
  <2>2. Len(cls) = 1 + Len(ls)
    BY <1>1, <1>2, <1>6, Joined
  <2>3. Len(h) \in Nat /\ Len(ls) \in Nat /\ Len(r) \in Nat
    BY LenProperties
  <2>4. Len(hcls \o r) # 0
    BY <2>1, <2>2, <2>3
  <2>q. QED
    BY <2>4
<1>13. hcls = h \o <<":", "user", ":", "cred", "@">> /\ lsr = Login \o (<<"@">> \o r)
  BY <1>1, <1>2, <1>3, <1>4, <1>5, <1>6, <1>7, <1>8, <1>9, Zenon
<1>q. QED
  BY <1>2, <1>11, <1>12, <1>13, Zenon DEF PutIn

\* A URL that is handed on is the one given, with the credentials behind the scheme.
LEMMA HandedOn ==
    ASSUME NEW url \in Seq(Token), Rest(url) # <<>>, ~Contains(Head1(Rest(url), "/"), "@")
    PROVE  /\ to_url(url) # Refused
           /\ Head1(to_url(url), ":") = Head1(url, ":")
           /\ Rest(to_url(url)) = Login \o (<<"@">> \o Rest(url))
<1> DEFINE x == Login \o (<<"@">> \o Rest(url))
<1>1. PICK h \in Seq(Token) : h = Head1(url, ":") /\ ~Contains(h, ":")
  BY Parts
<1>2. PICK r \in Seq(Token) : r = Rest(url)
  BY Parts DEF Rest
<1>3. to_url(url) = (h \o <<":", "user", ":", "cred", "@">>) \o r
  BY <1>1, <1>2 DEF to_url, Rest
<1>4. to_url(url) = h \o (<<":">> \o x) /\ x \in Seq(Token) /\ to_url(url) # <<>>
  <2>1. PutIn(h, r)
    BY WithLogin
  <2>q. QED
    BY <1>2, <1>3, <2>1, Zenon DEF PutIn
<1> HIDE DEF x
<1>5. ":" \in Token
  BY DEF Token
<1>6. Head1(to_url(url), ":") = h /\ Tail1(to_url(url), ":") = x
  BY <1>1, <1>4, <1>5, SplitAt
<1>q. QED
  BY <1>1, <1>4, <1>6 DEF Rest, Refused, x

\* The authority of such a URL is that of the one given, with the credentials in front.
LEMMA AuthorityOf ==
    ASSUME NEW r \in Seq(Token)
    PROVE  LET a == Head1(Login \o (<<"@">> \o r), "/")
           IN  /\ a = Login \o (<<"@">> \o Head1(r, "/")) /\ Contains(a, "@")
               /\ Head1(a, "@") = Login /\ Tail1(a, "@") = Head1(r, "/")
<1> DEFINE a == Head1(Login \o (<<"@">> \o r), "/")
           b == Head1(r, "/")
<1>1. b \in Seq(Token) /\ <<"@">> \in Seq(Token) /\ ~Contains(<<"@">>, "/") /\ "@" \in Token
  BY Parts DEF Token, Contains
<1>2. <<"@">> \o r \in Seq(Token) /\ <<"@">> \o b \in Seq(Token)
  BY <1>1, ConcatProperties
<1>3. a = Login \o Head1(<<"@">> \o r, "/")
  <2> DEFINE y == <<"@">> \o r
  <2>1. y \in Seq(Token)
    BY <1>2
  <2> HIDE DEF y
  <2>2. Head1(Login \o y, "/") = Login \o Head1(y, "/")
    BY <2>1, LoginParts, SplitAfter
  <2>q. QED
    BY <2>2 DEF y
<1>4. Head1(<<"@">> \o r, "/") = <<"@">> \o b
  BY <1>1, SplitAfter
<1>5. a = Login \o (<<"@">> \o b)
  BY <1>3, <1>4
<1> HIDE DEF b, a
<1>6. Head1(a, "@") = Login /\ Tail1(a, "@") = b
  BY <1>1, <1>5, LoginParts, SplitAt
<1>7. Contains(a, "@")
  <2>1. a # Login
    <3>1. Len(a) = Len(Login) + Len(<<"@">> \o b) /\ Len(<<"@">> \o b) = 1 + Len(b)
      BY <1>1, <1>2, <1>5, LoginParts, ConcatProperties
    <3>2. Len(b) \in Nat /\ Len(Login) \in Nat
      BY <1>1, LoginParts, LenProperties
    <3>q. QED
      BY <3>1, <3>2
  <2>q. QED
    BY <1>6, <2>1 DEF Head1
<1>q. QED
  BY <1>5, <1>6, <1>7 DEF a, b

\* What is read out of a URL that is handed on is what was in it, with the credentials,
\* once.
LEMMA CredentialsAreOnce == CredentialsOnce
<1> SUFFICES ASSUME NEW url \in Urls
             PROVE  LET given == Parsed(url)
                        read == Parsed(to_url(url))
                    IN  /\ ~Slashed(url) /\ given.login => to_url(url) = Refused
                        /\ ~Slashed(url) /\ Rest(url) # <<>> /\ ~given.login =>
                              /\ read.login /\ read.user = <<"user">> /\ read.pass = <<"cred">>
                              /\ \A f \in {"scheme", "host", "port"} : read[f] = given[f]
                        /\ to_url(url) # Refused => to_url(to_url(url)) = Refused
  BY DEF CredentialsOnce
<1> DEFINE r == Rest(url)
           out == to_url(url)
           a == Head1(r, "/")
<1>1. url \in Seq(Token)
  BY UrlAssumption DEF Urls, Token
<1>2. r \in Seq(Token)
  BY <1>1, Parts DEF Rest
<1>3. ASSUME r # <<>>, ~Contains(a, "@")
      PROVE  /\ Head1(out, ":") = Head1(url, ":") /\ out # Refused
             /\ Rest(out) = Login \o (<<"@">> \o r)
             /\ Contains(Head1(Rest(out), "/"), "@")
             /\ Head1(Head1(Rest(out), "/"), "@") = Login
             /\ Tail1(Head1(Rest(out), "/"), "@") = a
  BY <1>1, <1>2, <1>3, HandedOn, AuthorityOf
<1>4. out # Refused => to_url(out) = Refused
  BY <1>3 DEF to_url, Rest, Refused
<1>5. ASSUME ~Slashed(url), r # <<>>, ~Parsed(url).login
      PROVE  /\ Parsed(out).login
             /\ Parsed(out).user = <<"user">> /\ Parsed(out).pass = <<"cred">>
             /\ \A f \in {"scheme", "host", "port"} : Parsed(out)[f] = Parsed(url)[f]
  <2>1. ~Contains(a, "@")
    BY <1>5 DEF Parsed, Fields
  <2>2. ~Slashed(out)
    <3> DEFINE y == <<"@">> \o r
    <3>1. y \in Seq(Token)
      BY <1>2, Joined DEF Token
    <3>2. Rest(out) = Login \o y
      BY <1>3, <1>5, <2>1
    <3> HIDE DEF y
    <3>3. (Login \o y)[1] = Login[1]
      <4>1. Len(Login) = 3 /\ Len(y) \in Nat
        BY <3>1, LenProperties DEF Login
      <4>q. QED
        BY <3>1, <4>1, LoginParts, ConcatProperties
    <3>4. Login[1] = "user"
      BY DEF Login
    <3>q. QED
      BY <3>2, <3>3, <3>4 DEF Slashed
  <2>3. Parsed(url) = Fields(Head1(url, ":"), a)
    BY <1>5 DEF Parsed
  <2>4. Parsed(url) = [scheme |-> Head1(url, ":"), login |-> FALSE,
                       user |-> Head1(<<>>, ":"), pass |-> Tail1(<<>>, ":"),
                       host |-> Head1(a, ":"), port |-> Tail1(a, ":")]
    <3> HIDE DEF a
    <3>1. Contains(a, "@") = FALSE
      BY <2>1 DEF Contains
    <3>q. QED
      BY <2>3, <3>1, Zenon DEF Fields
  <2>5. Parsed(out) = Fields(Head1(url, ":"), Head1(Rest(out), "/"))
    BY <1>3, <1>5, <2>1, <2>2 DEF Parsed
  <2>6. Parsed(out) = [scheme |-> Head1(url, ":"), login |-> TRUE,
                       user |-> <<"user">>, pass |-> <<"cred">>,
                       host |-> Head1(a, ":"), port |-> Tail1(a, ":")]
    BY <1>3, <1>5, <2>1, <2>5, LoginParts DEF Fields
  <2>q. QED
    BY <2>4, <2>6
<1>6. ~Slashed(url) /\ Parsed(url).login => out = Refused
  BY DEF Parsed, Fields, to_url, Rest
<1>q. QED
  BY <1>4, <1>5, <1>6

(* ---- Every logger, channel and connection ------------------------------------------- *)

\* Once install_python_logger has the callback in place, the filter lets exactly the
\* lines through that the logger would keep, whatever its level.
THEOREM LoggersFilter == Spec => []LinesAsLogged
<1>1. LinesAsLogged
  BY FilterLetsThrough DEF LinesAsLogged
<1>q. QED
  BY <1>1, PTL

\* A channel that create_data_channel has made sends a message again exactly as long as the
\* one limit asked for allows, a lifetime of 0 included, or of two the one that counts, and
\* is on the stream asked for, whatever the range of identifiers and the limits are.
THEOREM ChannelsConfigured == Spec => []ChannelsAsAsked
<1>1. ChannelsAsAsked
  BY OptionsAreKept DEF ChannelsAsAsked
<1>q. QED
  BY <1>1, PTL

\* Of the URL of an ICE server libdatachannel reads the host that was given, with the
\* credentials given and no others, however long the URL is; of one with slashes after the
\* scheme it is only said that credentials are not put in twice.
THEOREM ServersConfigured == Spec => []ServersAsGiven
<1>1. ServersAsGiven
  BY CredentialsAreOnce DEF ServersAsGiven
<1>q. QED
  BY <1>1, PTL
==============================================================================
