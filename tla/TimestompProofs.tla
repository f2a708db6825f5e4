--------------------------- MODULE TimestompProofs ----------------------------
(***************************************************************************)
(* timestomp answers a row by its own times, agrees with the flag of       *)
(* read_mft, and accuses no record falsely of the order of its times: for  *)
(* every batch, unit, epoch and length of a tick and of a second.          *)
(***************************************************************************)
EXTENDS Timestomp, SequenceTheorems, TLAPS

Micros == {<< >>} \cup {<<m>> : m \in Int}

-----------------------------------------------------------------------------
(***************************************************************************)
(* Arithmetic: a quotient undoes a product, and is monotonic.              *)
(***************************************************************************)
LEMMA ProductIs ==
    ASSUME NEW a \in Int, NEW b \in Int
    PROVE  a * b \in Int /\ (-a) * b = -(a * b)
  OBVIOUS

\* A product divides exactly.
LEMMA DivideProduct ==
    ASSUME NEW a \in Int, NEW b \in Nat \ {0}
    PROVE  (a * b) \div b = a
  OBVIOUS

\* Without a remainder, division is undone by multiplication.
LEMMA DivideExact ==
    ASSUME NEW a \in Int, NEW b \in Nat \ {0}, a % b = 0
    PROVE  (a \div b) * b = a
  OBVIOUS

\* Division keeps the order.
LEMMA DivideMonotonic ==
    ASSUME NEW a \in Int, NEW c \in Int, NEW b \in Nat \ {0}, a <= c
    PROVE  a \div b \in Int /\ a \div b <= c \div b
  OBVIOUS

\* Division keeps the sign.
LEMMA DivideSign ==
    ASSUME NEW a \in Nat, NEW b \in Nat \ {0}
    PROVE  a \div b \in Nat
  OBVIOUS

\* Division towards zero of a product is exact.
LEMMA QuotientOfProduct ==
    ASSUME NEW a \in Int, NEW b \in Nat \ {0}
    PROVE  Quotient(a * b, b) = a
<1>1. /\ a * b \in Int /\ (-a) * b = -(a * b)
      /\ (a * b) \div b = a /\ ((-a) * b) \div b = -a
  BY ProductIs, DivideProduct
<1> QED
  BY <1>1 DEF Quotient

\* Division towards zero keeps the order.
LEMMA QuotientMonotonic ==
    ASSUME NEW a \in Int, NEW c \in Int, NEW b \in Nat \ {0}, a <= c
    PROVE  Quotient(a, b) \in Int /\ Quotient(c, b) \in Int /\ Quotient(a, b) <= Quotient(c, b)
<1>1. \A x, y \in Int : x <= y => x \div b \in Int /\ y \div b \in Int /\ x \div b <= y \div b
  BY DivideMonotonic
<1>2. \A x \in Nat : x \div b \in Nat
  BY DivideSign
<1>3. CASE a >= 0
  BY <1>1, <1>3 DEF Quotient
<1>4. CASE c < 0
  <2>1. -c <= -a /\ -c \in Int /\ -a \in Int
    BY <1>4
  <2> QED
    BY <1>1, <1>4, <2>1 DEF Quotient
<1>5. CASE a < 0 /\ c >= 0
  <2>1. -a \in Nat /\ c \in Nat
    BY <1>5
  <2>2. (-a) \div b \in Nat /\ c \div b \in Nat
    BY <1>2, <2>1
  <2> QED
    BY <1>5, <2>2 DEF Quotient
<1> QED
  BY <1>3, <1>4, <1>5

-----------------------------------------------------------------------------
(***************************************************************************)
(* Times.                                                                  *)
(***************************************************************************)
LEMMA TicksAre ==
    /\ TICKS \in Nat \ {0} /\ SECOND * TICKS \in Nat \ {0}
    /\ FILETIME_EPOCH_UNIX_SECS \in Int
    /\ FILETIME_EPOCH_UNIX_SECS * SECOND * TICKS \in Int
    /\ FILETIME_EPOCH_UNIX_SECS * SECOND * TICKS = FILETIME_EPOCH_UNIX_SECS * (SECOND * TICKS)
<1>1. \A b, c \in Nat \ {0} : b * c \in Nat \ {0}
  OBVIOUS
<1>2. \A a, b, c \in Int : a * b * c \in Int /\ a * b * c = a * (b * c)
  OBVIOUS
<1>3. SECOND \in Nat \ {0} /\ TICKS \in Nat \ {0} /\ FILETIME_EPOCH_UNIX_SECS \in Int
  BY TimesAssumption
<1>4. FILETIME_EPOCH_UNIX_SECS \in Int /\ SECOND \in Int /\ TICKS \in Int
  BY <1>3
<1> QED
  BY <1>1, <1>2, <1>3, <1>4

\* A FILETIME is a number of microseconds.
LEMMA ToMicrosIs ==
    ASSUME NEW filetime \in Nat
    PROVE  ToMicros(filetime) \in Micros
<1>1. UnixTicks(filetime) \in Int
  BY TicksAre DEF UnixTicks
<1> QED
  BY <1>1, TicksAre, QuotientMonotonic DEF ToMicros, Micros

\* What is set and earlier after the conversion was so before.
LEMMA BeforeOnDisk ==
    ASSUME NEW a \in Nat, NEW b \in Nat, Before(ToMicros(a), ToMicros(b))
    PROVE  0 < a /\ a < b
<1>1. UnixTicks(a) \in Int /\ UnixTicks(b) \in Int
  BY TicksAre DEF UnixTicks
<1>2. 0 < a
  <2> SUFFICES ASSUME a = 0 PROVE FALSE
    OBVIOUS
  <2>1. UnixTicks(a) = FILETIME_EPOCH_UNIX_SECS * (SECOND * TICKS)
    BY TicksAre DEF UnixTicks
  <2>2. Quotient(UnixTicks(a), SECOND * TICKS) = FILETIME_EPOCH_UNIX_SECS
    BY <2>1, TicksAre, QuotientOfProduct
  <2>3. ToMicros(a) = << >>
    BY <2>2, TicksAre DEF ToMicros
  <2> QED
    BY <2>3 DEF Before
<1>3. a < b
  <2> SUFFICES ASSUME b <= a PROVE FALSE
    OBVIOUS
  <2>1. UnixTicks(b) <= UnixTicks(a)
    BY TicksAre DEF UnixTicks
  <2>2. /\ Quotient(UnixTicks(b), TICKS) <= Quotient(UnixTicks(a), TICKS)
        /\ Quotient(UnixTicks(a), TICKS) \in Int /\ Quotient(UnixTicks(b), TICKS) \in Int
    BY <1>1, <2>1, TicksAre, QuotientMonotonic
  <2>3. ToMicros(a)[1] = Quotient(UnixTicks(a), TICKS) /\ ToMicros(b)[1] = Quotient(UnixTicks(b), TICKS)
    BY DEF ToMicros, Before
  <2> QED
    BY <2>2, <2>3 DEF Before
<1> QED
  BY <1>2, <1>3

\* A time that the unit can hold is read as it was before the cast.
LEMMA RoundTrip ==
    ASSUME NEW m \in Micros, unit \in Units, m # << >> => m[1] % Scale = 0
    PROVE  TsMicros(unit, CastTo(unit, m)) = m
<1>1. CASE m = << >>
  BY <1>1 DEF CastTo, TsMicros
<1>2. ASSUME NEW k \in Int, m = <<k>>, k % Scale = 0
      PROVE  TsMicros(unit, CastTo(unit, m)) = m
  <2>1. CASE unit = "Second"
    <3>1. (k \div SECOND) * SECOND = k
      BY <1>2, <2>1, TimesAssumption, DivideExact DEF Scale
    <3> QED
      BY <1>2, <2>1, <3>1 DEF CastTo, TsMicros
  <2>2. CASE unit = "Millisecond"
    <3>1. (k \div MILLI) * MILLI = k
      BY <1>2, <2>2, TimesAssumption, DivideExact DEF Scale
    <3> QED
      BY <1>2, <2>2, <3>1 DEF CastTo, TsMicros
  <2>3. CASE unit = "Microsecond"
    BY <1>2, <2>3 DEF CastTo, TsMicros
  <2>4. CASE unit = "Nanosecond"
    <3>1. Quotient(k * NANO, NANO) = k
      BY TimesAssumption, QuotientOfProduct
    <3> QED
      BY <1>2, <2>4, <3>1 DEF CastTo, TsMicros
  <2> QED
    BY <2>1, <2>2, <2>3, <2>4 DEF Units
<1> QED
  BY <1>1, <1>2 DEF Micros

\* Times that the unit holds exactly are read as they were written.
LEMMA ExactIsRead ==
    ASSUME NEW row \in Rows, unit \in Units, Exact(row)
    PROVE  ReadQuad(unit, row.si) = Macb(row.si) /\ ReadQuad(unit, row.fn) = Macb(row.fn)
<1>1. ASSUME NEW q \in {row.si, row.fn} PROVE ReadQuad(unit, q) = Macb(q)
  <2>1. ASSUME NEW t \in Times PROVE TsMicros(unit, CastTo(unit, Macb(q)[t])) = Macb(q)[t]
    <3>1. Macb(q)[t] = ToMicros(q[t]) /\ q[t] \in Nat
      BY DEF Macb, Rows
    <3>2. ToMicros(q[t]) \in Micros /\ (ToMicros(q[t]) # << >> => ToMicros(q[t])[1] % Scale = 0)
      BY <3>1, ToMicrosIs DEF Exact
    <3> QED
      BY <3>1, <3>2, RoundTrip
  <2> QED
    BY <2>1 DEF ReadQuad, Macb
<1> QED
  BY <1>1

-----------------------------------------------------------------------------
(***************************************************************************)
(* Reasons.                                                                *)
(***************************************************************************)
Codes == {"si-creation-before-fn-creation", "si-before-fn", "zero-subsecond",
          "fn-newer-than-si", "all-four-equal"}

\* A reason is there if it applies.
LEMMA WhenIs ==
    ASSUME NEW applies \in BOOLEAN, NEW reason \in Codes
    PROVE  /\ When(applies, reason) \in Seq(Codes)
           /\ \A r \in Codes : Has(When(applies, reason), r) <=> applies /\ r = reason
<1>1. CASE applies
  BY <1>1 DEF When, Has
<1>2. CASE ~applies
  BY <1>2 DEF When, Has
<1> QED
  BY <1>1, <1>2

\* A reason is in one part or in the other.
LEMMA HasEither ==
    ASSUME NEW p \in Seq(Codes), NEW q \in Seq(Codes), NEW r
    PROVE  p \o q \in Seq(Codes) /\ (Has(p \o q, r) <=> Has(p, r) \/ Has(q, r))
<1>1. /\ p \o q \in Seq(Codes) /\ Len(p \o q) = Len(p) + Len(q)
      /\ Len(p) \in Nat /\ Len(q) \in Nat
      /\ \A i \in 1..Len(p) : (p \o q)[i] = p[i]
      /\ \A i \in 1..Len(q) : (p \o q)[Len(p) + i] = q[i]
  OBVIOUS
<1> DEFINE joined == p \o q
<1> HIDE DEF joined
<1>2. ASSUME NEW i \in 1..Len(joined), joined[i] = r PROVE Has(p, r) \/ Has(q, r)
  <2>1. CASE i \in 1..Len(p)
    BY <1>1, <1>2, <2>1 DEF joined, Has
  <2>2. CASE i \notin 1..Len(p)
    <3>1. i - Len(p) \in 1..Len(q) /\ Len(p) + (i - Len(p)) = i
      BY <1>1, <1>2, <2>2 DEF joined
    <3> QED
      BY <1>1, <1>2, <3>1 DEF joined, Has
  <2> QED
    BY <2>1, <2>2
<1>3. ASSUME NEW i \in 1..Len(p), p[i] = r PROVE Has(joined, r)
  <2>1. i \in 1..Len(joined)
    BY <1>1 DEF joined
  <2> QED
    BY <1>1, <1>3, <2>1 DEF joined, Has
<1>4. ASSUME NEW i \in 1..Len(q), q[i] = r PROVE Has(joined, r)
  <2>1. Len(p) + i \in 1..Len(joined)
    BY <1>1 DEF joined
  <2> QED
    BY <1>1, <1>4, <2>1 DEF joined, Has
<1>5. Has(joined, r) <=> Has(p, r) \/ Has(q, r)
  BY <1>2, <1>3, <1>4 DEF Has
<1> QED
  BY <1>1, <1>5 DEF joined

\* What each reason says of the times.
LEMMA ReasonsAre ==
    ASSUME NEW si, NEW fn
    PROVE  /\ Reasons(si, fn) \in Seq(Codes)
           /\ Has(Reasons(si, fn), "si-before-fn") => Before(si.modified, fn.modified)
           /\ Has(Reasons(si, fn), "si-creation-before-fn-creation")
                 => Before(si.created, fn.created)
<1>1. \A a, b : Before(a, b) \in BOOLEAN
  BY DEF Before
<1>2. (IsZeroSubsecond(si.created) /\ IsZeroSubsecond(si.modified)) \in BOOLEAN
      /\ AllFourEqual(si) \in BOOLEAN
  BY DEF IsZeroSubsecond, AllFourEqual
<1> DEFINE a == When(Before(si.created, fn.created), "si-creation-before-fn-creation")
           b == When(Before(si.modified, fn.modified), "si-before-fn")
           c == When(IsZeroSubsecond(si.created) /\ IsZeroSubsecond(si.modified),
                     "zero-subsecond")
           d == When(Before(si.created, fn.created), "fn-newer-than-si")
           e == When(AllFourEqual(si), "all-four-equal")
<1>3. /\ "si-creation-before-fn-creation" \in Codes /\ "si-before-fn" \in Codes
      /\ "zero-subsecond" \in Codes /\ "fn-newer-than-si" \in Codes
      /\ "all-four-equal" \in Codes
  BY DEF Codes
<1>4. /\ a \in Seq(Codes)
      /\ \A r \in Codes : Has(a, r) <=> Before(si.created, fn.created)
                                       /\ r = "si-creation-before-fn-creation"
  BY <1>1, <1>3, WhenIs
<1>5. /\ b \in Seq(Codes)
      /\ \A r \in Codes : Has(b, r) <=> Before(si.modified, fn.modified) /\ r = "si-before-fn"
  BY <1>1, <1>3, WhenIs
<1>6. /\ c \in Seq(Codes)
      /\ \A r \in Codes : Has(c, r) => r = "zero-subsecond"
  BY <1>2, <1>3, WhenIs
<1>7. /\ d \in Seq(Codes)
      /\ \A r \in Codes : Has(d, r) => r = "fn-newer-than-si"
  BY <1>1, <1>3, WhenIs
<1>8. /\ e \in Seq(Codes)
      /\ \A r \in Codes : Has(e, r) => r = "all-four-equal"
  BY <1>2, <1>3, WhenIs
<1>9. Reasons(si, fn) = a \o b \o c \o d \o e
  BY DEF Reasons
<1> HIDE DEF a, b, c, d, e
<1>10. a \o b \o c \o d \o e \in Seq(Codes)
       /\ \A r \in Codes : Has(a \o b \o c \o d \o e, r)
                <=> Has(a, r) \/ Has(b, r) \/ Has(c, r) \/ Has(d, r) \/ Has(e, r)
  <2>1. a \o b \in Seq(Codes) /\ \A r : Has(a \o b, r) <=> Has(a, r) \/ Has(b, r)
    BY <1>4, <1>5, HasEither
  <2>2. a \o b \o c \in Seq(Codes) /\ \A r : Has(a \o b \o c, r) <=> Has(a \o b, r) \/ Has(c, r)
    BY <2>1, <1>6, HasEither
  <2>3. /\ a \o b \o c \o d \in Seq(Codes)
        /\ \A r : Has(a \o b \o c \o d, r) <=> Has(a \o b \o c, r) \/ Has(d, r)
    BY <2>2, <1>7, HasEither
  <2>4. /\ a \o b \o c \o d \o e \in Seq(Codes)
        /\ \A r : Has(a \o b \o c \o d \o e, r) <=> Has(a \o b \o c \o d, r) \/ Has(e, r)
    BY <2>3, <1>8, HasEither
  <2> QED
    BY <2>1, <2>2, <2>3, <2>4
<1> QED
  BY <1>3, <1>4, <1>5, <1>6, <1>7, <1>8, <1>9, <1>10

-----------------------------------------------------------------------------
(***************************************************************************)
(* A batch: the rows scored so far have their verdicts, and the column of  *)
(* lists has their reasons between their offsets.                          *)
(***************************************************************************)
\* The reasons that the scalar has for a row.
OwnReasons(i) == Reasons(ReadQuad(unit, batch[i].si), ReadQuad(unit, batch[i].fn))

IInv ==
    /\ batch \in Batches
    /\ unit \in Units
    /\ suspect \in Seq(BOOLEAN)
    /\ Len(suspect) <= Len(batch)
    /\ reasons \in Seq(Codes)
    /\ count = Len(reasons)
    /\ offsets \in Seq(Nat)
    /\ Len(offsets) = Len(suspect) + 1
    /\ offsets[Len(suspect) + 1] = count
    /\ \A i \in 1..Len(offsets) : offsets[i] \in 0..count
    /\ \A i \in 1..Len(suspect) :
          ReasonsOfRow(i) = OwnReasons(i) /\ suspect[i] = Suspect(OwnReasons(i))

\* What is between two offsets stays there when reasons are added, and what is added is
\* what is behind the offset that was the last.
LEMMA SlicesStay ==
    ASSUME NEW p \in Seq(Codes), NEW q \in Seq(Codes)
    PROVE  /\ \A a, b \in 0..Len(p) : SubSeq(p \o q, a + 1, b) = SubSeq(p, a + 1, b)
           /\ SubSeq(p \o q, Len(p) + 1, Len(p) + Len(q)) = q
<1>1. ASSUME NEW a \in 0..Len(p), NEW b \in 0..Len(p)
      PROVE  SubSeq(p \o q, a + 1, b) = SubSeq(p, a + 1, b)
  <2>1. CASE b < a + 1
    BY <2>1, SubSeqEmpty
  <2>2. CASE a + 1 <= b
    <3>1. a + 1 \in 1..Len(p) /\ b \in 1..Len(p)
      BY <2>2
    <3> QED
      BY <3>1, SubSeqOfConcat1
  <2> QED
    BY <2>1, <2>2
<1>2. SubSeq(p \o q, Len(p) + 1, Len(p) + Len(q)) = q
  <2>1. CASE Len(q) = 0
    <3>1. q = << >>
      BY <2>1, EmptySeq
    <3> QED
      BY <2>1, <3>1, SubSeqEmpty
  <2>2. CASE Len(q) > 0
    <3>1. Len(p) + 1 \in Len(p) + 1..Len(p) + Len(q)
          /\ Len(p) + Len(q) \in Len(p) + 1..Len(p) + Len(q)
      BY <2>2
    <3>2. SubSeq(p \o q, Len(p) + 1, Len(p) + Len(q)) = SubSeq(q, 1, Len(q))
      BY <3>1, SubSeqOfConcat2
    <3> QED
      BY <3>2, SubSeqFull
  <2> QED
    BY <2>1, <2>2
<1> QED
  BY <1>1, <1>2

\* One row more is scored, and its reasons come behind the others.
LEMMA ScoreRowKeeps ==
    ASSUME IInv, ScoreRow
    PROVE  IInv'
<1>0. PICK k \in Nat : k = Len(suspect)
  BY DEF IInv
<1> DEFINE rs == OwnReasons(k + 1)
<1>1. /\ k = Len(suspect) /\ k \in Nat /\ Len(batch) \in Nat /\ k < Len(batch)
      /\ suspect \in Seq(BOOLEAN) /\ reasons \in Seq(Codes) /\ offsets \in Seq(Nat)
      /\ Len(offsets) = k + 1 /\ count = Len(reasons) /\ count \in Nat
  BY <1>0, TimesAssumption DEF IInv, ScoreRow
<1>2. rs \in Seq(Codes) /\ Suspect(rs) \in BOOLEAN /\ Len(rs) \in Nat
  <2>1. rs \in Seq(Codes)
    BY ReasonsAre DEF OwnReasons
  <2> QED
    BY <2>1 DEF Suspect
<1>3. /\ suspect' = Append(suspect, Suspect(rs))
      /\ reasons' = reasons \o rs
      /\ count' = count + Len(rs)
      /\ offsets' = Append(offsets, count')
      /\ UNCHANGED <<batch, unit>>
  BY <1>0 DEF ScoreRow, OwnReasons
<1> HIDE DEF rs
<1>4. /\ suspect' \in Seq(BOOLEAN) /\ Len(suspect') = k + 1
      /\ \A i \in 1..k : suspect'[i] = suspect[i]
      /\ suspect'[k + 1] = Suspect(rs)
  BY <1>1, <1>2, <1>3
<1>5. reasons' \in Seq(Codes) /\ count' = Len(reasons') /\ count' \in Nat /\ count <= count'
  BY <1>1, <1>2, <1>3
<1>6. /\ offsets' \in Seq(Nat) /\ Len(offsets') = k + 2
      /\ \A i \in 1..(k + 1) : offsets'[i] = offsets[i]
      /\ offsets'[k + 2] = count'
  BY <1>1, <1>3, <1>5
<1>7. \A i \in 1..(k + 1) : offsets[i] \in 0..count
  BY <1>1 DEF IInv
<1>8. \A i \in 1..(k + 2) : offsets'[i] \in 0..count'
  <2> SUFFICES ASSUME NEW i \in 1..(k + 2) PROVE offsets'[i] \in 0..count'
    OBVIOUS
  <2>1. CASE i \in 1..(k + 1)
    BY <1>1, <1>5, <1>6, <1>7, <2>1
  <2>2. CASE i = k + 2
    BY <1>5, <1>6, <2>2
  <2> QED
    BY <1>1, <2>1, <2>2
<1>9. \A i \in 1..(k + 1) : OwnReasons(i)' = OwnReasons(i)
  BY <1>3 DEF OwnReasons
<1>10. ASSUME NEW i \in 1..k
       PROVE  ReasonsOfRow(i)' = OwnReasons(i)' /\ suspect'[i] = Suspect(OwnReasons(i)')
  <2>1. ReasonsOfRow(i) = OwnReasons(i) /\ suspect[i] = Suspect(OwnReasons(i))
    BY <1>1 DEF IInv
  <2>2. i \in 1..(k + 1) /\ i + 1 \in 1..(k + 1)
    BY <1>1
  <2>3. /\ offsets'[i] = offsets[i] /\ offsets'[i + 1] = offsets[i + 1]
        /\ offsets[i] \in 0..Len(reasons) /\ offsets[i + 1] \in 0..Len(reasons)
    BY <1>1, <1>6, <1>7, <2>2
  <2>4. SubSeq(reasons \o rs, offsets[i] + 1, offsets[i + 1])
          = SubSeq(reasons, offsets[i] + 1, offsets[i + 1])
    BY <1>1, <1>2, <2>3, SlicesStay
  <2>5. ReasonsOfRow(i)' = ReasonsOfRow(i)
    BY <1>3, <2>3, <2>4 DEF ReasonsOfRow
  <2> QED
    BY <1>4, <1>9, <2>1, <2>2, <2>5
<1>11. ReasonsOfRow(k + 1)' = rs
  <2>1. /\ offsets'[k + 1] = Len(reasons) /\ offsets'[k + 1 + 1] = Len(reasons) + Len(rs)
    <3>1. offsets'[k + 1] = offsets[k + 1] /\ offsets[k + 1] = count
      BY <1>1, <1>6 DEF IInv
    <3>2. k + 1 + 1 = k + 2
      BY <1>1
    <3> QED
      BY <1>1, <1>3, <1>6, <3>1, <3>2
  <2>2. SubSeq(reasons \o rs, Len(reasons) + 1, Len(reasons) + Len(rs)) = rs
    BY <1>1, <1>2, SlicesStay
  <2>3. ReasonsOfRow(k + 1)' = SubSeq(reasons', offsets'[k + 1] + 1, offsets'[k + 1 + 1])
    BY DEF ReasonsOfRow
  <2> QED
    BY <1>3, <2>1, <2>2, <2>3
<1>12. \A i \in 1..(k + 1) :
          ReasonsOfRow(i)' = OwnReasons(i)' /\ suspect'[i] = Suspect(OwnReasons(i)')
  <2>1. OwnReasons(k + 1)' = rs
    BY <1>1, <1>9 DEF rs
  <2>2. ASSUME NEW i \in 1..(k + 1)
        PROVE  ReasonsOfRow(i)' = OwnReasons(i)' /\ suspect'[i] = Suspect(OwnReasons(i)')
    <3>1. CASE i = k + 1
      BY <1>4, <1>11, <2>1, <3>1
    <3>2. CASE i # k + 1
      <4>1. i \in 1..k
        BY <1>1, <3>2
      <4> QED
        BY <1>10, <4>1
    <3> QED
      BY <3>1, <3>2
  <2> QED
    BY <2>2
<1>13. k + 1 <= Len(batch) /\ batch' \in Batches /\ unit' \in Units
  BY <1>1, <1>3 DEF IInv
<1>14. /\ Len(offsets') = Len(suspect') + 1 /\ offsets'[Len(suspect') + 1] = count'
       /\ Len(suspect') <= Len(batch')
  <2>1. Len(suspect') + 1 = k + 2
    BY <1>1, <1>4
  <2> QED
    BY <1>3, <1>4, <1>6, <1>13, <2>1
<1> QED
  BY <1>4, <1>5, <1>6, <1>8, <1>12, <1>13, <1>14 DEF IInv

\* At the beginning nothing has been scored.
LEMMA InitIInv == Init => IInv
<1> SUFFICES ASSUME Init PROVE IInv
  OBVIOUS
<1>1. /\ suspect = << >> /\ Len(suspect) = 0 /\ reasons = << >> /\ Len(reasons) = 0
      /\ offsets = <<0>> /\ Len(offsets) = 1 /\ offsets[1] = 0 /\ count = 0
      /\ batch \in Batches /\ unit \in Units
  BY DEF Init
<1>2. Len(batch) \in Nat
  BY <1>1, TimesAssumption
<1>3. suspect \in Seq(BOOLEAN) /\ reasons \in Seq(Codes) /\ offsets \in Seq(Nat)
  BY <1>1
<1> QED
  BY <1>1, <1>2, <1>3 DEF IInv

\* Every row so far has its verdict and its own slice of the reasons.
THEOREM Invariant == Spec => []IInv
<1>1. IInv /\ [Next]_vars => IInv'
  <2>1. ASSUME IInv, UNCHANGED <<batch, unit, suspect, reasons, offsets, count>> PROVE IInv'
    BY <2>1 DEF IInv, ReasonsOfRow, OwnReasons
  <2> QED
    BY <2>1, ScoreRowKeeps DEF Next, Finish, Done, vars
<1> QED
  BY <1>1, InitIInv, PTL DEF Spec

-----------------------------------------------------------------------------
(***************************************************************************)
(* Theorems.                                                               *)
(***************************************************************************)
\* The reasons a reader finds at a row are those its verdict was drawn from.
THEOREM OwnReasonsOnly == Spec => []SuspectForOwnReasons
<1>1. IInv => SuspectForOwnReasons
  <2> SUFFICES ASSUME IInv PROVE SuspectForOwnReasons
    OBVIOUS
  <2>1. \A i \in 1..Len(suspect) : suspect[i] = Suspect(ReasonsOfRow(i))
    BY DEF IInv
  <2> QED
    BY <2>1 DEF IInv, SuspectForOwnReasons
<1> QED
  BY <1>1, Invariant, PTL

\* A row whose times its unit can hold is scored by the times on disk.
LEMMA ExactRowIsScored ==
    ASSUME IInv, NEW i \in 1..Len(suspect), Exact(batch[i])
    PROVE  /\ batch[i] \in Rows
           /\ ReasonsOfRow(i) = Reasons(Macb(batch[i].si), Macb(batch[i].fn))
           /\ suspect[i] = IsTimestompSuspect(batch[i])
<1>1. batch[i] \in Rows
  <2>1. batch \in Seq(Rows) /\ Len(suspect) \in Nat /\ Len(suspect) <= Len(batch)
    BY TimesAssumption DEF IInv
  <2> QED
    BY <2>1
<1>2. OwnReasons(i) = Reasons(Macb(batch[i].si), Macb(batch[i].fn))
  BY <1>1, ExactIsRead DEF IInv, OwnReasons
<1> QED
  BY <1>1, <1>2 DEF IInv, IsTimestompSuspect

\* The scalar and the flag of read_mft agree, in every unit that loses nothing.
THEOREM VerdictsAgree == Spec => []VerdictMatchesTimeline
<1>1. IInv => VerdictMatchesTimeline
  BY ExactRowIsScored DEF VerdictMatchesTimeline
<1> QED
  BY <1>1, Invariant, PTL

\* A time said to be before another is set, and is before it on disk, at the resolution of
\* a tick, whatever conversions it has been through.
THEOREM OrderIsTrue == Spec => []OrderReasonsAreTrue
<1>1. IInv => OrderReasonsAreTrue
  <2>1. ASSUME IInv, NEW i \in 1..Len(suspect), Exact(batch[i])
        PROVE  /\ Has(ReasonsOfRow(i), "si-before-fn") =>
                      0 < batch[i].si.modified /\ batch[i].si.modified < batch[i].fn.modified
               /\ Has(ReasonsOfRow(i), "si-creation-before-fn-creation") =>
                      0 < batch[i].si.created /\ batch[i].si.created < batch[i].fn.created
    <3> DEFINE si == batch[i].si
               fn == batch[i].fn
    <3>1. /\ batch[i] \in Rows /\ ReasonsOfRow(i) = Reasons(Macb(si), Macb(fn))
      BY <2>1, ExactRowIsScored
    <3>2. /\ si.modified \in Nat /\ fn.modified \in Nat
          /\ si.created \in Nat /\ fn.created \in Nat
      BY <3>1 DEF Rows, Times
    <3>3. /\ Macb(si).modified = ToMicros(si.modified) /\ Macb(fn).modified = ToMicros(fn.modified)
          /\ Macb(si).created = ToMicros(si.created) /\ Macb(fn).created = ToMicros(fn.created)
      BY DEF Macb, Times
    <3> HIDE DEF si, fn
    <3>4. Has(ReasonsOfRow(i), "si-before-fn") => 0 < si.modified /\ si.modified < fn.modified
      BY <3>1, <3>2, <3>3, ReasonsAre, BeforeOnDisk
    <3>5. Has(ReasonsOfRow(i), "si-creation-before-fn-creation")
             => 0 < si.created /\ si.created < fn.created
      BY <3>1, <3>2, <3>3, ReasonsAre, BeforeOnDisk
    <3> QED
      BY <3>4, <3>5 DEF si, fn
  <2> QED
    BY <2>1 DEF OrderReasonsAreTrue
<1> QED
  BY <1>1, Invariant, PTL
=============================================================================
