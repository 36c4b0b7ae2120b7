---------------------------- MODULE StreamLemmas ----------------------------
(***************************************************************************)
(* Lemmas about the operators of StreamPhase and Multiplexer, for every    *)
(* value they are applied to: what a stream handler makes of a context,    *)
(* and what an operation makes of a table.  The proofs about the modules   *)
(* built from these operators rest on them.                                *)
(***************************************************************************)
EXTENDS StreamPhase, Multiplexer, WellFoundedInduction, TLAPS

----------------------------------------------------------------------------
(* Sets and sequences.                                                     *)

(* A set of naturals has a least element.                                  *)
LEMMA LeastNatural ==
    ASSUME NEW T \in SUBSET Nat, T # {}
    PROVE  \E x \in T : \A y \in T : x <= y
<1> DEFINE R == {ss \in Nat \X Nat : ss[1] < ss[2]}
<1>1. IsWellFoundedOn(R, Nat)
  BY NatLessThanWellFounded, Zenon DEF OpToRel
<1> HIDE DEF R
<1>2. PICK x \in T : \A y \in T : ~(<<y, x>> \in R)
  BY <1>1, WFMin, Zenon
<1>3. ASSUME NEW y \in T PROVE x <= y
  <2>1. ~(y < x)
    BY <1>2, Zenon DEF R
  <2> QED
    BY <2>1
<1> QED
  BY <1>3

(* The pigeonhole principle: by descent from the least counterexample.     *)
LEMMA Pigeonhole ==
    ASSUME NEW n \in Nat, NEW f \in [0 .. n -> 0 .. n - 1],
           \A i, j \in 0 .. n : f[i] = f[j] => i = j
    PROVE  FALSE
<1> DEFINE Squeezed(k) == \E g \in [0 .. k -> 0 .. k - 1] :
                              \A i, j \in 0 .. k : g[i] = g[j] => i = j
           T == {k \in Nat : Squeezed(k)}
<1>1. n \in T
  OBVIOUS
<1>2. PICK k \in T : \A y \in T : k <= y
  BY <1>1, LeastNatural, Zenon
<1>3. PICK g \in [0 .. k -> 0 .. k - 1] : \A i, j \in 0 .. k : g[i] = g[j] => i = j
  BY <1>2, Zenon
<1> HIDE DEF T
<1>4. k \in Nat /\ k > 0
  <2>1. k \in Nat /\ g[0] \in 0 .. k - 1
    BY <1>2, <1>3 DEF T
  <2> QED
    BY <2>1
<1> DEFINE h == [i \in 0 .. k - 1 |-> IF g[i] = k - 1 THEN g[k] ELSE g[i]]
<1>5. h \in [0 .. k - 1 -> 0 .. (k - 1) - 1]
  <2> SUFFICES ASSUME NEW i \in 0 .. k - 1
               PROVE  (IF g[i] = k - 1 THEN g[k] ELSE g[i]) \in 0 .. (k - 1) - 1
    OBVIOUS
  <2>1. i \in 0 .. k /\ k \in 0 .. k /\ i # k
    BY <1>4
  <2>2. g[i] \in 0 .. k - 1 /\ g[k] \in 0 .. k - 1 /\ g[i] # g[k]
    BY <1>3, <2>1, Zenon
  <2>3. \A x \in 0 .. k - 1 : x # k - 1 => x \in 0 .. (k - 1) - 1
    BY <1>4
  <2> QED
    BY <2>2, <2>3
<1>6. \A i, j \in 0 .. k - 1 : h[i] = h[j] => i = j
  <2>1. \A i \in 0 .. k - 1 : i \in 0 .. k /\ i # k
    BY <1>4
  <2>2. k \in 0 .. k
    BY <1>4
  <2> QED
    BY <1>3, <2>1, <2>2
<1> HIDE DEF h
<1>7. k - 1 \in T
  <2>1. k - 1 \in Nat
    BY <1>4
  <2> QED
    BY <1>5, <1>6, <2>1, Zenon DEF T
<1> QED
  BY <1>2, <1>4, <1>7

(* Sequences are equal when they are as long and hold the same elements.   *)
LEMMA SameSequence ==
    ASSUME NEW S, NEW s \in Seq(S), NEW t \in Seq(S),
           Len(s) = Len(t), \A i \in 1 .. Len(s) : s[i] = t[i]
    PROVE  s = t
  OBVIOUS

----------------------------------------------------------------------------
(* Framing.                                                                *)

(* A two-byte prefix encodes at most MaxMessage.                           *)
LEMMA PrefixRange ==
    ASSUME NEW hi \in Byte, NEW lo \in Byte
    PROVE  u32_from_be_u16_bytes(hi, lo) \in 0 .. MaxMessage
<1>1. ByteRadix \in Nat /\ ByteRadix >= 1
  BY FramingConstants
<1>2. /\ hi \in Nat /\ lo \in Nat /\ hi <= ByteRadix - 1 /\ lo <= ByteRadix - 1
  BY <1>1 DEF Byte
<1>3. hi * ByteRadix \in Nat /\ ByteRadix * ByteRadix \in Nat
  BY <1>1, <1>2
<1>4. hi * ByteRadix <= (ByteRadix - 1) * ByteRadix
  BY <1>1, <1>2
<1>5. (ByteRadix - 1) * ByteRadix = ByteRadix * ByteRadix - ByteRadix
  BY <1>1
<1> QED
  BY <1>1, <1>2, <1>3, <1>4, <1>5 DEF u32_from_be_u16_bytes, MaxMessage

(* The bounds on message lengths, as numbers.                              *)
LEMMA MaxMessageType == MaxMessage \in Nat /\ MinMessage \in Nat
                            /\ MinMessage >= 2 /\ MinMessage <= MaxMessage
<1>1. ByteRadix * ByteRadix \in Nat
  BY FramingConstants
<1> QED
  BY <1>1, FramingConstants DEF MaxMessage

(* A fragment is the next bytes of the wire.                               *)
LEMMA Fragment ==
    ASSUME NEW w \in Seq(Byte), NEW p \in 0 .. Len(w), NEW n \in 0 .. Len(w) - p
    PROVE  LET d == SubSeq(w, p + 1, p + n)
           IN  /\ Len(d) = n
               /\ \A k \in 1 .. n : p + k \in 1 .. Len(w) /\ d[k] = w[p + k] /\ d[k] \in Byte
               /\ ByteAt(d, 1) = IF n >= 1 THEN w[p + 1] ELSE 0
               /\ ByteAt(d, 2) = IF n >= 2 THEN w[p + 2] ELSE 0
<1> DEFINE d == SubSeq(w, p + 1, p + n)
<1>1. Len(w) \in Nat /\ p \in Nat /\ n \in Nat /\ p + n <= Len(w)
  OBVIOUS
<1>2. Len(d) = n
  BY <1>1
<1>3. \A k \in 1 .. n : p + k \in 1 .. Len(w) /\ d[k] = w[p + k]
  BY <1>1
<1>4. \A k \in 1 .. n : d[k] \in Byte
  BY <1>1, <1>3
<1> QED
  BY <1>1, <1>2, <1>3, <1>4 DEF ByteAt

----------------------------------------------------------------------------
(* Phases.                                                                 *)

(* The delivered prefix of p bytes has not been rejected.                  *)
Accepted(w, p) == p >= 2 => Expected(w) >= MinMessage /\ p - 2 <= Expected(w)

(* The announced length of a stream that has its prefix.                   *)
LEMMA ExpectedType ==
    ASSUME NEW w \in Seq(Byte), Len(w) >= 2
    PROVE  Expected(w) \in 0 .. MaxMessage
<1>1. w[1] \in Byte /\ w[2] \in Byte
  OBVIOUS
<1> QED
  BY <1>1, PrefixRange, Zenon DEF Expected

(* The phase of a delivered prefix is one of the code's phases.            *)
LEMMA WholePhaseType ==
    ASSUME NEW w \in Seq(Byte), NEW p \in 0 .. Len(w)
    PROVE  WholeStreamPhase(w, p) \in Phase
<1>1. 0 \in Byte /\ 0 \in 0 .. MaxMessage
  BY FramingConstants, MaxMessageType DEF Byte
<1>2. CASE p = 0
  BY <1>1, <1>2 DEF WholeStreamPhase, ReadingLength, PhaseRecord, Phase
<1>3. CASE p = 1
  <2>1. w[1] \in Byte
    BY <1>3
  <2> QED
    BY <1>1, <1>3, <2>1 DEF WholeStreamPhase, ReadingLengthHigh, PhaseRecord, Phase
<1>4. CASE p >= 2
  <2>1. Expected(w) \in 0 .. MaxMessage
    BY <1>4, ExpectedType
  <2>2. ~Accepted(w, p) => WholeStreamPhase(w, p) = Done
    BY <1>4, <2>1, MaxMessageType DEF WholeStreamPhase, Accepted
  <2>3. Accepted(w, p) => \/ WholeStreamPhase(w, p) = AwaitingFin(Expected(w))
                        \/ /\ WholeStreamPhase(w, p) = ReadingMessage(Expected(w), p - 2)
                           /\ p - 2 \in 0 .. MaxMessage
    BY <1>4, <2>1, MaxMessageType DEF WholeStreamPhase, Accepted
  <2> QED
    BY <1>1, <2>1, <2>2, <2>3 DEF Done, AwaitingFin, ReadingMessage, PhaseRecord, Phase
<1> QED
  BY <1>2, <1>3, <1>4

(* The first two bytes decide: from the prefix on, the phase of p + n      *)
(* bytes is advance_message_checked of the body bytes.                     *)
LEMMA CheckedFromPrefix ==
    ASSUME NEW w \in Seq(Byte), Len(w) >= 2,
           NEW c \in Nat, NEW n \in Nat, c + n + 2 <= Len(w),
           c = 0 \/ (Expected(w) >= MinMessage /\ c < Expected(w))
    PROVE  advance_message_checked(Expected(w), c, n) = WholeStreamPhase(w, c + n + 2)
<1>1. Expected(w) \in Nat
  BY ExpectedType, MaxMessageType
<1>2. CASE Expected(w) < MinMessage \/ c + n > Expected(w)
  <2>1. WholeStreamPhase(w, c + n + 2) = Done
    BY <1>1, <1>2, MaxMessageType DEF WholeStreamPhase
  <2>2. \/ Expected(w) < MinMessage
        \/ n > remaining_message(Expected(w), c)
    BY <1>1, <1>2, MaxMessageType DEF remaining_message
  <2> QED
    BY <2>1, <2>2 DEF advance_message_checked
<1>3. CASE Expected(w) >= MinMessage /\ c + n <= Expected(w)
  <2>1. advance_message_checked(Expected(w), c, n) = advance_message(Expected(w), c, n)
    BY <1>1, <1>3, MaxMessageType DEF advance_message_checked, remaining_message
  <2>2. WholeStreamPhase(w, c + n + 2) = IF c + n = Expected(w) THEN AwaitingFin(Expected(w))
                                      ELSE ReadingMessage(Expected(w), c + n)
    BY <1>1, <1>3, MaxMessageType DEF WholeStreamPhase
  <2> QED
    BY <1>1, <1>3, <2>1, <2>2 DEF advance_message
<1> QED
  BY <1>1, <1>2, <1>3, MaxMessageType

(* One fragment moves the phase of the prefix to that of the longer prefix.*)
LEMMA PhaseStep ==
    ASSUME NEW w \in Seq(Byte), NEW p \in 0 .. Len(w), NEW n \in 0 .. Len(w) - p,
           NEW first, first = IF n >= 1 THEN w[p + 1] ELSE 0,
           NEW second, second = IF n >= 2 THEN w[p + 2] ELSE 0
    PROVE  fragment_phase(WholeStreamPhase(w, p), n, first, second) = WholeStreamPhase(w, p + n)
<1> DEFINE phase == WholeStreamPhase(w, p)
<1>0. p \in Nat /\ n \in Nat /\ Len(w) \in Nat /\ p + n <= Len(w)
  OBVIOUS
<1>1. CASE p = 0
  <2>1. phase = ReadingLength
    BY <1>1 DEF WholeStreamPhase
  <2>2. CASE n = 0
    BY <1>1, <2>1, <2>2 DEF fragment_phase, ReadingLength, PhaseRecord
  <2>3. CASE n = 1
    BY <1>1, <2>1, <2>3 DEF fragment_phase, ReadingLength, PhaseRecord, WholeStreamPhase
  <2>4. CASE n >= 2
    <3>1. fragment_phase(phase, n, first, second) = advance_message_checked(Expected(w), 0, n - 2)
      BY <1>1, <2>1, <2>4 DEF fragment_phase, ReadingLength, PhaseRecord, Expected
    <3>2. n - 2 \in Nat /\ 0 + (n - 2) + 2 = p + n /\ Len(w) >= 2
      BY <1>0, <1>1, <2>4
    <3> QED
      BY <1>0, <3>1, <3>2, CheckedFromPrefix
  <2> QED
    BY <1>0, <2>2, <2>3, <2>4
<1>2. CASE p = 1
  <2>1. phase = ReadingLengthHigh(w[1])
    BY <1>2 DEF WholeStreamPhase
  <2>2. CASE n = 0
    BY <1>2, <2>1, <2>2 DEF fragment_phase, ReadingLengthHigh, PhaseRecord
  <2>3. CASE n >= 1
    <3>1. fragment_phase(phase, n, first, second) = advance_message_checked(Expected(w), 0, n - 1)
      BY <1>2, <2>1, <2>3 DEF fragment_phase, ReadingLengthHigh, PhaseRecord, Expected
    <3>2. n - 1 \in Nat /\ 0 + (n - 1) + 2 = p + n /\ Len(w) >= 2
      BY <1>0, <1>2, <2>3
    <3> QED
      BY <1>0, <3>1, <3>2, CheckedFromPrefix
  <2> QED
    BY <1>0, <2>2, <2>3
<1>3. CASE p >= 2
  <2>0. Expected(w) \in Nat
    BY <1>0, <1>3, ExpectedType, MaxMessageType
  <2>1. CASE ~Accepted(w, p)
    <3>1. phase = Done /\ WholeStreamPhase(w, p + n) = Done
      BY <1>0, <1>3, <2>0, <2>1, MaxMessageType DEF WholeStreamPhase, Accepted
    <3> QED
      BY <3>1 DEF fragment_phase, advance_body_phase, Done, PhaseRecord
  <2>2. CASE Accepted(w, p) /\ p - 2 = Expected(w)
    <3>1. phase = AwaitingFin(Expected(w))
      BY <1>0, <1>3, <2>0, <2>2, MaxMessageType DEF WholeStreamPhase, Accepted
    <3>2. WholeStreamPhase(w, p + n) = IF n > 0 THEN Done ELSE phase
      BY <1>0, <1>3, <2>0, <2>2, MaxMessageType DEF WholeStreamPhase, Accepted
    <3> QED
      BY <3>1, <3>2 DEF fragment_phase, advance_body_phase, AwaitingFin, PhaseRecord
  <2>3. CASE Accepted(w, p) /\ p - 2 < Expected(w)
    <3>1. phase = ReadingMessage(Expected(w), p - 2)
      BY <1>0, <1>3, <2>0, <2>3, MaxMessageType DEF WholeStreamPhase, Accepted
    <3>2. fragment_phase(phase, n, first, second) =
            advance_message_checked(Expected(w), p - 2, n)
      BY <3>1 DEF fragment_phase, advance_body_phase, ReadingMessage, PhaseRecord
    <3>3. p - 2 \in Nat /\ (p - 2) + n + 2 = p + n /\ Expected(w) >= MinMessage
      BY <1>0, <1>3, <2>3 DEF Accepted
    <3> QED
      BY <1>0, <1>3, <2>3, <3>2, <3>3, CheckedFromPrefix
  <2> QED
    BY <1>0, <1>3, <2>0, <2>1, <2>2, <2>3 DEF Accepted
<1> QED
  BY <1>0, <1>1, <1>2, <1>3

----------------------------------------------------------------------------
(* The message buffer.                                                     *)

(* The buffer holds the body bytes of an accepted prefix of p bytes.       *)
BodyHeld(w, buf, p) == Accepted(w, p) => \A i \in 0 .. p - 3 : buf[i] = w[i + 3]

(* An accepted body byte has a place in the buffer.                        *)
LEMMA BodyInBuffer ==
    ASSUME NEW w \in Seq(Byte), NEW p \in 0 .. Len(w), Accepted(w, p),
           NEW i \in 0 .. p - 3
    PROVE  i \in 0 .. MaxMessage - 1 /\ i + 3 \in 1 .. Len(w)
<1>1. Expected(w) \in 0 .. MaxMessage
  BY ExpectedType
<1> QED
  BY <1>1, MaxMessageType DEF Accepted

(* The copied range lies in the fragment.                                  *)
LEMMA PlanBound ==
    ASSUME NEW phase \in Phase, NEW n \in Nat, NEW first \in Byte, NEW second \in Byte
    PROVE  LET plan == fragment_copy_plan(phase, n, first, second)
           IN  /\ plan.source \in Nat /\ plan.destination \in Nat /\ plan.count \in Nat
               /\ plan.source + plan.count <= n
<1> DEFINE plan == fragment_copy_plan(phase, n, first, second)
<1>1. CASE phase.tag = "ReadingLengthHigh" /\ n >= 1
  <2>1. u32_from_be_u16_bytes(phase.hi, first) \in Nat
    BY PrefixRange, MaxMessageType DEF Phase
  <2> QED
    BY <1>1, <2>1 DEF fragment_copy_plan, CopyPlan, bounded_copy_len
<1>2. CASE phase.tag = "ReadingLength" /\ n >= 2
  <2>1. u32_from_be_u16_bytes(first, second) \in Nat
    BY PrefixRange, MaxMessageType
  <2> QED
    BY <1>2, <2>1 DEF fragment_copy_plan, CopyPlan, bounded_copy_len
<1>3. CASE phase.tag = "ReadingMessage" /\ phase.current < phase.expected
  <2>1. phase.current \in Nat /\ phase.expected \in Nat
    BY MaxMessageType DEF Phase
  <2> QED
    BY <1>3, <2>1 DEF fragment_copy_plan, CopyPlan, bounded_copy_len, remaining_message
<1>4. CASE /\ ~(phase.tag = "ReadingLengthHigh" /\ n >= 1)
           /\ ~(phase.tag = "ReadingLength" /\ n >= 2)
           /\ ~(phase.tag = "ReadingMessage" /\ phase.current < phase.expected)
  BY <1>4 DEF fragment_copy_plan, CopyPlan
<1> QED
  BY <1>1, <1>2, <1>3, <1>4

(* Copying a fragment keeps the buffer a buffer of bytes.                  *)
LEMMA CopyType ==
    ASSUME NEW buf \in Buffer, NEW d \in Seq(Byte), NEW plan,
           plan.source \in Nat, plan.destination \in Nat, plan.count \in Nat,
           plan.source + plan.count <= Len(d)
    PROVE  copied_bytes(buf, d, plan) \in Buffer
<1>1. SUFFICES ASSUME NEW i \in 0 .. MaxMessage - 1
               PROVE  (IF plan.destination <= i /\ i < plan.destination + plan.count
                       THEN d[plan.source + i - plan.destination + 1]
                       ELSE buf[i]) \in Byte
  BY DEF copied_bytes, Buffer
<1>2. buf[i] \in Byte
  BY DEF Buffer
<1>3. CASE plan.destination <= i /\ i < plan.destination + plan.count
  <2>1. plan.source + i - plan.destination + 1 \in 1 .. Len(d)
    BY <1>3, MaxMessageType
  <2> QED
    BY <1>3, <2>1
<1> QED
  BY <1>2, <1>3

(* A fragment extends the held body by the bytes it brings.                *)
LEMMA BodyStep ==
    ASSUME NEW w \in Seq(Byte), NEW p \in 0 .. Len(w), NEW n \in 0 .. Len(w) - p,
           NEW buf \in Buffer, BodyHeld(w, buf, p),
           NEW d, d = SubSeq(w, p + 1, p + n)
    PROVE  BodyHeld(w, copied_bytes(buf, d, fragment_copy_plan(WholeStreamPhase(w, p), n,
                                                            ByteAt(d, 1), ByteAt(d, 2))),
                    p + n)
<1> DEFINE plan == fragment_copy_plan(WholeStreamPhase(w, p), n, ByteAt(d, 1), ByteAt(d, 2))
           new == copied_bytes(buf, d, plan)
<1>0. p \in Nat /\ n \in Nat /\ Len(w) \in Nat /\ p + n <= Len(w)
  OBVIOUS
<1>1. SUFFICES ASSUME Accepted(w, p + n), NEW i \in 0 .. (p + n) - 3
               PROVE  new[i] = w[i + 3]
  BY DEF BodyHeld
<1>2. i \in 0 .. MaxMessage - 1 /\ p + n >= 3 /\ Len(w) >= 2
  BY <1>0, <1>1, BodyInBuffer
<1>3. Expected(w) \in Nat /\ Expected(w) >= MinMessage /\ p + n - 2 <= Expected(w)
  BY <1>0, <1>1, <1>2, ExpectedType, MaxMessageType DEF Accepted
<1>4. /\ \A k \in 1 .. n : d[k] = w[p + k]
      /\ n >= 1 => ByteAt(d, 1) = w[p + 1]
      /\ n >= 2 => ByteAt(d, 2) = w[p + 2]
  BY <1>0, Fragment
<1>5. new[i] = IF plan.destination <= i /\ i < plan.destination + plan.count
               THEN d[plan.source + i - plan.destination + 1]
               ELSE buf[i]
  BY <1>2, Zenon DEF copied_bytes, Buffer
<1>6. CASE p = 0
  <2>1. plan = CopyPlan(2, 0, n - 2)
    <3>1. WholeStreamPhase(w, p) = ReadingLength
      BY <1>6 DEF WholeStreamPhase
    <3>2. u32_from_be_u16_bytes(ByteAt(d, 1), ByteAt(d, 2)) = Expected(w)
      BY <1>0, <1>2, <1>4, <1>6 DEF Expected
    <3> QED
      BY <1>0, <1>2, <1>3, <1>6, <3>1, <3>2
         DEF fragment_copy_plan, ReadingLength, PhaseRecord, bounded_copy_len, CopyPlan
  <2>2. 2 + i - 0 + 1 \in 1 .. n /\ i < 0 + (n - 2)
    BY <1>0, <1>1, <1>2, <1>6
  <2> QED
    BY <1>0, <1>4, <1>5, <1>6, <2>1, <2>2 DEF CopyPlan
<1>7. CASE p = 1
  <2>1. plan = CopyPlan(1, 0, n - 1)
    <3>1. WholeStreamPhase(w, p) = ReadingLengthHigh(w[1])
      BY <1>7 DEF WholeStreamPhase
    <3>2. u32_from_be_u16_bytes(w[1], ByteAt(d, 1)) = Expected(w)
      BY <1>0, <1>2, <1>4, <1>7 DEF Expected
    <3> QED
      BY <1>0, <1>2, <1>3, <1>7, <3>1, <3>2
         DEF fragment_copy_plan, ReadingLengthHigh, PhaseRecord, bounded_copy_len, CopyPlan
  <2>2. 1 + i - 0 + 1 \in 1 .. n /\ i < 0 + (n - 1)
    BY <1>0, <1>1, <1>2, <1>7
  <2> QED
    BY <1>0, <1>4, <1>5, <1>7, <2>1, <2>2, SMTT(30) DEF CopyPlan
<1>8. CASE p >= 2
  <2>1. Accepted(w, p)
    BY <1>0, <1>3, <1>8, MaxMessageType DEF Accepted
  <2>2. i < p - 2 => buf[i] = w[i + 3]
    BY <1>0, <1>1, <1>8, <2>1 DEF BodyHeld
  <2>3. CASE p - 2 = Expected(w)
    <3>1. n = 0
      BY <1>0, <1>3, <1>8, <2>3
    <3>2. WholeStreamPhase(w, p) = AwaitingFin(Expected(w))
      <4>1. p # 0 /\ p # 1 /\ ~(Expected(w) < MinMessage \/ p - 2 > Expected(w))
        BY <1>0, <1>3, <1>8, <2>3, MaxMessageType
      <4> QED
        BY <1>8, <2>3, <4>1 DEF WholeStreamPhase
    <3>3. plan = CopyPlan(0, 0, 0)
      BY <3>2 DEF fragment_copy_plan, AwaitingFin, PhaseRecord
    <3> HIDE DEF plan, new
    <3> QED
      BY <1>0, <1>1, <1>5, <2>2, <3>1, <3>3 DEF CopyPlan
  <2>4. CASE p - 2 < Expected(w)
    <3>1. WholeStreamPhase(w, p) = ReadingMessage(Expected(w), p - 2)
      BY <1>0, <1>3, <1>8, <2>4, MaxMessageType DEF WholeStreamPhase
    <3>2. bounded_copy_len(n, remaining_message(Expected(w), p - 2)) = n
      BY <1>0, <1>3, <1>8, <2>4 DEF bounded_copy_len, remaining_message
    <3>3. plan = CopyPlan(0, p - 2, n)
      BY <2>4, <3>1, <3>2 DEF fragment_copy_plan, ReadingMessage, PhaseRecord
    <3>4. CASE i < p - 2
      BY <1>0, <1>1, <1>5, <1>8, <2>2, <3>3, <3>4 DEF CopyPlan
    <3>5. CASE i >= p - 2
      <4>1. 0 + i - (p - 2) + 1 \in 1 .. n /\ i < (p - 2) + n
        BY <1>0, <1>1, <1>8, <3>5
      <4>2. p + (0 + i - (p - 2) + 1) = i + 3
        BY <1>0, <1>1
      <4>3. new[i] = d[0 + i - (p - 2) + 1]
        <5> HIDE DEF plan, new
        <5> QED
          BY <1>5, <3>3, <3>5, <4>1 DEF CopyPlan
      <4> QED
        BY <1>4, <4>1, <4>2, <4>3, SMTT(20)
    <3> QED
      BY <1>0, <1>1, <3>4, <3>5
  <2>5. p - 2 = Expected(w) \/ p - 2 < Expected(w)
    BY <1>0, <1>3, <1>8
  <2> QED
    BY <2>3, <2>4, <2>5
<1> QED
  BY <1>0, <1>6, <1>7, <1>8

(* The code's phase constructors yield phases.                             *)
LEMMA FinalPhaseType ==
    ASSUME NEW e \in 0 .. MaxMessage
    PROVE  Processing(e) \in Phase /\ Done \in Phase
<1>1. 0 \in Byte /\ 0 \in 0 .. MaxMessage
  BY FramingConstants, MaxMessageType DEF Byte
<1> QED
  BY <1>1 DEF Processing, Done, PhaseRecord, Phase

(* Every fragment takes a phase to a phase, and none completes a query.    *)
LEMMA FragmentPhaseType ==
    ASSUME NEW phase \in Phase, NEW n \in Nat, NEW first \in Byte, NEW second \in Byte
    PROVE  /\ fragment_phase(phase, n, first, second) \in Phase
           /\ phase.tag # "Processing" =>
                  fragment_phase(phase, n, first, second).tag # "Processing"
<1> DEFINE Good(x) == x \in Phase /\ x.tag # "Processing"
<1>0. /\ phase.hi \in Byte /\ phase.expected \in 0 .. MaxMessage
      /\ phase.current \in 0 .. MaxMessage /\ MaxMessage \in Nat
      /\ 0 \in Byte /\ 0 \in 0 .. MaxMessage
  BY MaxMessageType, FramingConstants DEF Phase, Byte
<1>1. Good(Done)
  BY <1>0 DEF Done, PhaseRecord, Phase
<1>2. ASSUME NEW e \in 0 .. MaxMessage, NEW c \in 0 .. MaxMessage, NEW k \in Nat
      PROVE  Good(advance_message_checked(e, c, k))
  <2>1. CASE e < MinMessage \/ c > e \/ k > remaining_message(e, c)
    BY <1>1, <2>1 DEF advance_message_checked
  <2>2. CASE ~(e < MinMessage \/ c > e \/ k > remaining_message(e, c))
    <3>1. c + k \in Nat /\ c + k <= e
      BY <1>0, <1>2, <2>2 DEF remaining_message
    <3>2. advance_message_checked(e, c, k) = IF c + k >= e THEN AwaitingFin(e)
                                             ELSE ReadingMessage(e, c + k)
      BY <2>2 DEF advance_message_checked, advance_message
    <3>3. Good(AwaitingFin(e))
      BY <1>0, <1>2 DEF AwaitingFin, PhaseRecord, Phase
    <3>4. c + k \in 0 .. MaxMessage
      BY <1>0, <1>2, <3>1
    <3>5. Good(ReadingMessage(e, c + k))
      BY <1>0, <1>2, <3>4 DEF ReadingMessage, PhaseRecord, Phase
    <3> HIDE DEF Good
    <3> QED
      BY <3>2, <3>3, <3>5
  <2> QED
    BY <2>1, <2>2
<1>3. ASSUME NEW hi \in Byte, NEW lo \in Byte
      PROVE  u32_from_be_u16_bytes(hi, lo) \in 0 .. MaxMessage
  BY <1>3, PrefixRange
<1>4. CASE phase.tag = "ReadingLengthHigh"
  <2>1. CASE n >= 1
    <3>1. fragment_phase(phase, n, first, second)
              = advance_message_checked(u32_from_be_u16_bytes(phase.hi, first), 0, n - 1)
      BY <1>4, <2>1 DEF fragment_phase
    <3>2. u32_from_be_u16_bytes(phase.hi, first) \in 0 .. MaxMessage /\ n - 1 \in Nat
      BY <1>0, <1>3, <2>1
    <3> HIDE DEF Good
    <3>3. Good(fragment_phase(phase, n, first, second))
      BY <1>0, <1>2, <3>1, <3>2
    <3> QED
      BY <3>3 DEF Good
  <2>2. CASE ~(n >= 1)
    BY <1>4, <2>2 DEF fragment_phase
  <2> QED
    BY <2>1, <2>2
<1>5. CASE phase.tag = "ReadingLength"
  <2>1. CASE n >= 2
    <3>1. fragment_phase(phase, n, first, second)
              = advance_message_checked(u32_from_be_u16_bytes(first, second), 0, n - 2)
      BY <1>5, <2>1 DEF fragment_phase
    <3>2. u32_from_be_u16_bytes(first, second) \in 0 .. MaxMessage /\ n - 2 \in Nat
      BY <1>3, <2>1
    <3> HIDE DEF Good
    <3>3. Good(fragment_phase(phase, n, first, second))
      BY <1>0, <1>2, <3>1, <3>2
    <3> QED
      BY <3>3 DEF Good
  <2>2. CASE n = 1
    <3>1. fragment_phase(phase, n, first, second) = ReadingLengthHigh(first)
      BY <1>5, <2>2 DEF fragment_phase
    <3> QED
      BY <1>0, <3>1 DEF ReadingLengthHigh, PhaseRecord, Phase
  <2>3. CASE ~(n >= 2) /\ n # 1
    BY <1>5, <2>3 DEF fragment_phase
  <2> QED
    BY <2>1, <2>2, <2>3
<1>6. CASE phase.tag = "ReadingMessage"
  <2>1. fragment_phase(phase, n, first, second)
            = advance_message_checked(phase.expected, phase.current, n)
    BY <1>6 DEF fragment_phase, advance_body_phase
  <2> HIDE DEF Good
  <2>2. Good(fragment_phase(phase, n, first, second))
    BY <1>0, <1>2, <2>1
  <2> QED
    BY <2>2 DEF Good
<1>7. CASE phase.tag \in {"AwaitingFin", "Processing", "Done"}
  <2>1. fragment_phase(phase, n, first, second) \in {Done, phase}
    BY <1>7 DEF fragment_phase, advance_body_phase
  <2> QED
    BY <1>1, <2>1
<1> QED
  BY <1>4, <1>5, <1>6, <1>7 DEF Phase

(* FIN leaves a stream ready or rejected.                                  *)
LEMMA FinishPhaseType ==
    ASSUME NEW phase \in Phase, NEW hi, NEW lo
    PROVE  LET after == finish_doq_phase(phase, hi, lo)
           IN  after \in Phase /\ after.tag \in {"Processing", "Done"}
<1>1. phase.expected \in 0 .. MaxMessage /\ 0 \in 0 .. MaxMessage
  BY MaxMessageType DEF Phase
<1>2. finish_doq_phase(phase, hi, lo) \in {Processing(phase.expected), Done}
        \/ (finish_doq_phase(phase, hi, lo) = phase /\ phase.tag = "Processing")
  BY DEF finish_doq_phase, finish_stream_phase
<1>3. /\ Processing(phase.expected) \in Phase /\ Processing(phase.expected).tag = "Processing"
      /\ Done \in Phase /\ Done.tag = "Done"
  <2>1. Processing(phase.expected) \in Phase /\ Done \in Phase
    BY <1>1, FinalPhaseType
  <2> QED
    BY <2>1 DEF Processing, Done, PhaseRecord
<1> QED
  BY <1>2, <1>3

(* The buffer's first two bytes are the query's ID.                        *)
LEMMA WholeQueryId ==
    ASSUME NEW w \in Seq(Byte), NEW buf \in Buffer, BodyHeld(w, buf, Len(w)),
           Len(w) >= 2, Expected(w) >= MinMessage, Len(w) = Expected(w) + 2
    PROVE  buf[0] = w[3] /\ buf[1] = w[4]
<1>1. Len(w) \in Nat /\ Expected(w) \in 0 .. MaxMessage
  BY ExpectedType
<1>2. Accepted(w, Len(w)) /\ 0 \in 0 .. Len(w) - 3 /\ 1 \in 0 .. Len(w) - 3
  BY <1>1, MaxMessageType DEF Accepted
<1>3. buf[0] = w[0 + 3] /\ buf[1] = w[1 + 3]
  BY <1>2 DEF BodyHeld
<1> QED
  BY <1>3

(* FIN after the whole byte string completes exactly a whole query.        *)
LEMMA FinishStep ==
    ASSUME NEW w \in Seq(Byte), NEW buf \in Buffer, BodyHeld(w, buf, Len(w))
    PROVE  finish_doq_phase(WholeStreamPhase(w, Len(w)), buf[0], buf[1])
               = IF WholeQuery(w) THEN Processing(Expected(w)) ELSE Done
<1> DEFINE phase == WholeStreamPhase(w, Len(w))
<1>0. Len(w) \in Nat
  OBVIOUS
<1>1. Len(w) >= 2 => Expected(w) \in 0 .. MaxMessage
  BY ExpectedType
<1>2. CASE Len(w) >= 2 /\ Expected(w) >= MinMessage /\ Len(w) = Expected(w) + 2
  <2>1. phase = AwaitingFin(Expected(w))
    <3>1. Len(w) # 0 /\ Len(w) # 1 /\ Len(w) - 2 = Expected(w)
          /\ ~(Expected(w) < MinMessage \/ Len(w) - 2 > Expected(w))
      BY <1>0, <1>1, <1>2, MaxMessageType
    <3> QED
      BY <1>2, <3>1 DEF WholeStreamPhase
  <2>2. buf[0] = w[3] /\ buf[1] = w[4]
    BY <1>2, WholeQueryId
  <2> QED
    BY <1>2, <2>1, <2>2
       DEF WholeQuery, finish_doq_phase, finish_stream_phase, AwaitingFin, PhaseRecord
<1>3. CASE ~(Len(w) >= 2 /\ Expected(w) >= MinMessage /\ Len(w) = Expected(w) + 2)
  <2>1. phase.tag \in {"Done", "ReadingLength", "ReadingLengthHigh", "ReadingMessage"}
    <3>1. CASE Len(w) < 2
      <4>1. CASE Len(w) = 0
        BY <4>1 DEF WholeStreamPhase, ReadingLength, PhaseRecord
      <4>2. CASE Len(w) = 1
        BY <4>2 DEF WholeStreamPhase, ReadingLengthHigh, PhaseRecord
      <4>3. \A k \in Nat : k < 2 => k = 0 \/ k = 1
        OBVIOUS
      <4> QED
        BY <1>0, <3>1, <4>1, <4>2, <4>3, Zenon
    <3>2. CASE Len(w) >= 2
      <4>1. Expected(w) \in Nat
        BY <1>1, <3>2, MaxMessageType
      <4>2. Expected(w) < MinMessage \/ Len(w) - 2 # Expected(w)
        BY <1>0, <1>3, <3>2, <4>1, MaxMessageType
      <4>3. \A k \in Nat : k >= 2 => k # 0 /\ k # 1
        OBVIOUS
      <4>4. Len(w) # 0 /\ Len(w) # 1
        BY <1>0, <3>2, <4>3, Zenon
      <4> QED
        BY <3>2, <4>2, <4>4 DEF WholeStreamPhase, Done, ReadingMessage, PhaseRecord
    <3> QED
      BY <1>0, <3>1, <3>2
  <2>2. ~WholeQuery(w)
    BY <1>3 DEF WholeQuery
  <2> QED
    BY <2>1, <2>2 DEF finish_doq_phase, finish_stream_phase
<1> QED
  BY <1>2, <1>3

----------------------------------------------------------------------------
(* The handlers on the context of a stream with an id, as a table holds it.*)

ContextWith(Ids) == [id : Ids, phase : Phase, buf : Buffer]

(* handle_stream_data keeps the id and never makes a stream ready.         *)
LEMMA DataHandler ==
    ASSUME NEW Ids, NEW c \in ContextWith(Ids), NEW d \in Seq(Byte),
           NEW r, r = handle_stream_data(c, d)
    PROVE  /\ r \in ContextWith(Ids)
           /\ r.id = c.id
           /\ r.phase = fragment_phase(c.phase, Len(d), ByteAt(d, 1), ByteAt(d, 2))
           /\ r.buf = copied_bytes(c.buf, d, fragment_copy_plan(c.phase, Len(d), ByteAt(d, 1),
                                                                ByteAt(d, 2)))
           /\ c.phase.tag # "Processing" => r.phase.tag # "Processing"
<1> DEFINE phase == fragment_phase(c.phase, Len(d), ByteAt(d, 1), ByteAt(d, 2))
           plan == fragment_copy_plan(c.phase, Len(d), ByteAt(d, 1), ByteAt(d, 2))
           buf == copied_bytes(c.buf, d, plan)
<1>1. Len(d) \in Nat /\ ByteAt(d, 1) \in Byte /\ ByteAt(d, 2) \in Byte
  <2>1. 0 \in Byte
    BY FramingConstants DEF Byte
  <2> QED
    BY <2>1 DEF ByteAt
<1>2. c.phase \in Phase /\ c.buf \in Buffer /\ c.id \in Ids
  BY DEF ContextWith
<1>3. phase \in Phase /\ (c.phase.tag # "Processing" => phase.tag # "Processing")
  BY <1>1, <1>2, FragmentPhaseType
<1>4. buf \in Buffer
  <2>1. /\ plan.source \in Nat /\ plan.destination \in Nat /\ plan.count \in Nat
        /\ plan.source + plan.count <= Len(d)
    BY <1>1, <1>2, PlanBound
  <2> HIDE DEF plan
  <2> QED
    BY <1>2, <2>1, CopyType
<1>5. r = [c EXCEPT !.phase = phase, !.buf = buf]
  BY DEF handle_stream_data
<1> HIDE DEF phase, buf
<1>6. r \in ContextWith(Ids) /\ r.id = c.id /\ r.phase = phase /\ r.buf = buf
  BY <1>3, <1>4, <1>5, Zenon DEF ContextWith
<1> QED
  BY <1>3, <1>6 DEF phase, buf

(* A context that stands at p bytes of w stands at p + n after the next n. *)
LEMMA DataFramed ==
    ASSUME NEW Ids, NEW c \in ContextWith(Ids),
           NEW w \in Seq(Byte), NEW p \in 0 .. Len(w), NEW n \in 0 .. Len(w) - p,
           c.phase = WholeStreamPhase(w, p), BodyHeld(w, c.buf, p),
           NEW d \in Seq(Byte), Len(d) = n, \A k \in 1 .. n : d[k] = w[p + k],
           NEW r, r = handle_stream_data(c, d)
    PROVE  r.phase = WholeStreamPhase(w, p + n) /\ BodyHeld(w, r.buf, p + n)
<1>0. d = SubSeq(w, p + 1, p + n)
  <2>1. /\ Len(SubSeq(w, p + 1, p + n)) = n
        /\ \A k \in 1 .. n : SubSeq(w, p + 1, p + n)[k] = w[p + k]
    BY Fragment
  <2>2. SubSeq(w, p + 1, p + n) \in Seq(Byte)
    OBVIOUS
  <2> HIDE DEF Byte
  <2> QED
    BY <2>1, <2>2, SameSequence
<1>1. /\ Len(d) = n
      /\ ByteAt(d, 1) = IF n >= 1 THEN w[p + 1] ELSE 0
      /\ ByteAt(d, 2) = IF n >= 2 THEN w[p + 2] ELSE 0
  <2> DEFINE e == SubSeq(w, p + 1, p + n)
  <2>1. /\ ByteAt(e, 1) = IF n >= 1 THEN w[p + 1] ELSE 0
        /\ ByteAt(e, 2) = IF n >= 2 THEN w[p + 2] ELSE 0
    BY Fragment, Zenon
  <2>2. e = d
    BY <1>0
  <2> HIDE DEF e
  <2> QED
    BY <2>1, <2>2
<1>2. d \in Seq(Byte)
  OBVIOUS
<1>3. /\ r.phase = fragment_phase(WholeStreamPhase(w, p), n, ByteAt(d, 1), ByteAt(d, 2))
      /\ r.buf = copied_bytes(c.buf, d, fragment_copy_plan(WholeStreamPhase(w, p), n,
                                                           ByteAt(d, 1), ByteAt(d, 2)))
  <2>1. /\ r.phase = fragment_phase(c.phase, Len(d), ByteAt(d, 1), ByteAt(d, 2))
        /\ r.buf = copied_bytes(c.buf, d, fragment_copy_plan(c.phase, Len(d), ByteAt(d, 1),
                                                             ByteAt(d, 2)))
    BY <1>2, DataHandler, Zenon
  <2>2. Len(d) = n
    BY <1>1
  <2> QED
    BY <2>1, <2>2, Zenon
<1>4. r.phase = WholeStreamPhase(w, p + n)
  BY <1>1, <1>3, PhaseStep
<1>5. BodyHeld(w, r.buf, p + n)
  <2>1. c.buf \in Buffer
    BY DEF ContextWith
  <2> QED
    BY <1>0, <1>3, <2>1, BodyStep, Zenon
<1> QED
  BY <1>4, <1>5

(* handle_stream_fin decides: the query is ready, or the stream is done.   *)
LEMMA FinHandler ==
    ASSUME NEW Ids, NEW c \in ContextWith(Ids), NEW r, r = handle_stream_fin(c)
    PROVE  /\ r \in ContextWith(Ids)
           /\ r.id = c.id /\ r.buf = c.buf
           /\ r.phase = finish_doq_phase(c.phase, c.buf[0], c.buf[1])
           /\ r.phase.tag \in {"Processing", "Done"}
<1> DEFINE phase == finish_doq_phase(c.phase, c.buf[0], c.buf[1])
<1>1. c.phase \in Phase
  BY DEF ContextWith
<1>2. phase \in Phase /\ phase.tag \in {"Processing", "Done"}
  BY <1>1, FinishPhaseType
<1>3. r = [c EXCEPT !.phase = phase]
  BY DEF handle_stream_fin
<1> HIDE DEF phase
<1>4. r \in ContextWith(Ids) /\ r.id = c.id /\ r.buf = c.buf /\ r.phase = phase
  BY <1>2, <1>3 DEF ContextWith
<1> QED
  BY <1>2, <1>4 DEF phase

(* At the end of w the stream is ready exactly when w is a whole query.    *)
LEMMA FinFramed ==
    ASSUME NEW Ids, NEW c \in ContextWith(Ids), NEW w \in Seq(Byte),
           c.phase = WholeStreamPhase(w, Len(w)), BodyHeld(w, c.buf, Len(w)),
           NEW r, r = handle_stream_fin(c)
    PROVE  r.phase = IF WholeQuery(w) THEN Processing(Expected(w)) ELSE Done
<1>1. c.buf \in Buffer
  BY DEF ContextWith
<1>2. r.phase = finish_doq_phase(WholeStreamPhase(w, Len(w)), c.buf[0], c.buf[1])
  BY FinHandler
<1> QED
  BY <1>1, <1>2, FinishStep

----------------------------------------------------------------------------
(* The table.  A shape S says what its contexts hold: stream ids, phases   *)
(* (S.empty that of a new stream) and message buffers.                     *)

Shape(S) == 0 \in S.ids /\ S.empty \in S.phases

ContextOf(S) == [id : S.ids, phase : S.phases, buf : S.bufs]

TableOf(S) ==
    [active : [Slot -> Slot],
     num    : 0 .. Capacity,
     ctx    : [Slot -> ContextOf(S)],
     used   : [Slot -> BOOLEAN]]

(* The representation invariant of a table.                                *)
GoodTable(S, t) ==
    /\ Shape(S) /\ t \in TableOf(S)
    /\ PointersDistinct(t)
    /\ FlagsMatchPrefix(t)
    /\ FreeSlotsReset(t, S.empty)
    /\ IdsDistinct(t)

----------------------------------------------------------------------------
(* A stream of the table is at one position of the prefix, which is the    *)
(* one find_stream and close_stream use.                                   *)
LEMMA UniqueMatch ==
    ASSUME NEW S, NEW t, GoodTable(S, t), NEW id, Matches(t, id) # {}
    PROVE  /\ FirstMatch(t, id) \in Prefix(t)
           /\ t.ctx[t.active[FirstMatch(t, id)]].id = id
<1>1. PICK i \in Matches(t, id) : TRUE
  OBVIOUS
<1>2. \A j \in Matches(t, id) : i = j
  BY <1>1 DEF GoodTable, IdsDistinct, Matches
<1>3. i \in Int
  BY <1>1 DEF Matches, Prefix
<1>4. \E k \in Matches(t, id) : \A j \in Matches(t, id) : k <= j
  BY <1>1, <1>2, <1>3
<1>5. FirstMatch(t, id) \in Matches(t, id)
  BY <1>4 DEF FirstMatch
<1> QED
  BY <1>5 DEF Matches

(* The positions of the prefix are positions of the pointer array, and its *)
(* slots are slots.                                                        *)
LEMMA PrefixInSlots ==
    ASSUME NEW S, NEW t, t \in TableOf(S)
    PROVE  /\ Prefix(t) \subseteq Slot
           /\ ActiveSlots(t) \subseteq Slot
           /\ t.num < Capacity => t.num \in Slot
<1>1. t.num \in 0 .. Capacity /\ t.active \in [Slot -> Slot]
  BY DEF TableOf, ContextOf
<1>2. Capacity \in Nat
  BY CapacityAssumption
<1>3. Prefix(t) \subseteq Slot
  BY <1>1, <1>2 DEF Prefix, Slot
<1>4. ActiveSlots(t) \subseteq Slot
  BY <1>1, <1>3 DEF ActiveSlots
<1>5. t.num < Capacity => t.num \in Slot
  BY <1>1, <1>2 DEF Slot
<1> QED
  BY <1>3, <1>4, <1>5

(* find_stream returns an open slot that carries the id, or NULL when no   *)
(* open slot does.                                                         *)
LEMMA FindStream ==
    ASSUME NEW S, NEW t, GoodTable(S, t), NEW id
    PROVE  \/ /\ find_stream(t, id) = NULL
              /\ id \notin ActiveIds(t)
           \/ /\ find_stream(t, id) \in ActiveSlots(t)
              /\ find_stream(t, id) # NULL
              /\ t.ctx[find_stream(t, id)].id = id
<1>1. CASE Matches(t, id) = {}
  BY <1>1 DEF find_stream, ActiveIds, ActiveSlots, Matches
<1>2. CASE Matches(t, id) # {}
  <2>1. find_stream(t, id) = t.active[FirstMatch(t, id)]
    BY <1>2 DEF find_stream
  <2>2. find_stream(t, id) \in ActiveSlots(t) /\ t.ctx[find_stream(t, id)].id = id
    BY <1>2, <2>1, UniqueMatch DEF ActiveSlots
  <2>3. find_stream(t, id) \in Slot
    BY <2>2, PrefixInSlots DEF GoodTable
  <2> QED
    BY <2>2, <2>3 DEF Slot, NULL
<1> QED
  BY <1>1, <1>2

----------------------------------------------------------------------------
(* Operations.                                                             *)

(* The table the shell starts with.                                        *)
LEMMA InitGood ==
    ASSUME NEW S, Shape(S), NEW buf \in S.bufs
    PROVE  GoodTable(S, connection_init(S.empty, buf))
<1> DEFINE t == connection_init(S.empty, buf)
<1>1. t \in TableOf(S)
  BY CapacityAssumption DEF Shape, connection_init, TableOf, ContextOf, Slot
<1>2. Prefix(t) = {} /\ ActiveSlots(t) = {}
  BY DEF connection_init, Prefix, ActiveSlots
<1>3. PointersDistinct(t)
  BY DEF connection_init, PointersDistinct
<1>4. FlagsMatchPrefix(t)
  BY <1>2 DEF connection_init, FlagsMatchPrefix
<1>5. FreeSlotsReset(t, S.empty)
  BY <1>2 DEF connection_init, FreeSlotsReset
<1>6. IdsDistinct(t)
  BY <1>2 DEF IdsDistinct
<1> QED
  BY <1>1, <1>3, <1>4, <1>5, <1>6 DEF GoodTable

(* A handler's write to an open slot, whatever it leaves in the buffer.    *)
LEMMA StoreGood ==
    ASSUME NEW S, NEW t, GoodTable(S, t), NEW s \in ActiveSlots(t),
           NEW c \in ContextOf(S), c.id = t.ctx[s].id
    PROVE  LET u == [t EXCEPT !.ctx = [t.ctx EXCEPT ![s] = c]]
           IN  /\ GoodTable(S, u)
               /\ ActiveSlots(u) = ActiveSlots(t)
               /\ u.ctx[s] = c
               /\ \A r \in Slot \ {s} : u.ctx[r] = t.ctx[r]
<1> DEFINE u == [t EXCEPT !.ctx = [t.ctx EXCEPT ![s] = c]]
<1>1. t \in TableOf(S) /\ s \in Slot
  BY PrefixInSlots DEF GoodTable
<1>2. /\ u.active = t.active /\ u.num = t.num /\ u.used = t.used
      /\ u.ctx = [t.ctx EXCEPT ![s] = c]
  BY <1>1 DEF TableOf
<1>3. u \in TableOf(S)
  <2>1. t.ctx \in [Slot -> ContextOf(S)]
    BY <1>1 DEF TableOf
  <2>2. [t.ctx EXCEPT ![s] = c] \in [Slot -> ContextOf(S)]
    BY <1>1, <2>1
  <2> QED
    BY <1>1, <2>2, Zenon DEF TableOf
<1>4. u.ctx[s] = c /\ \A r \in Slot \ {s} : u.ctx[r] = t.ctx[r]
  BY <1>1, <1>2 DEF TableOf
<1>5. Prefix(u) = Prefix(t) /\ ActiveSlots(u) = ActiveSlots(t)
  BY <1>2 DEF Prefix, ActiveSlots
<1>6. PointersDistinct(u) /\ FlagsMatchPrefix(u)
  BY <1>2, <1>5 DEF GoodTable, PointersDistinct, FlagsMatchPrefix
<1>7. FreeSlotsReset(u, S.empty)
  BY <1>4, <1>5 DEF GoodTable, FreeSlotsReset
<1>8. IdsDistinct(u)
  <2>1. \A i \in Prefix(t) : u.ctx[u.active[i]].id = t.ctx[t.active[i]].id
    BY <1>1, <1>2, <1>4, PrefixInSlots DEF TableOf
  <2> QED
    BY <1>5, <2>1 DEF GoodTable, IdsDistinct
<1> HIDE DEF u
<1> QED
  BY <1>3, <1>4, <1>5, <1>6, <1>7, <1>8 DEF GoodTable, u

(* A new stream gets a slot that no open stream has.  It is refused only   *)
(* when the table is full.                                                 *)
LEMMA AllocateGood ==
    ASSUME NEW S, NEW t, GoodTable(S, t), NEW id \in S.ids, id \notin ActiveIds(t)
    PROVE  LET r == open_free_slot(t, id, S.empty)
           IN  \/ /\ t.num = Capacity
                  /\ r.slot = NULL /\ r.table = t
               \/ /\ t.num < Capacity
                  /\ r.slot \in Slot \ ActiveSlots(t)
                  /\ GoodTable(S, r.table)
                  /\ r.table.num = t.num + 1
                  /\ ActiveSlots(r.table) = ActiveSlots(t) \cup {r.slot}
                  /\ r.table.ctx[r.slot].id = id
                  /\ r.table.ctx[r.slot].phase = S.empty
                  /\ \A s \in Slot \ {r.slot} : r.table.ctx[s] = t.ctx[s]
<1> DEFINE free == t.active[t.num]
           r == open_free_slot(t, id, S.empty)
           u == r.table
<1>1. t \in TableOf(S) /\ t.num \in 0 .. Capacity
  BY DEF GoodTable, TableOf, ContextOf
<1>2. CASE t.num = Capacity
  BY <1>2, CapacityAssumption DEF open_free_slot
<1>3. CASE t.num < Capacity
  <2>1. t.num \in Slot /\ free \in Slot
    BY <1>1, <1>3, CapacityAssumption DEF TableOf, ContextOf, Slot
  <2>2. free \notin ActiveSlots(t)
    <3>1. \A i \in Prefix(t) : i \in Slot /\ i # t.num
      BY <1>1, PrefixInSlots DEF Prefix
    <3> QED
      BY <2>1, <3>1 DEF GoodTable, PointersDistinct, ActiveSlots
  <2>3. t.used[free] = FALSE
    BY <1>1, <2>1, <2>2 DEF GoodTable, FlagsMatchPrefix, TableOf, ContextOf
  <2>4. /\ r.slot = free
        /\ u = [t EXCEPT
                  !.ctx  = [t.ctx EXCEPT ![free] =
                              [@ EXCEPT !.id = id, !.phase = S.empty]],
                  !.used = [t.used EXCEPT ![free] = TRUE],
                  !.num  = t.num + 1]
    BY <1>1, <1>3, <2>3, CapacityAssumption DEF open_free_slot
  <2>5. /\ u.active = t.active /\ u.num = t.num + 1
        /\ u.used = [t.used EXCEPT ![free] = TRUE]
        /\ u.ctx = [t.ctx EXCEPT ![free] = [@ EXCEPT !.id = id, !.phase = S.empty]]
    BY <1>1, <2>4, SMTT(20) DEF TableOf, ContextOf
  <2>6. u \in TableOf(S)
    <3>1. t.num + 1 \in 0 .. Capacity
      BY <1>1, <1>3, CapacityAssumption
    <3>2. [t.used EXCEPT ![free] = TRUE] \in [Slot -> BOOLEAN]
      BY <1>1, <2>1 DEF TableOf, ContextOf
    <3>3. [t.ctx[free] EXCEPT !.id = id, !.phase = S.empty] \in
            ContextOf(S)
      <4>1. t.ctx[free] \in ContextOf(S)
        BY <1>1, <2>1 DEF TableOf, ContextOf
      <4>2. S.empty \in S.phases
        BY DEF GoodTable, Shape
      <4> HIDE DEF free
      <4> QED
        BY <4>1, <4>2, Zenon DEF ContextOf
    <3>4. [t.ctx EXCEPT ![free] = [@ EXCEPT !.id = id, !.phase = S.empty]] \in
            [Slot -> ContextOf(S)]
      BY <1>1, <2>1, <3>3 DEF TableOf, ContextOf
    <3> QED
      BY <1>1, <2>4, <3>1, <3>2, <3>4, Zenon DEF TableOf, ContextOf
  <2>7. /\ \A s \in Slot \ {free} : u.ctx[s] = t.ctx[s]
        /\ u.ctx[free].id = id /\ u.ctx[free].phase = S.empty
    BY <1>1, <2>1, <2>5 DEF TableOf, ContextOf
  <2>8. Prefix(u) = Prefix(t) \cup {t.num}
    BY <1>1, <2>5 DEF Prefix
  <2>9. ActiveSlots(u) = ActiveSlots(t) \cup {free}
    BY <2>5, <2>8 DEF ActiveSlots
  <2>10. PointersDistinct(u)
    BY <2>5 DEF GoodTable, PointersDistinct
  <2>11. FlagsMatchPrefix(u)
    BY <1>1, <2>1, <2>5, <2>9 DEF GoodTable, FlagsMatchPrefix, TableOf, ContextOf
  <2>12. FreeSlotsReset(u, S.empty)
    BY <2>7, <2>9, SMTT(20) DEF GoodTable, FreeSlotsReset
  <2>13. IdsDistinct(u)
    <3>1. \A i \in Prefix(t) : /\ u.ctx[u.active[i]].id = t.ctx[t.active[i]].id
                               /\ t.ctx[t.active[i]].id # id
      <4> TAKE i \in Prefix(t)
      <4>1. t.active[i] \in ActiveSlots(t) /\ t.active[i] \in Slot \ {free}
        BY <1>1, <2>2, PrefixInSlots DEF ActiveSlots
      <4> QED
        BY <4>1, <2>5, <2>7 DEF ActiveIds
    <3>2. u.ctx[u.active[t.num]].id = id
      BY <2>5, <2>7
    <3>3. \A i, j \in Prefix(t) : t.ctx[t.active[i]].id = t.ctx[t.active[j]].id => i = j
      BY DEF GoodTable, IdsDistinct
    <3> HIDE DEF u
    <3> QED
      BY <2>8, <3>1, <3>2, <3>3, SMTT(20) DEF IdsDistinct
  <2> HIDE DEF u
  <2>14. GoodTable(S, u)
    BY <2>6, <2>10, <2>11, <2>12, <2>13 DEF GoodTable
  <2> QED
    BY <1>3, <2>1, <2>2, <2>4, <2>5, <2>7, <2>9, <2>14 DEF u
<1> QED
  BY <1>1, <1>2, <1>3, CapacityAssumption

(* Closing a stream takes its slot, and only that, out of the prefix; the  *)
(* pointers stay a permutation.                                            *)
LEMMA CloseStream ==
    ASSUME NEW S, NEW t, GoodTable(S, t), NEW id, Matches(t, id) # {}
    PROVE  LET u == close_stream(t, id)
               s == t.active[FirstMatch(t, id)]
           IN  /\ u \in TableOf(S)
               /\ u.ctx = t.ctx /\ u.used = t.used /\ u.num = t.num - 1
               /\ PointersDistinct(u)
               /\ IdsDistinct(u)
               /\ s \in ActiveSlots(t)
               /\ t.ctx[s].id = id
               /\ ActiveSlots(u) = ActiveSlots(t) \ {s}
<1> DEFINE i == FirstMatch(t, id)
           last == t.num - 1
           u == close_stream(t, id)
           s == t.active[i]
<1>1. t \in TableOf(S) /\ t.num \in 0 .. Capacity
  BY DEF GoodTable, TableOf, ContextOf
<1>2. i \in Prefix(t) /\ t.ctx[s].id = id
  BY UniqueMatch
<1>3. /\ i \in Slot /\ last \in Slot /\ i \in 0 .. last
      /\ last \in 0 .. Capacity /\ Prefix(t) = 0 .. last
  BY <1>1, <1>2, CapacityAssumption DEF Prefix, Slot
<1> HIDE DEF i, last
<1>4. u = [t EXCEPT !.active = [t.active EXCEPT ![i] = t.active[last], ![last] = t.active[i]],
                    !.num    = last]
  BY DEF close_stream, i, last
<1>5. /\ u.ctx = t.ctx /\ u.used = t.used /\ u.num = last
      /\ u.active = [t.active EXCEPT ![i] = t.active[last], ![last] = t.active[i]]
  BY <1>1, <1>4 DEF TableOf, ContextOf
<1>6. u \in TableOf(S)
  <2>1. [t.active EXCEPT ![i] = t.active[last], ![last] = t.active[i]] \in [Slot -> Slot]
    BY <1>1, <1>3 DEF TableOf, ContextOf
  <2>2. u = [t EXCEPT !.active = u.active, !.num = last]
    BY <1>4, <1>5
  <2>3. u.active \in [Slot -> Slot]
    BY <1>5, <2>1
  <2> HIDE DEF u
  <2> QED
    BY <1>1, <1>3, <2>2, <2>3, Zenon DEF TableOf, ContextOf
<1>7. \A k \in Slot : u.active[k] = IF k = last THEN t.active[i]
                                    ELSE IF k = i THEN t.active[last] ELSE t.active[k]
  BY <1>1, <1>3, <1>5 DEF TableOf, ContextOf
<1>8. \A j, k \in Slot : t.active[j] = t.active[k] => j = k
  BY DEF GoodTable, PointersDistinct
<1>9. PointersDistinct(u)
  BY <1>3, <1>7, <1>8, Zenon DEF PointersDistinct
<1>10. Prefix(u) = Prefix(t) \ {last}
  <2>1. Prefix(u) = 0 .. last - 1
    BY <1>5 DEF Prefix
  <2> QED
    BY <1>3, <2>1
<1>11. Prefix(t) \subseteq Slot /\ i \in Prefix(t) /\ last \in Prefix(t)
  BY <1>1, <1>2, <1>3, PrefixInSlots
<1>12. ActiveSlots(u) = ActiveSlots(t) \ {s}
  <2>1. ASSUME NEW x \in ActiveSlots(u) PROVE x \in ActiveSlots(t) \ {s}
    <3>1. PICK k \in Prefix(t) \ {last} : x = u.active[k]
      BY <1>10 DEF ActiveSlots
    <3>2. k \in Slot /\ x = IF k = i THEN t.active[last] ELSE t.active[k]
      BY <1>7, <1>11, <3>1
    <3> QED
      BY <1>3, <1>8, <1>11, <3>1, <3>2 DEF ActiveSlots
  <2>2. ASSUME NEW x \in ActiveSlots(t) \ {s} PROVE x \in ActiveSlots(u)
    <3>1. PICK k \in Prefix(t) : x = t.active[k] /\ k # i
      BY DEF ActiveSlots
    <3>2. CASE k = last
      <4>1. i \in Prefix(u) /\ u.active[i] = x
        BY <1>7, <1>10, <1>11, <3>1, <3>2
      <4> QED
        BY <4>1 DEF ActiveSlots
    <3>3. CASE k # last
      <4>1. k \in Prefix(u) /\ u.active[k] = x
        BY <1>7, <1>10, <1>11, <3>1, <3>3
      <4> QED
        BY <4>1 DEF ActiveSlots
    <3> QED
      BY <3>2, <3>3
  <2> QED
    BY <2>1, <2>2
<1>13. IdsDistinct(u)
  <2>1. \A j, k \in Prefix(t) : t.ctx[t.active[j]].id = t.ctx[t.active[k]].id => j = k
    BY DEF GoodTable, IdsDistinct
  <2>2. \A k \in Prefix(u) : /\ k \in Prefix(t) /\ k # last
                             /\ u.active[k] = IF k = i THEN t.active[last] ELSE t.active[k]
    BY <1>7, <1>10, <1>11
  <2> QED
    BY <1>5, <1>11, <2>1, <2>2 DEF IdsDistinct
<1>14. s \in ActiveSlots(t)
  BY <1>11 DEF ActiveSlots
<1> HIDE DEF u
<1> QED
  BY <1>2, <1>5, <1>6, <1>9, <1>12, <1>13, <1>14 DEF u, i, last

(* The shell's sync brings flags and free contexts back in line.           *)
LEMMA SyncGood ==
    ASSUME NEW S, Shape(S), NEW u, u \in TableOf(S), PointersDistinct(u), IdsDistinct(u)
    PROVE  LET v == sync_stream_slots(u, S.empty)
           IN  /\ GoodTable(S, v)
               /\ ActiveSlots(v) = ActiveSlots(u)
               /\ \A s \in ActiveSlots(u) : v.ctx[s] = u.ctx[s]
<1> DEFINE v == sync_stream_slots(u, S.empty)
           Context == ContextOf(S)
           ctx == [s \in Slot |-> IF s \in ActiveSlots(u) THEN u.ctx[s]
                                  ELSE reset_stream(u.ctx[s], S.empty)]
<1>1. /\ v.active = u.active /\ v.num = u.num /\ v.ctx = ctx
      /\ v.used = [s \in Slot |-> s \in ActiveSlots(u)]
  BY DEF sync_stream_slots, TableOf, ContextOf
<1>2. \A s \in Slot : /\ reset_stream(u.ctx[s], S.empty) \in Context
                      /\ reset_stream(u.ctx[s], S.empty).id = 0
                      /\ reset_stream(u.ctx[s], S.empty).phase = S.empty
  <2> TAKE s \in Slot
  <2>1. u.ctx[s] \in Context /\ 0 \in S.ids /\ S.empty \in S.phases
    BY DEF Shape, TableOf, ContextOf
  <2> QED
    BY <2>1, Zenon DEF reset_stream, ContextOf
<1>3. ctx \in [Slot -> Context]
  BY <1>2 DEF TableOf, ContextOf
<1>4. v \in TableOf(S)
  <2>1. [s \in Slot |-> s \in ActiveSlots(u)] \in [Slot -> BOOLEAN]
    OBVIOUS
  <2> HIDE DEF ctx
  <2>2. v = [u EXCEPT !.ctx = ctx, !.used = [s \in Slot |-> s \in ActiveSlots(u)]]
    BY DEF sync_stream_slots, ctx
  <2> QED
    BY <1>3, <2>1, <2>2, Zenon DEF TableOf, ContextOf
<1>5. Prefix(v) = Prefix(u) /\ ActiveSlots(v) = ActiveSlots(u)
  BY <1>1 DEF Prefix, ActiveSlots
<1>6. ActiveSlots(u) \subseteq Slot
  BY PrefixInSlots
<1>7. \A s \in ActiveSlots(u) : v.ctx[s] = u.ctx[s]
  BY <1>1, <1>6
<1>8. PointersDistinct(v)
  BY <1>1 DEF PointersDistinct
<1>9. FlagsMatchPrefix(v)
  BY <1>1, <1>5, Zenon DEF FlagsMatchPrefix
<1>10. FreeSlotsReset(v, S.empty)
  BY <1>1, <1>2, <1>5 DEF FreeSlotsReset
<1>11. IdsDistinct(v)
  <2>1. \A i \in Prefix(u) : v.ctx[v.active[i]] = u.ctx[u.active[i]]
    BY <1>1, <1>7 DEF ActiveSlots
  <2> QED
    BY <1>5, <2>1 DEF IdsDistinct
<1> HIDE DEF v
<1> QED
  BY <1>4, <1>5, <1>7, <1>8, <1>9, <1>10, <1>11 DEF GoodTable, v

(* What the two closing calls make of a table.                             *)
Closings(t, id, empty) ==
    {dispatch_stream_reset(t, id, empty), dispatch_response_send_finished(t, id, empty)}

(* Both closing calls leave a good table in which every stream but the     *)
(* named one has the slot and context it had.                              *)
LEMMA ClosingGood ==
    ASSUME NEW S, NEW t, GoodTable(S, t), NEW id,
           NEW v \in Closings(t, id, S.empty)
    PROVE  /\ GoodTable(S, v)
           /\ ActiveSlots(v) = {s \in ActiveSlots(t) : t.ctx[s].id # id}
           /\ \A s \in ActiveSlots(v) : v.ctx[s] = t.ctx[s]
<1> DEFINE c == close_stream(t, id)
<1>0. ActiveSlots(t) \subseteq Slot /\ Shape(S)
  BY PrefixInSlots DEF GoodTable
<1>1. CASE Matches(t, id) = {}
  <2>1. c = t
    BY <1>1 DEF close_stream
  <2>2. \A s \in ActiveSlots(t) : t.ctx[s].id # id
    BY <1>1 DEF Matches, ActiveSlots
  <2>3. CASE v = dispatch_stream_reset(t, id, S.empty)
    <3>1. v = sync_stream_slots(t, S.empty)
      BY <2>1, <2>3 DEF dispatch_stream_reset
    <3> QED
      BY <2>2, <3>1, SyncGood DEF GoodTable
  <2>4. CASE v = dispatch_response_send_finished(t, id, S.empty)
    <3>1. ~ \E s \in Slot : t.used[s] /\ t.ctx[s].id = id
      BY <2>2 DEF GoodTable, FlagsMatchPrefix
    <3>2. v = t
      BY <2>1, <2>4, <3>1 DEF dispatch_response_send_finished
    <3> QED
      BY <2>2, <3>2
  <2> QED
    BY <2>3, <2>4 DEF Closings
<1>2. CASE Matches(t, id) # {}
  <2> DEFINE s == t.active[FirstMatch(t, id)]
  <2>1. /\ c \in TableOf(S) /\ c.ctx = t.ctx /\ c.used = t.used
        /\ PointersDistinct(c) /\ IdsDistinct(c)
        /\ s \in ActiveSlots(t) /\ t.ctx[s].id = id
        /\ ActiveSlots(c) = ActiveSlots(t) \ {s}
    BY <1>2, CloseStream
  <2>2. \A r \in ActiveSlots(t) : t.ctx[r].id = id => r = s
    BY <2>1 DEF GoodTable, IdsDistinct, ActiveSlots
  <2>3. s \in Slot /\ c.used[s] /\ c.ctx[s].id = id
    BY <1>0, <2>1 DEF GoodTable, FlagsMatchPrefix
  <2>4. v = sync_stream_slots(c, S.empty)
    BY <2>3 DEF Closings, dispatch_stream_reset, dispatch_response_send_finished
  <2> HIDE DEF c, s
  <2>5. GoodTable(S, v) /\ ActiveSlots(v) = ActiveSlots(c)
        /\ \A r \in ActiveSlots(c) : v.ctx[r] = c.ctx[r]
    BY <1>0, <2>1, <2>4, SyncGood, SMTT(20)
  <2> QED
    BY <2>1, <2>2, <2>5
<1> QED
  BY <1>1, <1>2

(* Opening a stream finds its slot or takes a free one; every stream that  *)
(* was open keeps its slot and context, and a stream is refused only when  *)
(* the table is full.                                                      *)
LEMMA OpenGood ==
    ASSUME NEW S, NEW t, GoodTable(S, t), NEW id \in S.ids
    PROVE  LET o == open_stream(t, id, S.empty)
           IN  \/ /\ o.slot = NULL /\ o.table = t
                  /\ id \notin ActiveIds(t) /\ t.num = Capacity
               \/ /\ o.slot # NULL
                  /\ id \in ActiveIds(t) \/ t.num < Capacity
                  /\ GoodTable(S, o.table)
                  /\ o.slot \in ActiveSlots(o.table)
                  /\ ActiveSlots(o.table) = ActiveSlots(t) \cup {o.slot}
                  /\ o.table.ctx[o.slot].id = id
                  /\ \A s \in ActiveSlots(t) : o.table.ctx[s] = t.ctx[s]
                  /\ o.slot \in ActiveSlots(t) <=> id \in ActiveIds(t)
                  /\ id \notin ActiveIds(t) => o.table.ctx[o.slot].phase = S.empty
<1> DEFINE o == open_stream(t, id, S.empty)
<1>1. ActiveSlots(t) \subseteq Slot
  BY PrefixInSlots DEF GoodTable
<1>2. CASE find_stream(t, id) # NULL
  <2>1. o.table = t /\ o.slot = find_stream(t, id)
    BY <1>2 DEF open_stream
  <2>2. o.slot \in ActiveSlots(t) /\ t.ctx[o.slot].id = id
    BY <1>2, <2>1, FindStream
  <2>3. id \in ActiveIds(t)
    BY <2>2 DEF ActiveIds
  <2> HIDE DEF o
  <2> QED
    BY <1>2, <2>1, <2>2, <2>3 DEF o
<1>3. CASE find_stream(t, id) = NULL
  <2>1. id \notin ActiveIds(t)
    BY <1>3, FindStream
  <2>2. o = open_free_slot(t, id, S.empty)
    BY <1>3 DEF open_stream
  <2> HIDE DEF o
  <2>3. CASE t.num = Capacity
    BY <2>1, <2>2, <2>3, AllocateGood, CapacityAssumption, SMTT(20) DEF o
  <2>4. CASE t.num # Capacity
    <3>1. /\ t.num < Capacity
          /\ o.slot \in Slot \ ActiveSlots(t)
          /\ GoodTable(S, o.table)
          /\ ActiveSlots(o.table) = ActiveSlots(t) \cup {o.slot}
          /\ o.table.ctx[o.slot].id = id /\ o.table.ctx[o.slot].phase = S.empty
          /\ \A s \in Slot \ {o.slot} : o.table.ctx[s] = t.ctx[s]
      BY <2>1, <2>2, <2>4, AllocateGood, SMTT(20)
    <3>2. o.slot # NULL
      BY <3>1 DEF Slot, NULL
    <3> QED
      BY <1>1, <2>1, <3>1, <3>2, SMTT(20) DEF o
  <2> QED
    BY <2>3, <2>4
<1> QED
  BY <1>2, <1>3

----------------------------------------------------------------------------
(* The table as a map from open streams to contexts, which is how the code *)
(* around it uses it.                                                      *)

Ctx(t, id) == t.ctx[find_stream(t, id)]

(* Two open slots with the same id are the same slot.                      *)
LEMMA SlotUnique ==
    ASSUME NEW S, NEW t, GoodTable(S, t), NEW r \in ActiveSlots(t), NEW s \in ActiveSlots(t),
           t.ctx[r].id = t.ctx[s].id
    PROVE  r = s
  BY DEF GoodTable, IdsDistinct, ActiveSlots

(* An open stream is found at the slot that carries its id.                *)
LEMMA FoundAtSlot ==
    ASSUME NEW S, NEW t, GoodTable(S, t), NEW s \in ActiveSlots(t)
    PROVE  /\ t.ctx[s].id \in ActiveIds(t)
           /\ find_stream(t, t.ctx[s].id) = s
<1>1. t.ctx[s].id \in ActiveIds(t)
  BY DEF ActiveIds
<1>2. /\ find_stream(t, t.ctx[s].id) \in ActiveSlots(t)
      /\ t.ctx[find_stream(t, t.ctx[s].id)].id = t.ctx[s].id
  BY <1>1, FindStream
<1> QED
  BY <1>1, <1>2, SlotUnique

(* find_stream on an open stream and on one that is not.                   *)
LEMMA FoundIffOpen ==
    ASSUME NEW S, NEW t, GoodTable(S, t), NEW id
    PROVE  /\ find_stream(t, id) = NULL <=> id \notin ActiveIds(t)
           /\ id \in ActiveIds(t) => /\ id \in S.ids
                                     /\ find_stream(t, id) \in ActiveSlots(t)
                                     /\ Ctx(t, id) \in ContextOf(S)
                                     /\ Ctx(t, id).id = id
<1>1. ASSUME id \in ActiveIds(t)
      PROVE  /\ find_stream(t, id) # NULL
             /\ find_stream(t, id) \in ActiveSlots(t)
             /\ Ctx(t, id) \in ContextOf(S)
             /\ Ctx(t, id).id = id
             /\ id \in S.ids
  <2>1. /\ find_stream(t, id) \in ActiveSlots(t) /\ find_stream(t, id) # NULL
        /\ t.ctx[find_stream(t, id)].id = id
    BY <1>1, FindStream
  <2>2. t \in TableOf(S) /\ find_stream(t, id) \in Slot
    BY <2>1, PrefixInSlots DEF GoodTable
  <2>3. t.ctx[find_stream(t, id)] \in ContextOf(S)
    BY <2>2 DEF TableOf
  <2>4. t.ctx[find_stream(t, id)].id \in S.ids
    BY <2>3 DEF ContextOf
  <2> QED
    BY <2>1, <2>3, <2>4 DEF Ctx
<1>2. id \notin ActiveIds(t) => find_stream(t, id) = NULL
  <2> SUFFICES ASSUME id \notin ActiveIds(t) PROVE find_stream(t, id) = NULL
    OBVIOUS
  <2>1. \A s \in ActiveSlots(t) : t.ctx[s].id # id
    BY DEF ActiveIds
  <2> QED
    BY <2>1, FindStream
<1> QED
  BY <1>1, <1>2, Zenon

(* Tables that keep an open slot's context keep the stream's.              *)
LEMMA SameContext ==
    ASSUME NEW S, NEW t, GoodTable(S, t), NEW u, GoodTable(S, u),
           NEW s \in ActiveSlots(t), s \in ActiveSlots(u), u.ctx[s] = t.ctx[s]
    PROVE  Ctx(u, t.ctx[s].id) = Ctx(t, t.ctx[s].id)
<1>1. find_stream(t, t.ctx[s].id) = s /\ find_stream(u, u.ctx[s].id) = s
  BY FoundAtSlot
<1> QED
  BY <1>1 DEF Ctx

(* What open_stream returned, with c stored in its slot.                   *)
Put(o, c) == [o.table EXCEPT !.ctx = [o.table.ctx EXCEPT ![o.slot] = c]]

(* Opening a stream and storing what a handler made of its context.        *)
LEMMA OpenView ==
    ASSUME NEW S, NEW t, GoodTable(S, t), NEW id \in S.ids,
           NEW o, o = open_stream(t, id, S.empty)
    PROVE  \/ /\ o.slot = NULL /\ o.table = t
              /\ id \notin ActiveIds(t) /\ t.num = Capacity
           \/ /\ o.slot # NULL
              /\ o.table.ctx[o.slot] \in ContextOf(S)
              /\ o.table.ctx[o.slot].id = id
              /\ id \in ActiveIds(t) => o.table.ctx[o.slot] = Ctx(t, id)
              /\ id \notin ActiveIds(t) => o.table.ctx[o.slot].phase = S.empty
              /\ \A c \in ContextOf(S) : c.id = id =>
                    /\ GoodTable(S, Put(o, c))
                    /\ ActiveIds(Put(o, c)) = ActiveIds(t) \cup {id}
                    /\ Ctx(Put(o, c), id) = c
                    /\ \A j \in ActiveIds(t) \ {id} : Ctx(Put(o, c), j) = Ctx(t, j)
<1>1. CASE o.slot = NULL
  BY <1>1, OpenGood, SMTT(20)
<1>2. CASE o.slot # NULL
  <2>1. /\ GoodTable(S, o.table)
        /\ o.slot \in ActiveSlots(o.table)
        /\ ActiveSlots(o.table) = ActiveSlots(t) \cup {o.slot}
        /\ o.table.ctx[o.slot].id = id
        /\ \A s \in ActiveSlots(t) : o.table.ctx[s] = t.ctx[s]
        /\ o.slot \in ActiveSlots(t) <=> id \in ActiveIds(t)
        /\ id \notin ActiveIds(t) => o.table.ctx[o.slot].phase = S.empty
    BY <1>2, OpenGood, SMTT(20)
  <2>2. o.table.ctx[o.slot] \in ContextOf(S)
    <3>1. o.table \in TableOf(S) /\ o.slot \in Slot
      BY <2>1, PrefixInSlots DEF GoodTable
    <3> QED
      BY <3>1 DEF TableOf
  <2>3. id \in ActiveIds(t) => o.table.ctx[o.slot] = Ctx(t, id)
    BY <2>1, FoundAtSlot DEF Ctx
  <2>4. ASSUME NEW c \in ContextOf(S), c.id = id,
               NEW u, u = Put(o, c)
        PROVE  /\ GoodTable(S, u)
               /\ ActiveIds(u) = ActiveIds(t) \cup {id}
               /\ Ctx(u, id) = c
               /\ \A j \in ActiveIds(t) \ {id} : Ctx(u, j) = Ctx(t, j)
    <3>1. /\ GoodTable(S, u) /\ ActiveSlots(u) = ActiveSlots(o.table)
          /\ u.ctx[o.slot] = c
          /\ \A r \in Slot \ {o.slot} : u.ctx[r] = o.table.ctx[r]
      BY <2>1, <2>4, StoreGood DEF Put
    <3>2. ActiveSlots(t) \subseteq Slot
      BY PrefixInSlots DEF GoodTable
    <3>3. \A s \in ActiveSlots(t) \ {o.slot} : u.ctx[s] = t.ctx[s] /\ s \in ActiveSlots(u)
      BY <2>1, <3>1, <3>2
    <3>4. Ctx(u, id) = c
      <4>1. o.slot \in ActiveSlots(u) /\ u.ctx[o.slot].id = id
        BY <2>1, <2>4, <3>1
      <4>2. find_stream(u, id) = o.slot
        BY <3>1, <4>1, FoundAtSlot
      <4> QED
        BY <3>1, <4>2 DEF Ctx
    <3>5. o.slot \in ActiveSlots(t) => t.ctx[o.slot].id = id
      BY <2>1
    <3>6. ActiveIds(u) = ActiveIds(t) \cup {id}
      <4>1. ActiveSlots(u) = ActiveSlots(t) \cup {o.slot} /\ u.ctx[o.slot].id = id
        BY <2>1, <2>4, <3>1
      <4>2. \A s \in ActiveSlots(t) : u.ctx[s].id = t.ctx[s].id
        BY <3>3, <3>5, <4>1
      <4> QED
        BY <4>1, <4>2 DEF ActiveIds
    <3>7. ASSUME NEW j \in ActiveIds(t) \ {id}
          PROVE  Ctx(u, j) = Ctx(t, j)
      <4>1. PICK s \in ActiveSlots(t) : j = t.ctx[s].id
        BY DEF ActiveIds
      <4>2. s # o.slot
        BY <3>5, <4>1
      <4> QED
        BY <3>1, <3>3, <4>1, <4>2, SameContext
    <3> QED
      BY <3>1, <3>4, <3>6, <3>7
  <2> QED
    BY <1>2, <2>1, <2>2, <2>3, <2>4
<1> QED
  BY <1>1, <1>2

(* Both closing calls take the stream out of the map and touch no other.   *)
LEMMA CloseView ==
    ASSUME NEW S, NEW t, GoodTable(S, t), NEW id,
           NEW v \in Closings(t, id, S.empty)
    PROVE  /\ GoodTable(S, v)
           /\ ActiveIds(v) = ActiveIds(t) \ {id}
           /\ \A j \in ActiveIds(v) : Ctx(v, j) = Ctx(t, j)
<1>1. /\ GoodTable(S, v)
      /\ ActiveSlots(v) = {s \in ActiveSlots(t) : t.ctx[s].id # id}
      /\ \A s \in ActiveSlots(v) : v.ctx[s] = t.ctx[s]
  BY ClosingGood
<1>2. ActiveIds(v) = ActiveIds(t) \ {id}
  BY <1>1 DEF ActiveIds
<1>3. ASSUME NEW j \in ActiveIds(v)
      PROVE  Ctx(v, j) = Ctx(t, j)
  <2>1. PICK s \in ActiveSlots(v) : j = v.ctx[s].id
    BY DEF ActiveIds
  <2> QED
    BY <1>1, <2>1, SameContext
<1> QED
  BY <1>1, <1>2, <1>3
=============================================================================
