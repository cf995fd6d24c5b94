--------------------------- MODULE ConsoleProofs ---------------------------
(***************************************************************************)
(* Proofs about Console: one context prints at a time, a message comes out *)
(* whole, its time stamp is not ahead of the clock, its numbers are its    *)
(* arguments, and the cursor stays on the screen.                          *)
(*                                                                         *)
(* The conversions are recursive functions. Each gets a lemma that its     *)
(* equation has a solution, one that it has no other, and one that says    *)
(* what it computes; induction is that of a set of natural numbers.        *)
(***************************************************************************)
EXTENDS Console, SequenceTheorems, WellFoundedInduction, TLAPS

-----------------------------------------------------------------------------
(* The inductive invariant.                                                *)

\* What SaySeconds and SayMillis print at a time t.
SecondsAt(t) == pad(ltoa(t \div TIMER_FREQUENCY, 10), SecondsWidth, Space)
MillisAt(t) == pad(ltoa(t % TIMER_FREQUENCY, 10), StampDigits, Zero)

\* The time stamp among the pieces p of a message: two looks at the clock.
SecondsRead(p, now) == \E t \in Nat : t <= now /\ p[2] = SecondsAt(t)
StampRead(p, now) ==
    \E t, u \in Nat : /\ t <= u /\ u <= now
                      /\ p[2] = SecondsAt(t) /\ p[3] = MillisAt(u) \o <<Esc(0)>>

\* The seconds of such a stamp.
SecondsOf(p) == ValueOf(p[2], 10)

IsSeq(s) == s = [k \in 1..Len(s) |-> s[k]] /\ Len(s) \in Nat

\* The pieces behind the stamp, as far as they are printed.
Follows(p, m) == \A k \in 4..Len(p) : p[k] = Rest(m)[k - 3]

PcStates == {"none", "acquire", "level", "seconds", "millis", "rest", "halted"}

\* What a context at `at` with the messages j has printed of the first one.
StageOf(at, j, s, now) ==
    /\ j \in Seq(Printed) /\ IsSeq(s)
    /\ at \in {"none", "halted"} <=> j = <<>>
    /\ at \in {"none", "halted", "acquire", "level"} => Len(s) = 0
    /\ at = "seconds" => Len(s) = 1
    /\ at = "millis" => Len(s) = 2 /\ SecondsRead(s, now)
    /\ at = "rest" => /\ Len(s) \in 3..(3 + Len(Rest(Head(j))))
                      /\ StampRead(s, now)
                      /\ Follows(s, Head(j))

Stages == \A x \in Contexts : StageOf(pc[x], job[x], said[x], timer_ticks)

\* One context at most is between acquire and release, and e9_mutex says
\* whether one is.
OneOwner ==
    /\ e9_mutex \in {0, 1}
    /\ e9_mutex = 0 <=> Owners = {}
    /\ \A x, y \in Owners : x = y

\* A message of the log is whole; no other one has come between its pieces.
Whole(e, now) ==
    /\ e.message \in Printed
    /\ Len(e.pieces) = 3 + Len(Rest(e.message))
    /\ StampRead(e.pieces, now)
    /\ Follows(e.pieces, e.message)

Logged == IsSeq(log) /\ \A i \in 1..Len(log) : Whole(log[i], timer_ticks)

\* Messages are in the log in the order in which they were given the lock: the
\* owner has looked at the clock later than all of them.
After(p) == \A i \in 1..Len(log) : SecondsOf(log[i].pieces) <= SecondsOf(p)

Ordered ==
    /\ \A i, j \in 1..Len(log) : i <= j => SecondsOf(log[i].pieces) <= SecondsOf(log[j].pieces)
    /\ \A x \in Contexts : pc[x] \in {"millis", "rest"} => After(said[x])

Types ==
    /\ pc \in [Contexts -> PcStates]
    /\ job = [x \in Contexts |-> job[x]] /\ said = [x \in Contexts |-> said[x]]
    /\ timer_ticks \in StartTicks..MaxTicks

IInv == Types /\ Stages /\ OneOwner /\ Logged /\ Ordered

-----------------------------------------------------------------------------
(* Induction and arithmetic.                                               *)

\* A set of natural numbers that is not empty has a least element.
LEMMA LeastNat ==
    ASSUME NEW S \in SUBSET Nat, S # {}
    PROVE  \E x \in S : \A y \in S : x <= y
<1>. DEFINE R == {s \in Nat \X Nat : s[1] < s[2]}
<1>1. IsWellFoundedOn(R, Nat)
  BY NatLessThanWellFounded, Zenon DEF OpToRel
<1>. HIDE DEF R
<1>2. PICK x \in S : \A y \in S : ~(<<y, x>> \in R)
  BY <1>1, WFMin
<1>3. ASSUME NEW y \in S PROVE x <= y
  <2>1. ~(<<y, x>> \in R)
    BY <1>2
  <2>. QED BY <2>1 DEF R
<1>. QED BY <1>3

\* Induction over the smaller numbers, for a property given as a set.
LEMMA StrongInduction ==
    ASSUME NEW S \in SUBSET Nat,
           \A n \in Nat : (\A m \in Nat : m < n => m \in S) => n \in S
    PROVE  \A n \in Nat : n \in S
<1>1. SUFFICES ASSUME Nat \ S # {} PROVE FALSE
  OBVIOUS
<1>2. PICK x \in Nat \ S : \A y \in Nat \ S : x <= y
  BY <1>1, LeastNat
<1>3. \A m \in Nat : m < x => m \in S
  BY <1>2
<1>. QED BY <1>2, <1>3

\* Induction, for a property given as a set.
LEMMA SetInduction ==
    ASSUME NEW S \in SUBSET Nat, 0 \in S, \A n \in S : n + 1 \in S
    PROVE  \A n \in Nat : n \in S
<1>1. SUFFICES ASSUME Nat \ S # {} PROVE FALSE
  OBVIOUS
<1>2. PICK x \in Nat \ S : \A y \in Nat \ S : x <= y
  BY <1>1, LeastNat
<1>3. x # 0 /\ x - 1 \in Nat
  BY <1>2
<1>4. x - 1 \in S
  BY <1>2, <1>3
<1>5. (x - 1) + 1 \in S
  BY <1>4
<1>. QED BY <1>2, <1>3, <1>5

\* Quotient and remainder.
LEMMA Division ==
    ASSUME NEW n \in Nat, NEW r \in Nat \ {0}
    PROVE  n \div r \in Nat /\ n % r \in 0..(r - 1) /\ n = (n \div r) * r + (n % r)
<1>1. PICK q, k : q = n \div r /\ k = n % r
  OBVIOUS
<1>2. q \in Nat /\ k \in 0..(r - 1)
  BY <1>1
<1>3. n = r * q + k
  BY <1>1, <1>2
<1>. QED BY <1>1, <1>2, <1>3

\* Powers of a number, one after the other.
PowersTo(b, n, f) == f = [k \in 0..n |-> IF k = 0 THEN 1 ELSE b * f[k - 1]]

\* The recursion of Power has a solution.
LEMMA PowersExist ==
    ASSUME NEW b \in Nat \ {0}
    PROVE  \A n \in Nat : \E f \in [0..n -> Nat \ {0}] : PowersTo(b, n, f)
<1>. DEFINE S == {n \in Nat : \E f \in [0..n -> Nat \ {0}] : PowersTo(b, n, f)}
<1>1. 0 \in S
  <2>1. [k \in 0..0 |-> 1] \in [0..0 -> Nat \ {0}] /\ PowersTo(b, 0, [k \in 0..0 |-> 1])
    BY DEF PowersTo
  <2>. QED BY <2>1
<1>2. ASSUME NEW n \in S PROVE n + 1 \in S
  <2>1. PICK f \in [0..n -> Nat \ {0}] : PowersTo(b, n, f)
    OBVIOUS
  <2>. DEFINE g == [k \in 0..(n + 1) |-> IF k <= n THEN f[k] ELSE b * f[n]]
  <2>2. n \in Nat /\ f[n] \in Nat \ {0} /\ b * f[n] \in Nat \ {0}
    OBVIOUS
  <2>3. g \in [0..(n + 1) -> Nat \ {0}]
    BY <2>2
  <2>4. ASSUME NEW k \in 0..(n + 1) PROVE g[k] = IF k = 0 THEN 1 ELSE b * g[k - 1]
    <3>1. CASE k <= n
      <4>1. f[k] = IF k = 0 THEN 1 ELSE b * f[k - 1]
        BY <2>1, <3>1 DEF PowersTo
      <4>. QED BY <2>2, <3>1, <4>1
    <3>2. CASE k = n + 1
      <4>1. ~(k <= n) /\ k - 1 = n /\ n \in 0..(n + 1) /\ k # 0
        BY <2>2, <3>2
      <4>. QED BY <2>2, <4>1
    <3>. QED BY <2>2, <3>1, <3>2
  <2>5. PowersTo(b, n + 1, g)
    BY <2>4 DEF PowersTo
  <2>6. n + 1 \in Nat
    BY <2>2
  <2>7. \E h \in [0..(n + 1) -> Nat \ {0}] : PowersTo(b, n + 1, h)
    <3>1. PICK h : h = g
      OBVIOUS
    <3>2. h \in [0..(n + 1) -> Nat \ {0}] /\ PowersTo(b, n + 1, h)
      BY <2>3, <2>5, <3>1
    <3>. QED BY <3>2
  <2>. HIDE DEF g
  <2>. QED BY <2>6, <2>7
<1>. HIDE DEF S
<1>3. S \in SUBSET Nat
  BY DEF S
<1>4. \A n \in Nat : n \in S
  BY <1>1, <1>2, <1>3, SetInduction
<1>. QED BY <1>4 DEF S

\* ...and only one.
LEMMA PowersAgree ==
    ASSUME NEW b, NEW n \in Nat, NEW k \in Nat, NEW f, NEW g,
           PowersTo(b, n, f), PowersTo(b, k, g)
    PROVE  \A m \in Nat : m <= n /\ m <= k => f[m] = g[m]
<1>. DEFINE S == {m \in Nat : m <= n /\ m <= k => f[m] = g[m]}
<1>1. 0 \in S
  BY DEF PowersTo
<1>2. ASSUME NEW m \in S, m + 1 <= n, m + 1 <= k PROVE f[m + 1] = g[m + 1]
  <2>1. m \in Nat /\ f[m] = g[m]
    BY <1>2
  <2>2. m + 1 \in 0..n /\ m + 1 \in 0..k /\ (m + 1) - 1 = m /\ m + 1 # 0
    BY <1>2, <2>1
  <2>3. f[m + 1] = b * f[m]
    BY <2>2 DEF PowersTo
  <2>4. g[m + 1] = b * g[m]
    BY <2>2 DEF PowersTo
  <2>. QED BY <2>1, <2>3, <2>4
<1>3. S \in SUBSET Nat /\ \A m \in S : m + 1 \in S
  BY <1>2
<1>. HIDE DEF S
<1>4. \A m \in Nat : m \in S
  BY <1>1, <1>3, SetInduction
<1>. QED BY <1>4 DEF S

\* What Power computes.
LEMMA PowerSteps ==
    ASSUME NEW b \in Nat \ {0}
    PROVE  /\ Power(b, 0) = 1
           /\ \A n \in Nat : Power(b, n) \in Nat \ {0} /\ Power(b, n + 1) = b * Power(b, n)
<1>1. ASSUME NEW n \in Nat, NEW f, PowersTo(b, n, f) PROVE Power(b, n) = f[n]
  <2>1. PICK g : g = CHOOSE h : PowersTo(b, n, h)
    OBVIOUS
  <2>2. PowersTo(b, n, g)
    BY <1>1, <2>1
  <2>3. g[n] = f[n]
    BY <1>1, <2>2, PowersAgree
  <2>4. Power(b, n) = (CHOOSE h : PowersTo(b, n, h))[n]
    BY DEF Power, PowersTo
  <2>. QED BY <2>1, <2>3, <2>4
<1>2. Power(b, 0) = 1
  <2>1. PICK f \in [0..0 -> Nat \ {0}] : PowersTo(b, 0, f)
    BY PowersExist
  <2>2. Power(b, 0) = f[0]
    BY <1>1, <2>1
  <2>. QED BY <2>1, <2>2 DEF PowersTo
<1>3. ASSUME NEW n \in Nat PROVE Power(b, n) \in Nat \ {0} /\ Power(b, n + 1) = b * Power(b, n)
  <2>1. n + 1 \in Nat
    OBVIOUS
  <2>2. PICK f \in [0..(n + 1) -> Nat \ {0}] : PowersTo(b, n + 1, f)
    BY <2>1, PowersExist
  <2>3. PICK g \in [0..n -> Nat \ {0}] : PowersTo(b, n, g)
    BY PowersExist
  <2>4. Power(b, n + 1) = f[n + 1] /\ Power(b, n) = g[n] /\ g[n] \in Nat \ {0}
    BY <1>1, <2>1, <2>2, <2>3
  <2>5. f[n] = g[n]
    BY <2>1, <2>2, <2>3, PowersAgree
  <2>6. f[n + 1] = b * f[n]
    <3>1. n + 1 \in 0..(n + 1) /\ n + 1 # 0 /\ (n + 1) - 1 = n
      OBVIOUS
    <3>. QED BY <2>2, <3>1 DEF PowersTo
  <2>. QED BY <2>4, <2>5, <2>6
<1>. QED BY <1>2, <1>3

\* A longer number is larger.
LEMMA PowerGrows ==
    ASSUME NEW b \in Nat \ {0}, NEW m \in Nat, NEW n \in Nat, m <= n
    PROVE  Power(b, m) <= Power(b, n)
<1>. DEFINE S == {k \in Nat : Power(b, m) <= Power(b, m + k)}
<1>1. 0 \in S
  <2>1. m + 0 = m
    OBVIOUS
  <2>2. Power(b, m) \in Nat
    BY PowerSteps
  <2>. QED BY <2>1, <2>2
<1>2. ASSUME NEW k \in S PROVE k + 1 \in S
  <2>1. m + k \in Nat /\ m + (k + 1) = (m + k) + 1 /\ k \in Nat
    OBVIOUS
  <2>2. PICK p, q, r : p = Power(b, m) /\ q = Power(b, m + k) /\ r = Power(b, (m + k) + 1)
    OBVIOUS
  <2>3. p \in Nat /\ q \in Nat /\ r = b * q
    BY <2>1, <2>2, PowerSteps
  <2>4. p <= q
    BY <2>2
  <2>5. q <= b * q
    BY <2>3
  <2>6. p <= r /\ r \in Nat
    BY <2>3, <2>4, <2>5
  <2>. QED BY <2>1, <2>2, <2>6
<1>3. S \in SUBSET Nat
  OBVIOUS
<1>. HIDE DEF S
<1>4. n - m \in S
  <2>1. n - m \in Nat
    OBVIOUS
  <2>. QED BY <1>1, <1>2, <1>3, <2>1, SetInduction
<1>5. m + (n - m) = n
  OBVIOUS
<1>. QED BY <1>4, <1>5 DEF S

-----------------------------------------------------------------------------
(* Digits of a number.                                                     *)

Radix == {10, 16}
DigitCodes == (48..57) \cup (65..70)

\* One digit, and back.
LEMMA CodeOf ==
    ASSUME NEW d \in 0..15
    PROVE  Code(d) \in DigitCodes /\ Code(d) \in Nat /\ DigitOf(Code(d)) = d
BY DEF Code, DigitCodes, DigitOf, Zero, UpperA

\* Quotient and remainder by a radix.
LEMMA ByRadix ==
    ASSUME NEW r \in Radix, NEW n \in Nat
    PROVE  /\ n \div r \in Nat /\ n % r \in 0..15 /\ n = (n \div r) * r + (n % r)
           /\ n \div r <= n /\ (n >= r => n \div r < n)
           /\ n < r => n \in 0..15
<1>1. CASE r = 10
  <2>1. n \div 10 \in Nat /\ n % 10 \in 0..9 /\ n = (n \div 10) * 10 + (n % 10)
    BY Division
  <2>. QED BY <1>1, <2>1
<1>2. CASE r = 16
  <2>1. n \div 16 \in Nat /\ n % 16 \in 0..15 /\ n = (n \div 16) * 16 + (n % 16)
    BY Division
  <2>. QED BY <1>2, <2>1
<1>. QED BY <1>1, <1>2 DEF Radix

\* The recursion of Digits.
NextDigits(r, k, f) == IF k < r THEN <<Code(k)>> ELSE Append(f[k \div r], Code(k % r))
DigitsTo(r, n, f) == f = [k \in 0..n |-> NextDigits(r, k, f)]

\* It has a solution.
LEMMA DigitsExist ==
    ASSUME NEW r \in Radix
    PROVE  \A n \in Nat : \E f \in [0..n -> Seq(Nat)] : DigitsTo(r, n, f)
<1>. DEFINE S == {n \in Nat : \E f \in [0..n -> Seq(Nat)] : DigitsTo(r, n, f)}
<1>1. 0 \in S
  <2>1. PICK f : f = [k \in 0..0 |-> <<Code(k)>>]
    OBVIOUS
  <2>2. f \in [0..0 -> Seq(Nat)]
    <3>1. Code(0) \in Nat
      BY CodeOf
    <3>. QED BY <2>1, <3>1
  <2>3. DigitsTo(r, 0, f)
    BY <2>1 DEF DigitsTo, NextDigits, Radix
  <2>. QED BY <2>2, <2>3
<1>2. ASSUME NEW n \in S PROVE n + 1 \in S
  <2>1. PICK f \in [0..n -> Seq(Nat)] : DigitsTo(r, n, f)
    OBVIOUS
  <2>2. PICK g : g = [k \in 0..(n + 1) |-> IF k <= n THEN f[k] ELSE NextDigits(r, k, f)]
    OBVIOUS
  <2>3. n \in Nat /\ n + 1 \in Nat
    OBVIOUS
  <2>4. NextDigits(r, n + 1, f) \in Seq(Nat)
    <3>1. CASE n + 1 < r
      <4>1. n + 1 \in 0..15
        BY <2>3, <3>1, ByRadix
      <4>2. Code(n + 1) \in Nat
        BY <4>1, CodeOf
      <4>. QED BY <3>1, <4>2 DEF NextDigits
    <3>2. CASE ~(n + 1 < r)
      <4>1. (n + 1) \div r \in 0..n
        <5>1. n + 1 >= r
          BY <2>3, <3>2 DEF Radix
        <5>2. PICK q : q = (n + 1) \div r
          OBVIOUS
        <5>3. q \in Nat /\ q < n + 1
          BY <2>3, <5>1, <5>2, ByRadix
        <5>. QED BY <2>3, <5>2, <5>3
      <4>2. Code((n + 1) % r) \in Nat
        <5>1. (n + 1) % r \in 0..15
          BY <2>3, ByRadix
        <5>. QED BY <5>1, CodeOf
      <4>3. f[(n + 1) \div r] \in Seq(Nat)
        BY <2>1, <4>1
      <4>. QED BY <3>2, <4>2, <4>3 DEF NextDigits
    <3>. QED BY <3>1, <3>2
  <2>5. g \in [0..(n + 1) -> Seq(Nat)]
    <3>1. ASSUME NEW k \in 0..(n + 1) PROVE g[k] \in Seq(Nat)
      <4>1. CASE k <= n
        BY <2>1, <2>2, <2>3, <4>1
      <4>2. CASE k = n + 1
        <5>1. ~(k <= n)
          BY <2>3, <4>2
        <5>. QED BY <2>2, <2>4, <4>2, <5>1
      <4>. QED BY <2>3, <4>1, <4>2
    <3>. QED BY <2>2, <3>1
  <2>6. ASSUME NEW k \in 0..(n + 1) PROVE g[k] = NextDigits(r, k, g)
    <3>1. g[k] = NextDigits(r, k, f)
      <4>1. CASE k <= n
        <5>1. k \in 0..n /\ g[k] = f[k]
          BY <2>2, <2>3, <4>1
        <5>. QED BY <2>1, <5>1 DEF DigitsTo
      <4>2. CASE k = n + 1
        <5>1. ~(k <= n)
          BY <2>3, <4>2
        <5>. QED BY <2>2, <5>1
      <4>. QED BY <2>3, <4>1, <4>2
    <3>2. NextDigits(r, k, g) = NextDigits(r, k, f)
      <4>1. CASE k < r
        BY <4>1 DEF NextDigits
      <4>2. CASE ~(k < r)
        <5>1. PICK q : q = k \div r
          OBVIOUS
        <5>2. q \in Nat /\ q < k
          <6>1. k \in Nat /\ k >= r
            BY <2>3, <4>2 DEF Radix
          <6>. QED BY <5>1, <6>1, ByRadix
        <5>3. q \in 0..(n + 1) /\ q <= n
          BY <2>3, <5>2
        <5>4. g[q] = f[q]
          BY <2>2, <5>3
        <5>. QED BY <4>2, <5>1, <5>4 DEF NextDigits
      <4>. QED BY <4>1, <4>2
    <3>. QED BY <3>1, <3>2
  <2>7. DigitsTo(r, n + 1, g)
    BY <2>2, <2>6 DEF DigitsTo
  <2>. QED BY <2>3, <2>5, <2>7
<1>. HIDE DEF S
<1>3. S \in SUBSET Nat
  BY DEF S
<1>4. \A n \in Nat : n \in S
  BY <1>1, <1>2, <1>3, SetInduction
<1>. QED BY <1>4 DEF S

\* ...and only one.
LEMMA DigitsAgree ==
    ASSUME NEW r \in Radix, NEW n \in Nat, NEW k \in Nat, NEW f, NEW g,
           DigitsTo(r, n, f), DigitsTo(r, k, g)
    PROVE  \A m \in Nat : m <= n /\ m <= k => f[m] = g[m]
<1>. DEFINE S == {m \in Nat : m <= n /\ m <= k => f[m] = g[m]}
<1>1. ASSUME NEW m \in Nat, \A i \in Nat : i < m => i \in S PROVE m \in S
  <2>. SUFFICES ASSUME m <= n, m <= k PROVE f[m] = g[m]
    OBVIOUS
  <2>1. f[m] = NextDigits(r, m, f) /\ g[m] = NextDigits(r, m, g)
    <3>1. m \in 0..n /\ m \in 0..k
      OBVIOUS
    <3>2. f[m] = NextDigits(r, m, f)
      BY <3>1 DEF DigitsTo
    <3>3. g[m] = NextDigits(r, m, g)
      BY <3>1 DEF DigitsTo
    <3>. QED BY <3>2, <3>3
  <2>2. NextDigits(r, m, f) = NextDigits(r, m, g)
    <3>1. CASE m < r
      BY <3>1 DEF NextDigits
    <3>2. CASE ~(m < r)
      <4>1. PICK q : q = m \div r
        OBVIOUS
      <4>2. q \in Nat /\ q < m
        <5>1. m >= r
          BY <3>2 DEF Radix
        <5>. QED BY <4>1, <5>1, ByRadix
      <4>3. f[q] = g[q]
        BY <1>1, <4>2
      <4>. QED BY <3>2, <4>1, <4>3 DEF NextDigits
    <3>. QED BY <3>1, <3>2
  <2>. QED BY <2>1, <2>2
<1>2. S \in SUBSET Nat
  OBVIOUS
<1>. HIDE DEF S
<1>3. \A m \in Nat : m \in S
  BY <1>1, <1>2, StrongInduction
<1>. QED BY <1>3 DEF S

\* At a number both know, in particular.
LEMMA DigitsAgreeAt ==
    ASSUME NEW r \in Radix, NEW n \in Nat, NEW q \in Nat, NEW f, NEW g,
           DigitsTo(r, n, f), DigitsTo(r, q, g), q <= n
    PROVE  f[q] = g[q]
BY DigitsAgree

\* Digits takes its value from any of them.
LEMMA DigitsAre ==
    ASSUME NEW r \in Radix, NEW n \in Nat, NEW q \in Nat, q <= n, NEW f, DigitsTo(r, n, f)
    PROVE  Digits(q, r) = f[q]
<1>1. PICK g : g = CHOOSE h : DigitsTo(r, q, h)
  OBVIOUS
<1>2. DigitsTo(r, q, g)
  <2>1. \E h : DigitsTo(r, q, h)
    BY DigitsExist
  <2>. QED BY <1>1, <2>1
<1>3. f[q] = g[q]
  BY <1>2, DigitsAgreeAt
<1>4. Digits(q, r) = (CHOOSE h : DigitsTo(r, q, h))[q]
  BY DEF Digits, DigitsTo, NextDigits
<1>. QED BY <1>1, <1>3, <1>4

\* What Digits computes.
LEMMA DigitSteps ==
    ASSUME NEW r \in Radix, NEW n \in Nat
    PROVE  /\ Digits(n, r) \in Seq(Nat)
           /\ n < r => Digits(n, r) = <<Code(n)>>
           /\ ~(n < r) => Digits(n, r) = Append(Digits(n \div r, r), Code(n % r))
<1>1. PICK f : f \in [0..n -> Seq(Nat)] /\ DigitsTo(r, n, f)
  BY DigitsExist
<1>2. n \in 0..n /\ n <= n
  OBVIOUS
<1>3. Digits(n, r) = f[n]
  BY <1>1, <1>2, DigitsAre
<1>4. f[n] \in Seq(Nat)
  BY <1>1, <1>2
<1>5. f[n] = NextDigits(r, n, f)
  BY <1>1, <1>2 DEF DigitsTo
<1>6. ASSUME ~(n < r) PROVE Digits(n, r) = Append(Digits(n \div r, r), Code(n % r))
  <2>1. PICK q : q = n \div r
    OBVIOUS
  <2>2. q \in Nat /\ q <= n
    BY <2>1, ByRadix
  <2>3. Digits(q, r) = f[q]
    BY <1>1, <2>2, DigitsAre
  <2>. QED BY <1>3, <1>5, <1>6, <2>1, <2>3 DEF NextDigits
<1>. QED BY <1>3, <1>4, <1>5, <1>6 DEF NextDigits

-----------------------------------------------------------------------------
(* Reading digits.                                                         *)

\* The recursion of ValueOf.
ReadsTo(s, r, n, f) == f = [i \in 0..n |-> IF i = 0 THEN 0 ELSE f[i - 1] * r + DigitOf(s[i])]

\* Every character has a value.
LEMMA DigitOfNat ==
    ASSUME NEW c
    PROVE  DigitOf(c) \in Nat
BY DEF DigitOf, Zero, UpperA

\* The recursion of ValueOf has a solution.
LEMMA ReadsExist ==
    ASSUME NEW s, NEW r \in Radix
    PROVE  \A n \in Nat : \E f \in [0..n -> Nat] : ReadsTo(s, r, n, f)
<1>. DEFINE S == {n \in Nat : \E f \in [0..n -> Nat] : ReadsTo(s, r, n, f)}
<1>1. 0 \in S
  <2>1. [i \in 0..0 |-> 0] \in [0..0 -> Nat] /\ ReadsTo(s, r, 0, [i \in 0..0 |-> 0])
    BY DEF ReadsTo
  <2>. QED BY <2>1
<1>2. ASSUME NEW n \in S PROVE n + 1 \in S
  <2>1. PICK f \in [0..n -> Nat] : ReadsTo(s, r, n, f)
    OBVIOUS
  <2>2. n \in Nat /\ n + 1 \in Nat /\ n \in 0..n
    OBVIOUS
  <2>3. PICK last : last = f[n] * r + DigitOf(s[n + 1])
    OBVIOUS
  <2>4. last \in Nat
    <3>1. PICK d : d = DigitOf(s[n + 1])
      OBVIOUS
    <3>2. d \in Nat /\ f[n] \in Nat /\ r \in Nat
      BY <2>1, <2>2, <3>1, DigitOfNat DEF Radix
    <3>. QED BY <2>3, <3>1, <3>2
  <2>5. PICK g : g = [i \in 0..(n + 1) |-> IF i <= n THEN f[i] ELSE last]
    OBVIOUS
  <2>6. g \in [0..(n + 1) -> Nat]
    BY <2>1, <2>2, <2>4, <2>5
  <2>7. ASSUME NEW i \in 0..(n + 1)
        PROVE  g[i] = IF i = 0 THEN 0 ELSE g[i - 1] * r + DigitOf(s[i])
    <3>1. CASE i <= n
      <4>1. i \in 0..n /\ g[i] = f[i]
        BY <2>2, <2>5, <3>1
      <4>2. f[i] = IF i = 0 THEN 0 ELSE f[i - 1] * r + DigitOf(s[i])
        BY <2>1, <4>1 DEF ReadsTo
      <4>3. i # 0 => g[i - 1] = f[i - 1]
        BY <2>2, <2>5, <4>1
      <4>. QED BY <4>1, <4>2, <4>3
    <3>2. CASE i = n + 1
      <4>1. ~(i <= n) /\ i - 1 = n /\ n \in 0..(n + 1) /\ i # 0 /\ n <= n
        BY <2>2, <3>2
      <4>2. g[n] = f[n]
        BY <2>5, <4>1
      <4>3. g[i] = last
        BY <2>5, <4>1
      <4>. QED BY <2>3, <3>2, <4>1, <4>2, <4>3
    <3>. QED BY <2>2, <3>1, <3>2
  <2>8. ReadsTo(s, r, n + 1, g)
    BY <2>5, <2>7 DEF ReadsTo
  <2>. QED BY <2>2, <2>6, <2>8
<1>. HIDE DEF S
<1>3. S \in SUBSET Nat
  BY DEF S
<1>4. \A n \in Nat : n \in S
  BY <1>1, <1>2, <1>3, SetInduction
<1>. QED BY <1>4 DEF S

\* t has the digits of s, behind d others.
SameDigits(s, t, n, d) == \A i \in 1..n : DigitOf(t[i + d]) = DigitOf(s[i])

\* Reading on from where nothing but zeros has been read is reading from the
\* beginning.
LEMMA ReadsShifted ==
    ASSUME NEW s, NEW t, NEW r, NEW n \in Nat, NEW k \in Nat, NEW d \in Nat, NEW f, NEW g,
           ReadsTo(s, r, n, f), ReadsTo(t, r, k, g), n + d <= k, g[d] = 0,
           SameDigits(s, t, n, d)
    PROVE  f[n] = g[n + d]
<1>. DEFINE S == {m \in Nat : m <= n => f[m] = g[m + d]}
<1>1. 0 \in S
  <2>1. f[0] = 0
    BY DEF ReadsTo
  <2>. QED BY <2>1
<1>2. ASSUME NEW m \in S, m + 1 <= n PROVE f[m + 1] = g[(m + 1) + d]
  <2>1. m \in Nat /\ f[m] = g[m + d]
    BY <1>2
  <2>2. m + 1 \in 0..n /\ (m + 1) - 1 = m /\ m + 1 # 0 /\ m + 1 \in 1..n
    BY <1>2, <2>1
  <2>3. f[m + 1] = f[m] * r + DigitOf(s[m + 1])
    <3>1. PICK i : i = m + 1
      OBVIOUS
    <3>2. i \in 0..n /\ i # 0 /\ i - 1 = m
      BY <2>2, <3>1
    <3>3. f[i] = f[i - 1] * r + DigitOf(s[i])
      BY <3>2 DEF ReadsTo
    <3>. QED BY <3>1, <3>2, <3>3
  <2>4. PICK j : j = (m + 1) + d
    OBVIOUS
  <2>5. j \in 0..k /\ j # 0 /\ j - 1 = m + d
    BY <1>2, <2>1, <2>4
  <2>6. g[j] = g[j - 1] * r + DigitOf(t[j])
    BY <2>5 DEF ReadsTo
  <2>7. DigitOf(t[j]) = DigitOf(s[m + 1])
    BY <2>2, <2>4 DEF SameDigits
  <2>. QED BY <2>1, <2>3, <2>4, <2>5, <2>6, <2>7
<1>3. S \in SUBSET Nat /\ \A m \in S : m + 1 \in S
  BY <1>2
<1>. HIDE DEF S
<1>4. \A m \in Nat : m \in S
  BY <1>1, <1>3, SetInduction
<1>5. n <= n
  OBVIOUS
<1>. QED BY <1>4, <1>5 DEF S

\* Leading zeros count for nothing.
LEMMA ReadsZeros ==
    ASSUME NEW t, NEW r \in Radix, NEW k \in Nat, NEW d \in Nat, NEW g, d <= k,
           ReadsTo(t, r, k, g), \A i \in 1..d : DigitOf(t[i]) = 0
    PROVE  g[d] = 0
<1>. DEFINE S == {m \in Nat : m <= d => g[m] = 0}
<1>1. 0 \in S
  BY DEF ReadsTo
<1>2. ASSUME NEW m \in S, m + 1 <= d PROVE g[m + 1] = 0
  <2>1. m \in Nat /\ g[m] = 0
    BY <1>2
  <2>2. m + 1 \in 0..k /\ (m + 1) - 1 = m /\ m + 1 # 0 /\ m + 1 \in 1..d
    BY <1>2, <2>1
  <2>3. g[m + 1] = g[m] * r + DigitOf(t[m + 1])
    BY <2>2 DEF ReadsTo
  <2>4. DigitOf(t[m + 1]) = 0
    BY <2>2
  <2>5. g[m + 1] = 0 * r + 0
    BY <2>1, <2>3, <2>4
  <2>. QED BY <2>5 DEF Radix
<1>3. S \in SUBSET Nat /\ \A m \in S : m + 1 \in S
  BY <1>2
<1>. HIDE DEF S
<1>4. \A m \in Nat : m \in S
  BY <1>1, <1>3, SetInduction
<1>5. d <= d
  OBVIOUS
<1>. QED BY <1>4, <1>5 DEF S

\* ValueOf takes its value from any reading that is long enough.
LEMMA ValueIs ==
    ASSUME NEW s, NEW r \in Radix, NEW n \in Nat, Len(s) \in Nat, Len(s) <= n,
           NEW f, ReadsTo(s, r, n, f)
    PROVE  ValueOf(s, r) = f[Len(s)]
<1>1. PICK k : k = Len(s)
  OBVIOUS
<1>2. PICK g : g = CHOOSE h : ReadsTo(s, r, k, h)
  OBVIOUS
<1>3. ReadsTo(s, r, k, g)
  <2>1. \E h : ReadsTo(s, r, k, h)
    BY <1>1, ReadsExist
  <2>. QED BY <1>2, <2>1
<1>4. g[k] = f[k]
  <2>1. f[0] = 0
    BY DEF ReadsTo
  <2>2. k \in Nat /\ k <= n /\ k + 0 = k /\ k <= k /\ 0 \in Nat
    BY <1>1
  <2>3. SameDigits(s, s, k, 0)
    BY <2>2 DEF SameDigits
  <2>4. g[k] = f[k + 0]
    BY <1>3, <2>1, <2>2, <2>3, ReadsShifted
  <2>. QED BY <2>2, <2>4
<1>5. ValueOf(s, r) = (CHOOSE h : ReadsTo(s, r, Len(s), h))[Len(s)]
  BY DEF ValueOf, ReadsTo
<1>. QED BY <1>1, <1>2, <1>4, <1>5

\* The number that a text shows is a natural number.
LEMMA ValueNat ==
    ASSUME NEW s, NEW r \in Radix, Len(s) \in Nat
    PROVE  ValueOf(s, r) \in Nat
<1>1. PICK n : n = Len(s)
  OBVIOUS
<1>2. PICK f \in [0..n -> Nat] : ReadsTo(s, r, n, f)
  BY <1>1, ReadsExist
<1>3. n \in 0..n /\ n <= n
  BY <1>1
<1>4. ValueOf(s, r) = f[n]
  BY <1>1, <1>2, <1>3, ValueIs
<1>. QED BY <1>2, <1>3, <1>4

\* Two texts with the same digits, but for leading zeros, show the same.
LEMMA ValueShifted ==
    ASSUME NEW s, NEW t, NEW r \in Radix, NEW d \in Nat, Len(s) \in Nat, Len(t) = Len(s) + d,
           \A i \in 1..d : DigitOf(t[i]) = 0,
           SameDigits(s, t, Len(s), d)
    PROVE  ValueOf(t, r) = ValueOf(s, r)
<1>1. PICK n, k : n = Len(s) /\ k = Len(t)
  OBVIOUS
<1>2. n \in Nat /\ k \in Nat /\ k = n + d /\ n <= n /\ k <= k /\ d <= k
  BY <1>1
<1>3. PICK f : ReadsTo(s, r, n, f)
  BY <1>2, ReadsExist
<1>4. PICK g : ReadsTo(t, r, k, g)
  BY <1>2, ReadsExist
<1>5. g[d] = 0
  BY <1>2, <1>4, ReadsZeros
<1>6. SameDigits(s, t, n, d)
  BY <1>1
<1>7. f[n] = g[n + d]
  <2>1. n + d <= k
    BY <1>2
  <2>. QED BY <1>2, <1>3, <1>4, <1>5, <1>6, <2>1, ReadsShifted
<1>8. f[n] = g[k]
  BY <1>2, <1>7
<1>9. ValueOf(s, r) = f[n]
  BY <1>1, <1>2, <1>3, ValueIs
<1>10. ValueOf(t, r) = g[k]
  BY <1>1, <1>2, <1>4, ValueIs
<1>. QED BY <1>8, <1>9, <1>10

\* One more digit.
LEMMA ValueAppend ==
    ASSUME NEW s, NEW t, NEW r \in Radix, Len(s) \in Nat, Len(t) = Len(s) + 1,
           \A i \in 1..Len(s) : t[i] = s[i]
    PROVE  ValueOf(t, r) = ValueOf(s, r) * r + DigitOf(t[Len(s) + 1])
<1>1. PICK n : n = Len(s)
  OBVIOUS
<1>2. n \in Nat /\ n + 1 \in Nat /\ Len(t) = n + 1 /\ n <= n /\ n + 1 <= n + 1
  BY <1>1
<1>3. PICK f : ReadsTo(s, r, n, f)
  BY <1>2, ReadsExist
<1>4. PICK g : ReadsTo(t, r, n + 1, g)
  BY <1>2, ReadsExist
<1>5. f[n] = g[n]
  <2>1. g[0] = 0
    BY <1>2, <1>4 DEF ReadsTo
  <2>2. SameDigits(s, t, n, 0)
    BY <1>1, <1>2 DEF SameDigits
  <2>3. 0 \in Nat /\ 0 <= n + 1 /\ n + 0 = n /\ n + 0 <= n + 1
    BY <1>2
  <2>4. f[n] = g[n + 0]
    BY <1>2, <1>3, <1>4, <2>1, <2>2, <2>3, ReadsShifted
  <2>. QED BY <1>2, <2>3, <2>4
<1>6. g[n + 1] = g[n] * r + DigitOf(t[n + 1])
  <2>1. n + 1 \in 0..(n + 1) /\ n + 1 # 0 /\ (n + 1) - 1 = n
    BY <1>2
  <2>. QED BY <1>4, <2>1 DEF ReadsTo
<1>7. ValueOf(s, r) = f[n]
  BY <1>1, <1>2, <1>3, ValueIs
<1>8. ValueOf(t, r) = g[n + 1]
  BY <1>2, <1>4, ValueIs
<1>. QED BY <1>1, <1>5, <1>6, <1>7, <1>8

-----------------------------------------------------------------------------
(* What the conversions print.                                             *)

\* A text without characters shows 0.
LEMMA ValueEmpty ==
    ASSUME NEW r \in Radix
    PROVE  ValueOf(<<>>, r) = 0
<1>1. PICK f : ReadsTo(<<>>, r, 0, f)
  BY ReadsExist
<1>2. Len(<<>>) = 0 /\ 0 \in Nat /\ 0 <= 0
  OBVIOUS
<1>3. ValueOf(<<>>, r) = f[0]
  BY <1>1, <1>2, ValueIs
<1>4. f[0] = 0
  BY <1>1 DEF ReadsTo
<1>. QED BY <1>3, <1>4

\* A digit shows its value.
LEMMA ValueOne ==
    ASSUME NEW r \in Radix, NEW d \in 0..15
    PROVE  ValueOf(<<Code(d)>>, r) = d
<1>1. PICK s, t : s = <<>> /\ t = <<Code(d)>>
  OBVIOUS
<1>2. Len(s) = 0 /\ Len(t) = 1 /\ t[1] = Code(d)
  BY <1>1
<1>3. Len(s) \in Nat /\ Len(t) = Len(s) + 1 /\ (\A i \in 1..Len(s) : t[i] = s[i])
  BY <1>2
<1>4. ValueOf(t, r) = ValueOf(s, r) * r + DigitOf(t[Len(s) + 1])
  BY <1>3, ValueAppend
<1>5. ValueOf(s, r) = 0
  BY <1>1, ValueEmpty
<1>6. DigitOf(t[Len(s) + 1]) = d
  <2>1. DigitOf(Code(d)) = d
    BY CodeOf
  <2>2. Len(s) + 1 = 1
    BY <1>2
  <2>3. t[Len(s) + 1] = Code(d)
    BY <1>2, <2>2
  <2>. QED BY <2>1, <2>3
<1>7. ValueOf(t, r) = 0 * r + d
  BY <1>4, <1>5, <1>6
<1>. QED BY <1>1, <1>7 DEF Radix

\* The digits of n, read back, are n.
LEMMA DigitsRead ==
    ASSUME NEW r \in Radix
    PROVE  \A n \in Nat : /\ Digits(n, r) \in Seq(DigitCodes)
                          /\ Len(Digits(n, r)) >= 1
                          /\ ValueOf(Digits(n, r), r) = n
<1>. DEFINE P(n) == /\ Digits(n, r) \in Seq(DigitCodes)
                    /\ Len(Digits(n, r)) >= 1
                    /\ ValueOf(Digits(n, r), r) = n
            S == {n \in Nat : P(n)}
<1>1. ASSUME NEW n \in Nat, \A m \in Nat : m < n => m \in S PROVE n \in S
  <2>1. CASE n < r
    <3>1. n \in 0..15
      BY <2>1, ByRadix
    <3>2. Digits(n, r) = <<Code(n)>> /\ Code(n) \in DigitCodes /\ ValueOf(<<Code(n)>>, r) = n
      BY <2>1, <3>1, DigitSteps, CodeOf, ValueOne
    <3>3. PICK s : s = <<Code(n)>>
      OBVIOUS
    <3>4. s \in Seq(DigitCodes) /\ Len(s) = 1
      BY <3>2, <3>3
    <3>5. Len(s) >= 1
      BY <3>4
    <3>6. Digits(n, r) = s /\ ValueOf(s, r) = n
      BY <3>2, <3>3
    <3>. QED BY <3>4, <3>5, <3>6
  <2>2. CASE ~(n < r)
    <3>1. PICK q, k : q = n \div r /\ k = n % r
      OBVIOUS
    <3>2. q \in Nat /\ q < n /\ k \in 0..15 /\ n = q * r + k
      <4>1. n >= r
        BY <2>2 DEF Radix
      <4>. QED BY <3>1, <4>1, ByRadix
    <3>3. PICK s : s = Digits(q, r)
      OBVIOUS
    <3>4. s \in Seq(DigitCodes) /\ Len(s) >= 1 /\ ValueOf(s, r) = q
      BY <1>1, <3>2, <3>3
    <3>5. PICK t : t = Append(s, Code(k))
      OBVIOUS
    <3>6. Digits(n, r) = t
      BY <2>2, <3>1, <3>3, <3>5, DigitSteps
    <3>7. Code(k) \in DigitCodes /\ DigitOf(Code(k)) = k
      BY <3>2, CodeOf
    <3>8. t \in Seq(DigitCodes) /\ Len(t) = Len(s) + 1 /\ t[Len(s) + 1] = Code(k)
          /\ (\A i \in 1..Len(s) : t[i] = s[i]) /\ Len(s) \in Nat
      BY <3>4, <3>5, <3>7
    <3>9. ValueOf(t, r) = ValueOf(s, r) * r + DigitOf(t[Len(s) + 1])
      BY <3>8, ValueAppend
    <3>10. ValueOf(t, r) = n
      BY <3>2, <3>4, <3>7, <3>8, <3>9
    <3>11. Len(t) >= 1
      BY <3>4, <3>8
    <3>. QED BY <3>6, <3>8, <3>10, <3>11
  <2>. QED BY <2>1, <2>2
<1>2. S \in SUBSET Nat
  OBVIOUS
<1>. HIDE DEF S
<1>3. \A n \in Nat : n \in S
  BY <1>1, <1>2, StrongInduction
<1>. QED BY <1>3 DEF S

\* A number below a power of 10 has no more digits than that.
LEMMA DigitsShort ==
    \A k \in Nat : \A n \in Nat : n < Power(10, k + 1) => Len(Digits(n, 10)) <= k + 1
<1>. DEFINE S == {k \in Nat : \A n \in Nat : n < Power(10, k + 1) => Len(Digits(n, 10)) <= k + 1}
<1>1. 10 \in Radix /\ 10 \in Nat \ {0}
  BY DEF Radix
<1>2. ASSUME NEW n \in Nat, n < 10 PROVE Len(Digits(n, 10)) = 1
  <2>1. Digits(n, 10) = <<Code(n)>>
    BY <1>1, <1>2, DigitSteps
  <2>. QED BY <2>1
<1>3. 0 \in S
  <2>1. Power(10, 0 + 1) = 10 * Power(10, 0) /\ Power(10, 0) = 1 /\ 0 + 1 = 1
    BY <1>1, PowerSteps
  <2>2. Power(10, 0 + 1) = 10
    BY <2>1
  <2>3. ASSUME NEW n \in Nat, n < Power(10, 0 + 1) PROVE Len(Digits(n, 10)) <= 0 + 1
    <3>1. n < 10
      BY <2>2, <2>3
    <3>2. Len(Digits(n, 10)) = 1
      BY <1>2, <3>1
    <3>. QED BY <3>2
  <2>. QED BY <2>3
<1>4. ASSUME NEW k \in S PROVE k + 1 \in S
  <2>1. k \in Nat /\ k + 1 \in Nat
    OBVIOUS
  <2>2. PICK p, b : p = Power(10, k + 1) /\ b = Power(10, (k + 1) + 1)
    OBVIOUS
  <2>3. p \in Nat /\ b = 10 * p
    BY <1>1, <2>1, <2>2, PowerSteps
  <2>4. ASSUME NEW n \in Nat, n < b PROVE Len(Digits(n, 10)) <= (k + 1) + 1
    <3>1. CASE n < 10
      <4>1. Len(Digits(n, 10)) = 1
        BY <1>2, <3>1
      <4>2. 1 <= (k + 1) + 1
        BY <2>1
      <4>. QED BY <4>1, <4>2
    <3>2. CASE ~(n < 10)
      <4>1. PICK q, c : q = n \div 10 /\ c = n % 10
        OBVIOUS
      <4>2. q \in Nat /\ c \in 0..15 /\ n = q * 10 + c
        BY <1>1, <4>1, ByRadix
      <4>3. q < p
        BY <2>3, <2>4, <4>2
      <4>4. Len(Digits(q, 10)) <= k + 1
        BY <2>2, <4>2, <4>3
      <4>5. PICK s : s = Digits(q, 10)
        OBVIOUS
      <4>6. s \in Seq(DigitCodes) /\ Len(s) \in Nat
        BY <1>1, <4>2, <4>5, DigitsRead
      <4>7. Digits(n, 10) = Append(s, Code(c))
        BY <1>1, <3>2, <4>1, <4>5, DigitSteps
      <4>8. Len(Append(s, Code(c))) = Len(s) + 1
        <5>1. Code(c) \in DigitCodes
          BY <4>2, CodeOf
        <5>. QED BY <4>6, <5>1
      <4>. QED BY <2>1, <4>4, <4>5, <4>6, <4>7, <4>8
    <3>. QED BY <3>1, <3>2
  <2>. QED BY <2>1, <2>2, <2>4
<1>5. S \in SUBSET Nat
  OBVIOUS
<1>. HIDE DEF S
<1>6. \A k \in Nat : k \in S
  BY <1>3, <1>4, <1>5, SetInduction
<1>. QED BY <1>6 DEF S

\* The characters of a number.
Glyphs == DigitCodes \cup {Space, Minus}

\* t shows what s does, in w places at least.
SameNumber(s, t, w, r) ==
    /\ t \in Seq(Glyphs) /\ Len(t) >= 1
    /\ Len(t) >= w /\ (Len(t) = Len(s) \/ Len(t) = w \/ s[1] = Minus)
    /\ ValueOf(t, r) = ValueOf(s, r)
    /\ t[1] = Minus <=> s[1] = Minus

\* Blanks, signs and zeros have the value 0.
LEMMA NoDigit ==
    DigitOf(Space) = 0 /\ DigitOf(Zero) = 0 /\ DigitOf(Minus) = 0 /\ Space # Minus
    /\ Zero # Minus /\ Minus \notin DigitCodes /\ Zero \in Glyphs /\ Space \in Glyphs
BY DEF DigitOf, Space, Zero, Minus, UpperA, DigitCodes, Glyphs

\* Padding a number without a sign.
LEMMA PadUnsigned ==
    ASSUME NEW r \in Radix, NEW s \in Seq(DigitCodes), Len(s) >= 1, NEW w \in Nat,
           NEW c \in {Space, Zero}
    PROVE  SameNumber(s, pad(s, w, c), w, r) /\ s[1] # Minus
<1>1. s[1] # Minus /\ s \in Seq(Glyphs) /\ Len(s) \in Nat
  <2>1. s[1] \in DigitCodes /\ Len(s) \in Nat
    OBVIOUS
  <2>2. DigitCodes \subseteq Glyphs
    BY DEF Glyphs
  <2>3. Seq(DigitCodes) \subseteq Seq(Glyphs)
    BY <2>2
  <2>. QED BY <2>1, <2>3, NoDigit
<1>2. CASE Len(s) >= w
  <2>1. pad(s, w, c) = s
    BY <1>2 DEF pad
  <2>. QED BY <1>1, <1>2, <2>1 DEF SameNumber
<1>3. CASE ~(Len(s) >= w)
  <2>1. PICK d : d = w - Len(s)
    OBVIOUS
  <2>2. d \in Nat /\ d >= 1 /\ w = Len(s) + d
    BY <1>1, <1>3, <2>1
  <2>3. PICK z : z = [i \in 1..d |-> c]
    OBVIOUS
  <2>4. c \in Glyphs /\ DigitOf(c) = 0 /\ c # Minus
    BY NoDigit
  <2>5. z \in Seq(Glyphs) /\ Len(z) = d
    BY <2>2, <2>3, <2>4
  <2>6. PICK t : t = z \o s
    OBVIOUS
  <2>7. pad(s, w, c) = t
    BY <1>1, <1>3, <2>1, <2>3, <2>6 DEF pad
  <2>8. t \in Seq(Glyphs) /\ Len(t) = Len(s) + d
    <3>1. t \in Seq(Glyphs)
      BY <1>1, <2>5, <2>6
    <3>2. Len(t) = Len(z) + Len(s)
      BY <1>1, <2>5, <2>6
    <3>. QED BY <1>1, <2>2, <2>5, <3>1, <3>2
  <2>9. ASSUME NEW i \in 1..d PROVE t[i] = c
    BY <1>1, <2>2, <2>3, <2>5, <2>6
  <2>10. ASSUME NEW i \in 1..Len(s) PROVE t[i + d] = s[i]
    <3>1. i + d \in 1..(Len(z) + Len(s)) /\ i + d > Len(z) /\ (i + d) - Len(z) = i
      BY <1>1, <2>2, <2>5
    <3>. QED BY <1>1, <2>5, <2>6, <3>1
  <2>11. SameDigits(s, t, Len(s), d)
    BY <2>10 DEF SameDigits
  <2>12. \A i \in 1..d : DigitOf(t[i]) = 0
    BY <2>4, <2>9
  <2>13. ValueOf(t, r) = ValueOf(s, r)
    BY <1>1, <2>2, <2>8, <2>11, <2>12, ValueShifted
  <2>14. t[1] # Minus
    BY <2>2, <2>4, <2>9
  <2>15. Len(t) >= 1 /\ Len(t) >= w /\ Len(t) = w
    BY <1>1, <2>2, <2>8
  <2>. QED BY <1>1, <2>7, <2>8, <2>13, <2>14, <2>15 DEF SameNumber
<1>. QED BY <1>1, <1>2, <1>3

-----------------------------------------------------------------------------
(* Signs, capitals, and the pieces of a message.                           *)

\* A number with a sign.
LEMMA Signed ==
    ASSUME NEW r \in Radix, NEW ds \in Seq(DigitCodes), NEW s, s = <<Minus>> \o ds
    PROVE  /\ s \in Seq(Glyphs) /\ Len(s) = Len(ds) + 1 /\ s[1] = Minus /\ Tail(s) = ds
           /\ ValueOf(s, r) = ValueOf(ds, r)
<1>1. ds \in Seq(Glyphs) /\ Len(ds) \in Nat
  <2>1. DigitCodes \subseteq Glyphs
    BY DEF Glyphs
  <2>2. Seq(DigitCodes) \subseteq Seq(Glyphs)
    BY <2>1
  <2>. QED BY <2>2
<1>2. PICK m : m = <<Minus>>
  OBVIOUS
<1>3. m \in Seq(Glyphs) /\ Len(m) = 1 /\ m[1] = Minus
  BY <1>2 DEF Glyphs
<1>4. s \in Seq(Glyphs)
  BY <1>1, <1>2, <1>3
<1>5. Len(s) = Len(ds) + 1
  BY <1>1, <1>2, <1>3
<1>6. s[1] = Minus
  BY <1>1, <1>2, <1>3
<1>7. ASSUME NEW i \in 1..Len(ds) PROVE s[i + 1] = ds[i]
  <2>1. i + 1 \in 1..(Len(m) + Len(ds)) /\ i + 1 > Len(m) /\ (i + 1) - Len(m) = i
    BY <1>1, <1>3
  <2>. QED BY <1>1, <1>2, <1>3, <2>1
<1>8. Tail(s) = ds
  <2>1. PICK t : t = Tail(s)
    OBVIOUS
  <2>2. s # <<>>
    BY <1>1, <1>5
  <2>3. t \in Seq(Glyphs) /\ Len(t) = Len(ds)
    BY <1>1, <1>4, <1>5, <2>1, <2>2
  <2>4. ASSUME NEW i \in 1..Len(t) PROVE t[i] = ds[i]
    <3>1. t[i] = s[i + 1]
      BY <1>4, <1>5, <2>1, <2>2, <2>3
    <3>. QED BY <1>7, <2>3, <3>1
  <2>5. t = ds
    BY <1>1, <2>3, <2>4, SeqEqual
  <2>. QED BY <2>1, <2>5
<1>9. ValueOf(s, r) = ValueOf(ds, r)
  <2>1. SameDigits(ds, s, Len(ds), 1)
    BY <1>7 DEF SameDigits
  <2>2. \A i \in 1..1 : DigitOf(s[i]) = 0
    BY <1>6, NoDigit
  <2>. QED BY <1>1, <1>5, <2>1, <2>2, ValueShifted
<1>. QED BY <1>4, <1>5, <1>6, <1>8, <1>9

\* Padding a number with a sign.
LEMMA PadSigned ==
    ASSUME NEW r \in Radix, NEW ds \in Seq(DigitCodes), NEW s, s = <<Minus>> \o ds,
           NEW w \in Nat, NEW c \in {Space, Zero}
    PROVE  SameNumber(s, pad(s, w, c), w, r)
<1>1. s \in Seq(Glyphs) /\ Len(s) = Len(ds) + 1 /\ s[1] = Minus /\ Tail(s) = ds
      /\ ValueOf(s, r) = ValueOf(ds, r)
  BY Signed
<1>2. Len(ds) \in Nat /\ Len(s) >= 1 /\ Len(s) \in Nat
  BY <1>1
<1>3. CASE Len(s) >= w
  <2>1. pad(s, w, c) = s
    BY <1>3 DEF pad
  <2>. QED BY <1>1, <1>2, <1>3, <2>1 DEF SameNumber
<1>4. CASE ~(Len(s) >= w)
  <2>1. PICK d : d = w - Len(s) + 1
    OBVIOUS
  <2>2. d \in Nat /\ w + 1 = Len(s) + d
    BY <1>2, <1>4, <2>1
  <2>3. PICK m, z : m = <<Minus>> /\ z = [i \in 1..d |-> c]
    OBVIOUS
  <2>4. c \in Glyphs /\ DigitOf(c) = 0 /\ Minus \in Glyphs
    BY NoDigit DEF Glyphs
  <2>5. z \in Seq(Glyphs) /\ Len(z) = d
    BY <2>2, <2>3, <2>4
  <2>6. m \in Seq(Glyphs) /\ Len(m) = 1 /\ m[1] = Minus
    BY <2>3, <2>4
  <2>7. PICK y, t : y = m \o z /\ t = y \o ds
    OBVIOUS
  <2>8. pad(s, w, c) = t
    BY <1>1, <1>4, <2>1, <2>3, <2>7 DEF pad
  <2>9. y \in Seq(Glyphs) /\ Len(y) = d + 1
    <3>1. y \in Seq(Glyphs)
      BY <2>5, <2>6, <2>7
    <3>2. Len(y) = Len(m) + Len(z)
      BY <2>5, <2>6, <2>7, ConcatProperties
    <3>. QED BY <2>2, <2>5, <2>6, <3>1, <3>2
  <2>10. ds \in Seq(Glyphs)
    BY <1>1, <1>2
  <2>11. t \in Seq(Glyphs) /\ Len(t) = Len(ds) + (d + 1)
    <3>1. t \in Seq(Glyphs)
      BY <2>7, <2>9, <2>10
    <3>2. Len(t) = Len(y) + Len(ds)
      BY <2>7, <2>9, <2>10
    <3>. QED BY <1>2, <2>2, <2>9, <3>1, <3>2
  <2>12. y[1] = Minus
    <3>1. 1 \in 1..(Len(m) + Len(z)) /\ 1 <= Len(m)
      BY <2>2, <2>5, <2>6
    <3>. QED BY <2>5, <2>6, <2>7, <3>1, ConcatProperties
  <2>13. ASSUME NEW i \in 2..(d + 1) PROVE y[i] = c
    <3>1. i \in 1..(Len(m) + Len(z)) /\ i > Len(m) /\ i - Len(m) \in 1..d
      BY <2>2, <2>5, <2>6
    <3>. QED BY <2>2, <2>3, <2>5, <2>6, <2>7, <3>1
  <2>14. ASSUME NEW i \in 1..(d + 1) PROVE t[i] = y[i]
    <3>1. i \in 1..(Len(y) + Len(ds)) /\ i <= Len(y)
      BY <1>2, <2>2, <2>9
    <3>. QED BY <2>7, <2>9, <2>10, <3>1
  <2>15. ASSUME NEW i \in 1..Len(ds) PROVE t[i + (d + 1)] = ds[i]
    <3>1. PICK k : k = i + (d + 1)
      OBVIOUS
    <3>2. k \in 1..(Len(y) + Len(ds)) /\ k > Len(y) /\ k - Len(y) = i
      BY <1>2, <2>2, <2>9, <3>1
    <3>3. t[k] = ds[k - Len(y)]
      BY <2>7, <2>9, <2>10, <3>2
    <3>. QED BY <3>1, <3>2, <3>3
  <2>16. SameDigits(ds, t, Len(ds), d + 1)
    BY <2>15 DEF SameDigits
  <2>17. \A i \in 1..(d + 1) : DigitOf(t[i]) = 0
    <3>1. ASSUME NEW i \in 1..(d + 1) PROVE DigitOf(t[i]) = 0
      <4>1. i = 1 \/ i \in 2..(d + 1)
        BY <2>2
      <4>2. y[i] = Minus \/ y[i] = c
        BY <2>12, <2>13, <4>1
      <4>. QED BY <2>4, <2>14, <4>2, NoDigit
    <3>. QED BY <3>1
  <2>18. ValueOf(t, r) = ValueOf(ds, r)
    <3>1. d + 1 \in Nat
      BY <2>2
    <3>. QED BY <1>2, <2>11, <2>16, <2>17, <3>1, ValueShifted
  <2>19. t[1] = Minus
    <3>1. 1 \in 1..(d + 1)
      BY <2>2
    <3>. QED BY <2>12, <2>14, <3>1
  <2>20. Len(t) >= 1 /\ Len(t) >= w
    BY <1>1, <1>2, <2>2, <2>11
  <2>. QED BY <1>1, <2>8, <2>11, <2>18, <2>19, <2>20 DEF SameNumber
<1>. QED BY <1>3, <1>4

\* Capital and small letters have the same values.
LEMMA LowercaseSame ==
    ASSUME NEW r \in Radix, NEW t \in Seq(Glyphs)
    PROVE  /\ Len(lowercase(t)) = Len(t) /\ Len(lowercase(t)) \in Nat
           /\ ValueOf(lowercase(t), r) = ValueOf(t, r)
<1>1. PICK u : u = lowercase(t)
  OBVIOUS
<1>2. Len(t) \in Nat /\ DOMAIN t = 1..Len(t)
  OBVIOUS
<1>3. u = [i \in 1..Len(t) |-> u[i]] /\ DOMAIN u = 1..Len(t)
  BY <1>1, <1>2 DEF lowercase
<1>4. Len(u) = Len(t)
  BY <1>2, <1>3
<1>5. ASSUME NEW i \in 1..Len(t) PROVE DigitOf(u[i]) = DigitOf(t[i])
  <2>1. PICK c : c = t[i]
    OBVIOUS
  <2>2. c \in Glyphs
    BY <1>2, <2>1
  <2>3. u[i] = IF c \in 65..90 THEN c + 32 ELSE c
    BY <1>1, <1>2, <2>1 DEF lowercase, UpperA
  <2>4. c \in (48..57) \cup (65..70) \cup {32, 45}
    BY <2>2 DEF Glyphs, DigitCodes, Space, Minus
  <2>5. CASE c \in 65..70
    <3>1. u[i] = c + 32 /\ c \in 65..90
      BY <2>3, <2>5
    <3>2. PICK d : d = c + 32
      OBVIOUS
    <3>3. d \in 97..102 /\ d - 65 - 22 = c - 65 + 10 /\ c \in Int /\ d \in Int
      BY <2>5, <3>2
    <3>4. DigitOf(d) = d - 65 - 22
      BY <3>3 DEF DigitOf, Zero, UpperA
    <3>5. DigitOf(c) = c - 65 + 10
      BY <2>5, <3>3 DEF DigitOf, Zero, UpperA
    <3>. QED BY <2>1, <3>1, <3>2, <3>3, <3>4, <3>5
  <2>6. CASE c \notin 65..90
    <3>1. u[i] = t[i]
      BY <2>1, <2>3, <2>6
    <3>. QED BY <3>1
  <2>. QED BY <2>4, <2>5, <2>6
<1>6. SameDigits(t, u, Len(t), 0)
  <2>1. \A i \in 1..Len(t) : i + 0 = i
    BY <1>2
  <2>. QED BY <1>5, <2>1 DEF SameDigits
<1>7. \A i \in 1..0 : DigitOf(u[i]) = 0
  OBVIOUS
<1>8. Len(u) = Len(t) + 0 /\ 0 \in Nat
  BY <1>2, <1>4
<1>9. ValueOf(u, r) = ValueOf(t, r)
  BY <1>2, <1>6, <1>7, <1>8, ValueShifted
<1>. QED BY <1>1, <1>2, <1>4, <1>9

\* Arithmetic modulo a power of 2.
LEMMA Modulus ==
    ASSUME NEW n \in Nat
    PROVE  /\ Power(2, n) \in Nat \ {0}
           /\ \A v \in Int : v % Power(2, n) \in Nat /\ v % Power(2, n) < Power(2, n)
           /\ \A v \in Nat : v < Power(2, n) => v % Power(2, n) = v
<1>1. PICK p : p = Power(2, n)
  OBVIOUS
<1>2. p \in Nat \ {0}
  <2>1. 2 \in Nat \ {0}
    OBVIOUS
  <2>. QED BY <1>1, <2>1, PowerSteps
<1>3. ASSUME NEW v \in Int PROVE v % p \in Nat /\ v % p < p
  BY <1>2
<1>4. ASSUME NEW v \in Nat, v < p PROVE v % p = v
  BY <1>2, <1>4
<1>. QED BY <1>1, <1>2, <1>3, <1>4

-----------------------------------------------------------------------------
(* The conversions of a message, and its time stamp.                       *)

\* ltoa of a number that is not negative.
LEMMA LtoaNatural ==
    ASSUME NEW r \in Radix, NEW num \in Nat, num < Power(2, LongBits)
    PROVE  ltoa(num, r) = Digits(num, r)
<1>1. num % Power(2, LongBits) = num
  BY Modulus, ConsoleAssumption DEF ConsoleAssumption
<1>2. ~(num < 0)
  OBVIOUS
<1>. QED BY <1>1, <1>2 DEF ltoa

\* ltoa in another radix than 10 takes the number modulo the width of a long.
LEMMA LtoaWrapped ==
    ASSUME NEW num \in Int
    PROVE  /\ num % Power(2, LongBits) \in Nat
           /\ ltoa(num, 16) = Digits(num % Power(2, LongBits), 16)
<1>1. num % Power(2, LongBits) \in Nat
  BY Modulus, ConsoleAssumption DEF ConsoleAssumption
<1>2. 16 # 10
  OBVIOUS
<1>. QED BY <1>1, <1>2 DEF ltoa

\* itoa takes it modulo the width of an int.
LEMMA ItoaWrapped ==
    ASSUME NEW r \in Radix, NEW num \in Int
    PROVE  /\ num % Power(2, IntBits) \in Nat
           /\ itoa(num, r) = Digits(num % Power(2, IntBits), r)
<1>1. IntBits \in Nat /\ LongBits \in Nat /\ IntBits <= LongBits
  BY ConsoleAssumption DEF ConsoleAssumption
<1>2. PICK k, p, q : /\ k = num % Power(2, IntBits)
                     /\ p = Power(2, IntBits) /\ q = Power(2, LongBits)
  OBVIOUS
<1>3. k \in Nat /\ k < p /\ p \in Nat
  BY <1>1, <1>2, Modulus
<1>4. q \in Nat
  BY <1>1, <1>2, Modulus
<1>5. p <= q
  <2>1. 2 \in Nat \ {0}
    OBVIOUS
  <2>. QED BY <1>1, <1>2, <2>1, PowerGrows
<1>6. k < q
  BY <1>3, <1>4, <1>5
<1>7. ltoa(k, r) = Digits(k, r)
  BY <1>2, <1>3, <1>6, LtoaNatural
<1>. QED BY <1>2, <1>3, <1>7 DEF itoa

\* A text shows a number as its conversion is meant to.
NumberShown(piece, shown) ==
    LET negative == Len(shown) > 0 /\ shown[1] = Minus
    IN  /\ Len(shown) >= piece.width
        /\ CASE piece.conv = "d" -> ValueOf(shown, 10) = piece.val % Power(2, IntBits)
             [] piece.conv \in {"x", "X"} -> ValueOf(shown, 16) = piece.val % Power(2, IntBits)
             [] piece.conv \in {"lx", "lX"} -> ValueOf(shown, 16) = piece.val % Power(2, LongBits)
             [] piece.conv = "ld" ->
                  piece.val = IF negative THEN -ValueOf(shown, 10) ELSE ValueOf(shown, 10)

\* t shows n in w places at least, without a sign.
ShowsPlain(t, n, w, r) ==
    /\ t \in Seq(Glyphs) /\ Len(t) \in Nat /\ Len(t) >= 1 /\ Len(t) >= w
    /\ Len(t) = Len(Digits(n, r)) \/ Len(t) = w
    /\ ValueOf(t, r) = n /\ t[1] # Minus

\* A number without a sign, padded.
LEMMA PaddedDigits ==
    ASSUME NEW r \in Radix, NEW n \in Nat, NEW w \in Nat, NEW c \in {Space, Zero}, NEW t,
           t = pad(Digits(n, r), w, c)
    PROVE  ShowsPlain(t, n, w, r)
<1>1. PICK s : s = Digits(n, r)
  OBVIOUS
<1>2. s \in Seq(DigitCodes) /\ Len(s) >= 1 /\ ValueOf(s, r) = n
  BY <1>1, DigitsRead
<1>3. SameNumber(s, t, w, r) /\ s[1] # Minus
  BY <1>1, <1>2, PadUnsigned
<1>. QED BY <1>1, <1>2, <1>3 DEF SameNumber, ShowsPlain

\* Every conversion shows its argument.
LEMMA ExpandShows ==
    ASSUME NEW p, IsPiece(p), p.conv # "text"
    PROVE  NumberShown(p, Expand(p))
<1>1. PICK v, w, c, t : v = p.val /\ w = p.width /\ c = p.fill /\ t = Expand(p)
  OBVIOUS
<1>2. v \in Int /\ w \in Nat /\ c \in {Space, Zero}
  BY <1>1 DEF IsPiece
<1>3. 10 \in Radix /\ 16 \in Radix
  BY DEF Radix
<1>4. CASE p.conv = "d"
  <2>1. t = pad(itoa(v, 10), w, c)
    BY <1>1, <1>4 DEF Expand
  <2>2. PICK n : n = v % Power(2, IntBits)
    OBVIOUS
  <2>3. n \in Nat /\ t = pad(Digits(n, 10), w, c)
    BY <1>2, <1>3, <2>1, <2>2, ItoaWrapped
  <2>4. Len(t) >= w /\ ValueOf(t, 10) = n
    <3>1. ShowsPlain(t, n, w, 10)
      BY <1>2, <1>3, <2>3, PaddedDigits
    <3>. QED BY <3>1 DEF ShowsPlain
  <2>. QED BY <1>1, <1>4, <2>2, <2>4 DEF NumberShown
<1>5. CASE p.conv \in {"x", "X"}
  <2>1. PICK s : s = pad(itoa(v, 16), w, c)
    OBVIOUS
  <2>2. t = s \/ t = lowercase(s)
    BY <1>1, <1>5, <2>1 DEF Expand
  <2>3. PICK n : n = v % Power(2, IntBits)
    OBVIOUS
  <2>4. n \in Nat /\ s = pad(Digits(n, 16), w, c)
    BY <1>2, <1>3, <2>1, <2>3, ItoaWrapped
  <2>5. s \in Seq(Glyphs) /\ Len(s) >= w /\ ValueOf(s, 16) = n
    <3>1. ShowsPlain(s, n, w, 16)
      BY <1>2, <1>3, <2>4, PaddedDigits
    <3>. QED BY <3>1 DEF ShowsPlain
  <2>6. Len(t) >= w /\ ValueOf(t, 16) = n
    BY <1>3, <2>2, <2>5, LowercaseSame
  <2>. QED BY <1>1, <1>5, <2>3, <2>6 DEF NumberShown
<1>6. CASE p.conv \in {"lx", "lX"}
  <2>1. PICK s : s = pad(ltoa(v, 16), w, c)
    OBVIOUS
  <2>2. t = s \/ t = lowercase(s)
    BY <1>1, <1>6, <2>1 DEF Expand
  <2>3. PICK n : n = v % Power(2, LongBits)
    OBVIOUS
  <2>4. n \in Nat /\ s = pad(Digits(n, 16), w, c)
    BY <1>2, <2>1, <2>3, LtoaWrapped
  <2>5. s \in Seq(Glyphs) /\ Len(s) >= w /\ ValueOf(s, 16) = n
    <3>1. ShowsPlain(s, n, w, 16)
      BY <1>2, <1>3, <2>4, PaddedDigits
    <3>. QED BY <3>1 DEF ShowsPlain
  <2>6. Len(t) >= w /\ ValueOf(t, 16) = n
    BY <1>3, <2>2, <2>5, LowercaseSame
  <2>. QED BY <1>1, <1>6, <2>3, <2>6 DEF NumberShown
<1>7. CASE p.conv = "ld"
  <2>1. t = pad(ltoa(v, 10), w, c)
    BY <1>1, <1>7 DEF Expand
  <2>2. CASE v < 0
    <3>1. PICK ds, s : ds = Digits(-v, 10) /\ s = <<Minus>> \o ds
      OBVIOUS
    <3>2. -v \in Nat
      BY <1>2, <2>2
    <3>3. ds \in Seq(DigitCodes) /\ ValueOf(ds, 10) = -v
      BY <1>3, <3>1, <3>2, DigitsRead
    <3>4. t = pad(s, w, c)
      BY <2>1, <2>2, <3>1 DEF ltoa
    <3>5. SameNumber(s, t, w, 10)
      BY <1>2, <1>3, <3>1, <3>3, <3>4, PadSigned
    <3>6. s[1] = Minus /\ ValueOf(s, 10) = ValueOf(ds, 10)
      BY <1>3, <3>1, <3>3, Signed
    <3>7. Len(t) >= w /\ Len(t) > 0 /\ t[1] = Minus /\ ValueOf(t, 10) = -v
      BY <3>3, <3>5, <3>6 DEF SameNumber
    <3>8. v = -ValueOf(t, 10)
      BY <1>2, <3>7
    <3>. QED BY <1>1, <1>7, <3>7, <3>8 DEF NumberShown
  <2>3. CASE ~(v < 0)
    <3>1. v \in Nat /\ v < Power(2, LongBits)
      <4>1. 2 * v < Power(2, LongBits)
        BY <1>1, <1>7 DEF IsPiece
      <4>2. PICK q : q = Power(2, LongBits)
        OBVIOUS
      <4>3. q \in Nat
        BY <4>2, Modulus, ConsoleAssumption DEF ConsoleAssumption
      <4>. QED BY <1>2, <2>3, <4>1, <4>2, <4>3
    <3>2. t = pad(Digits(v, 10), w, c)
      BY <1>3, <2>1, <3>1, LtoaNatural
    <3>3. Len(t) >= w /\ ValueOf(t, 10) = v /\ t[1] # Minus
      <4>1. ShowsPlain(t, v, w, 10)
        BY <1>2, <1>3, <3>1, <3>2, PaddedDigits
      <4>. QED BY <4>1 DEF ShowsPlain
    <3>. QED BY <1>1, <1>7, <3>3 DEF NumberShown
  <2>. QED BY <2>2, <2>3
<1>. QED BY <1>4, <1>5, <1>6, <1>7 DEF IsPiece

\* A thousandth is not nothing.
LEMMA Frequency == TIMER_FREQUENCY \in Nat \ {0}
<1>1. 10 \in Nat \ {0} /\ StampDigits \in Nat
  BY ConsoleAssumption DEF ConsoleAssumption
<1>. QED BY <1>1, PowerSteps DEF TIMER_FREQUENCY

\* Later is in no earlier second.
LEMMA DivisionGrows ==
    ASSUME NEW t \in Nat, NEW u \in Nat, t <= u, NEW r \in Nat \ {0}
    PROVE  t \div r <= u \div r
<1>1. PICK q, k, p, l : q = t \div r /\ k = t % r /\ p = u \div r /\ l = u % r
  OBVIOUS
<1>2. q \in Nat /\ k \in 0..(r - 1) /\ t = q * r + k
  BY <1>1, Division
<1>3. p \in Nat /\ l \in 0..(r - 1) /\ u = p * r + l
  BY <1>1, Division
<1>4. SUFFICES ASSUME p + 1 <= q PROVE FALSE
  BY <1>1, <1>2, <1>3
<1>5. (p + 1) * r <= q * r
  <2>1. PICK d : d = q - (p + 1)
    OBVIOUS
  <2>2. d \in Nat /\ q = (p + 1) + d
    BY <1>2, <1>3, <1>4, <2>1
  <2>3. d * r \in Nat /\ (p + 1) * r \in Nat
    BY <1>3, <2>2
  <2>4. q * r = (p + 1) * r + d * r
    BY <1>3, <2>2
  <2>. QED BY <2>3, <2>4
<1>6. (p + 1) * r = p * r + r
  BY <1>3
<1>7. p * r \in Nat /\ q * r \in Nat
  BY <1>2, <1>3
<1>. QED BY <1>2, <1>3, <1>5, <1>6, <1>7

\* A part of the clock is shown as it is.
LEMMA ClockShows ==
    ASSUME NEW t \in Nat, t <= MaxTicks, NEW n \in Nat, n <= t, NEW w \in Nat,
           NEW c \in {Space, Zero}
    PROVE  ShowsPlain(pad(ltoa(n, 10), w, c), n, w, 10)
<1>1. PICK q : q = Power(2, LongBits)
  OBVIOUS
<1>2. q \in Nat /\ MaxTicks < q /\ MaxTicks \in Nat
  BY <1>1, Modulus, ConsoleAssumption, MessageAssumption DEF ConsoleAssumption, MessageAssumption
<1>3. n < q
  BY <1>2
<1>4. 10 \in Radix
  BY DEF Radix
<1>5. ltoa(n, 10) = Digits(n, 10)
  BY <1>1, <1>3, <1>4, LtoaNatural
<1>. QED BY <1>4, <1>5, PaddedDigits

\* The seconds of a time stamp.
LEMMA SecondsShow ==
    ASSUME NEW t \in Nat, t <= MaxTicks
    PROVE  ValueOf(SecondsAt(t), 10) = t \div TIMER_FREQUENCY /\ t \div TIMER_FREQUENCY \in Nat
<1>1. PICK r, q, k : r = TIMER_FREQUENCY /\ q = t \div r /\ k = t % r
  OBVIOUS
<1>2. r \in Nat \ {0}
  BY <1>1, Frequency
<1>3. q \in Nat /\ k \in 0..(r - 1) /\ t = q * r + k
  BY <1>1, <1>2, Division
<1>4. q <= t
  <2>1. q <= q * r /\ q * r \in Nat
    BY <1>2, <1>3
  <2>. QED BY <1>2, <1>3, <2>1
<1>5. SecondsWidth \in Nat /\ Space \in {Space, Zero}
  BY ConsoleAssumption DEF ConsoleAssumption
<1>6. ShowsPlain(pad(ltoa(q, 10), SecondsWidth, Space), q, SecondsWidth, 10)
  BY <1>3, <1>4, <1>5, ClockShows
<1>. QED BY <1>1, <1>3, <1>6 DEF ShowsPlain, SecondsAt

\* Its fraction: as many digits as the frequency has zeros.
LEMMA MillisShow ==
    ASSUME NEW u \in Nat, u <= MaxTicks
    PROVE  /\ MillisAt(u) \in Seq(Glyphs) /\ Len(MillisAt(u)) = StampDigits
           /\ ValueOf(MillisAt(u), 10) = u % TIMER_FREQUENCY
<1>1. PICK r, q, k : r = TIMER_FREQUENCY /\ q = u \div r /\ k = u % r
  OBVIOUS
<1>2. r \in Nat \ {0}
  BY <1>1, Frequency
<1>3. q \in Nat /\ k \in 0..(r - 1) /\ u = q * r + k
  BY <1>1, <1>2, Division
<1>4. k \in Nat /\ k <= u /\ k < r
  <2>1. q * r \in Nat
    BY <1>2, <1>3
  <2>. QED BY <1>2, <1>3, <2>1
<1>5. StampDigits \in Nat /\ Zero \in {Space, Zero} /\ StampDigits - 1 \in Nat
      /\ (StampDigits - 1) + 1 = StampDigits
  BY ConsoleAssumption DEF ConsoleAssumption
<1>6. PICK t : t = pad(ltoa(k, 10), StampDigits, Zero)
  OBVIOUS
<1>7. ShowsPlain(t, k, StampDigits, 10)
  BY <1>4, <1>5, <1>6, ClockShows
<1>8. Len(Digits(k, 10)) <= StampDigits
  <2>1. k < Power(10, (StampDigits - 1) + 1)
    BY <1>1, <1>4, <1>5 DEF TIMER_FREQUENCY
  <2>2. Len(Digits(k, 10)) <= (StampDigits - 1) + 1
    BY <1>4, <1>5, <2>1, DigitsShort
  <2>. QED BY <1>5, <2>2
<1>9. Len(t) = StampDigits
  BY <1>5, <1>7, <1>8 DEF ShowsPlain
<1>10. t = MillisAt(u)
  BY <1>1, <1>6 DEF MillisAt
<1>11. t \in Seq(Glyphs) /\ ValueOf(t, 10) = k
  BY <1>7 DEF ShowsPlain
<1>. QED BY <1>1, <1>9, <1>10, <1>11

\* The escape sequence behind the fraction is no part of it.
LEMMA FrontIs ==
    ASSUME NEW s \in Seq(Glyphs), NEW c
    PROVE  Front(s \o <<c>>) = s
<1>1. PICK T : T = Glyphs \cup {c}
  OBVIOUS
<1>2. s \in Seq(T) /\ c \in T
  <2>1. Glyphs \subseteq T
    BY <1>1
  <2>2. Seq(Glyphs) \subseteq Seq(T)
    BY <2>1
  <2>. QED BY <1>1, <2>2
<1>3. PICK t : t = s \o <<c>>
  OBVIOUS
<1>4. PICK n : n = Len(s)
  OBVIOUS
<1>5. n \in Nat /\ t \in Seq(T) /\ Len(t) = n + 1
  <2>1. <<c>> \in Seq(T) /\ Len(<<c>>) = 1
    BY <1>2
  <2>2. t \in Seq(T) /\ Len(t) = Len(s) + Len(<<c>>)
    BY <1>2, <1>3, <2>1, ConcatProperties
  <2>. QED BY <1>2, <1>4, <2>1, <2>2
<1>6. ASSUME NEW i \in 1..n PROVE t[i] = s[i]
  BY <1>2, <1>3, <1>4
<1>7. PICK f : f = SubSeq(t, 1, Len(t) - 1)
  OBVIOUS
<1>8. Len(t) - 1 = n
  BY <1>5
<1>9. f = SubSeq(t, 1, n)
  BY <1>7, <1>8
<1>10. f \in Seq(T) /\ Len(f) = n
  BY <1>5, <1>9
<1>11. ASSUME NEW i \in 1..n PROVE f[i] = t[i]
  BY <1>5, <1>9, <1>10
<1>12. f = s
  <2>1. \A i \in 1..Len(f) : f[i] = s[i]
    BY <1>6, <1>10, <1>11
  <2>2. Len(f) = Len(s)
    BY <1>4, <1>10
  <2>. QED BY <1>2, <1>10, <2>1, <2>2, SeqEqual
<1>. QED BY <1>3, <1>7, <1>12 DEF Front

\* What is read from a time stamp: a time that is not after the second look at
\* the clock, in the second of the first look.
LEMMA StampShows ==
    ASSUME NEW e, NEW now \in Nat, now <= MaxTicks, StampRead(e.pieces, now)
    PROVE  /\ StampOf(e).ticks <= now
           /\ StampOf(e).seconds = SecondsOf(e.pieces)
           /\ SecondsOf(e.pieces) \in Nat
<1>1. PICK p : p = e.pieces
  OBVIOUS
<1>2. PICK t \in Nat, u \in Nat :
          t <= u /\ u <= now /\ p[2] = SecondsAt(t) /\ p[3] = MillisAt(u) \o <<Esc(0)>>
  BY <1>1 DEF StampRead
<1>3. MaxTicks \in Nat
  BY ConsoleAssumption DEF ConsoleAssumption
<1>4. t <= MaxTicks /\ u <= MaxTicks
  BY <1>2, <1>3
<1>5. PICK r, a, b, k : r = TIMER_FREQUENCY /\ a = t \div r /\ b = u \div r /\ k = u % r
  OBVIOUS
<1>6. r \in Nat \ {0}
  BY <1>5, Frequency
<1>7. a \in Nat /\ b \in Nat /\ k \in Nat /\ u = b * r + k
  <2>1. a \in Nat
    BY <1>5, <1>6, Division
  <2>2. b \in Nat /\ k \in 0..(r - 1) /\ u = b * r + k
    BY <1>5, <1>6, Division
  <2>. QED BY <1>6, <2>1, <2>2
<1>8. a <= b
  BY <1>2, <1>5, <1>6, DivisionGrows
<1>9. SecondsOf(p) = a
  BY <1>2, <1>4, <1>5, SecondsShow DEF SecondsOf
<1>10. PICK s : s = MillisAt(u)
  OBVIOUS
<1>11. s \in Seq(Glyphs) /\ Len(s) = StampDigits /\ ValueOf(s, 10) = k
  BY <1>4, <1>5, <1>10, MillisShow
<1>12. Front(p[3]) = s
  BY <1>2, <1>10, <1>11, FrontIs
<1>13. (k * r) \div r = k
  <2>1. PICK x, q, j : x = k * r /\ q = x \div r /\ j = x % r
    OBVIOUS
  <2>2. x \in Nat
    BY <1>6, <1>7, <2>1
  <2>3. q \in Nat /\ j \in 0..(r - 1) /\ x = q * r + j
    BY <1>6, <2>1, <2>2, Division
  <2>4. q = k
    <3>1. PICK d : d = k - q
      OBVIOUS
    <3>2. d \in Int /\ k = q + d
      BY <1>7, <2>3, <3>1
    <3>3. (q + d) * r = q * r + d * r /\ q * r \in Int /\ d * r \in Int
      BY <1>6, <2>3, <3>2
    <3>4. d * r = j
      BY <2>1, <2>3, <3>2, <3>3
    <3>5. CASE d >= 1
      <4>1. d * r >= r
        BY <1>6, <3>2, <3>5
      <4>. QED BY <1>6, <2>3, <3>4, <4>1
    <3>6. CASE d <= -1
      <4>1. d * r < 0
        BY <1>6, <3>2, <3>6
      <4>. QED BY <1>6, <2>3, <3>4, <4>1
    <3>7. CASE d = 0
      BY <2>3, <3>2, <3>7
    <3>. QED BY <3>2, <3>5, <3>6, <3>7
  <2>. QED BY <2>1, <2>4
<1>14. Power(10, Len(s)) = r
  BY <1>5, <1>11 DEF TIMER_FREQUENCY
<1>15. StampOf(e).seconds = a
  BY <1>1, <1>9 DEF StampOf, SecondsOf
<1>16. StampOf(e).ticks = a * r + k
  <2>1. StampOf(e).ticks = ValueOf(p[2], 10) * TIMER_FREQUENCY
            + ((ValueOf(Front(p[3]), 10) * TIMER_FREQUENCY) \div Power(10, Len(Front(p[3]))))
    BY <1>1 DEF StampOf
  <2>2. StampOf(e).ticks = a * r + ((k * r) \div r)
    BY <1>5, <1>9, <1>11, <1>12, <1>14, <2>1 DEF SecondsOf
  <2>. QED BY <1>13, <2>2
<1>17. a * r + k <= u
  <2>1. PICK d : d = b - a
    OBVIOUS
  <2>2. d \in Nat /\ b = a + d
    BY <1>7, <1>8, <2>1
  <2>3. (a + d) * r = a * r + d * r /\ a * r \in Nat /\ d * r \in Nat
    BY <1>6, <1>7, <2>2
  <2>. QED BY <1>7, <2>2, <2>3
<1>18. a * r + k \in Nat
  <2>1. a * r \in Nat
    BY <1>6, <1>7
  <2>. QED BY <1>7, <2>1
<1>19. StampOf(e).ticks <= now
  BY <1>2, <1>16, <1>17, <1>18
<1>. QED BY <1>1, <1>7, <1>9, <1>15, <1>19

\* What follows the stamp: the tag of the module, if any, and a text for each
\* piece of the format string.
LEMMA RestIs ==
    ASSUME NEW m \in Printed, NEW tag \in Nat, tag = IF m.module = 0 THEN 0 ELSE 1
    PROVE  /\ Len(m.body) \in Nat /\ Len(Rest(m)) = Len(m.body) + tag
           /\ \A k \in 1..Len(m.body) : /\ IsPiece(m.body[k])
                                        /\ Rest(m)[k + tag] = Expand(m.body[k])
<1>1. PICK n : n = Len(m.body)
  OBVIOUS
<1>2. n \in Nat /\ DOMAIN m.body = 1..n /\ (\A k \in 1..n : IsPiece(m.body[k]))
  BY <1>1, MessageAssumption DEF MessageAssumption
<1>3. PICK s : s = [i \in 1..n |-> Expand(m.body[i])]
  OBVIOUS
<1>4. PICK a : a = <<Esc(35), m.module, Esc(0)>>
  OBVIOUS
<1>5. PICK T : T = {s[i] : i \in 1..n} \cup {a}
  OBVIOUS
<1>6. s \in Seq(T) /\ Len(s) = n
  <2>1. \A i \in 1..n : s[i] \in T
    BY <1>5
  <2>2. s \in [1..n -> T]
    BY <1>3, <2>1
  <2>. QED BY <1>2, <2>2
<1>7. PICK h : h = IF m.module = 0 THEN <<>> ELSE <<a>>
  OBVIOUS
<1>8. h \in Seq(T) /\ Len(h) = tag
  <2>1. <<a>> \in Seq(T) /\ Len(<<a>>) = 1
    BY <1>5
  <2>2. <<>> \in Seq(T) /\ Len(<<>>) = 0
    OBVIOUS
  <2>. QED BY <1>7, <2>1, <2>2
<1>9. Rest(m) = h \o s
  BY <1>2, <1>3, <1>4, <1>7 DEF Rest
<1>10. Len(h \o s) = Len(h) + Len(s)
  BY <1>6, <1>8, ConcatProperties
<1>11. ASSUME NEW k \in 1..n PROVE (h \o s)[k + tag] = Expand(m.body[k])
  <2>1. PICK i : i = k + tag
    OBVIOUS
  <2>2. i \in 1..(Len(h) + Len(s)) /\ ~(i <= Len(h)) /\ i - Len(h) = k
    BY <1>2, <1>6, <1>8, <2>1
  <2>3. (h \o s)[i] = s[k]
    BY <1>6, <1>8, <2>2, ConcatProperties
  <2>4. s[k] = Expand(m.body[k])
    BY <1>3
  <2>. QED BY <2>1, <2>3, <2>4
<1>12. Len(Rest(m)) = n + tag
  BY <1>2, <1>6, <1>8, <1>9, <1>10
<1>. QED BY <1>1, <1>2, <1>9, <1>11, <1>12

\* ...so it has an end.
LEMMA RestLength ==
    ASSUME NEW m \in Printed
    PROVE  Len(Rest(m)) \in Nat
<1>1. PICK tag : tag = IF m.module = 0 THEN 0 ELSE 1
  OBVIOUS
<1>2. tag \in Nat
  BY <1>1
<1>3. Len(m.body) \in Nat /\ Len(Rest(m)) = Len(m.body) + tag
  BY <1>1, <1>2, RestIs
<1>. QED BY <1>2, <1>3

-----------------------------------------------------------------------------
(* The invariant holds at first and in every step.                         *)

\* Another piece behind what has been printed.
LEMMA AppendIs ==
    ASSUME NEW s, IsSeq(s), NEW c
    PROVE  /\ IsSeq(Append(s, c)) /\ Len(Append(s, c)) = Len(s) + 1
           /\ Append(s, c)[Len(s) + 1] = c
           /\ \A k \in 1..Len(s) : Append(s, c)[k] = s[k]
<1>1. PICK n : n = Len(s)
  OBVIOUS
<1>2. n \in Nat /\ s = [k \in 1..n |-> s[k]]
  BY <1>1 DEF IsSeq
<1>3. PICK T : T = {s[k] : k \in 1..n} \cup {c}
  OBVIOUS
<1>4. s \in Seq(T) /\ c \in T
  <2>1. \A k \in 1..n : s[k] \in T
    BY <1>3
  <2>2. s \in [1..n -> T]
    BY <1>2, <2>1
  <2>. QED BY <1>2, <1>3, <2>2
<1>5. PICK t : t = Append(s, c)
  OBVIOUS
<1>6. t \in Seq(T) /\ Len(t) = n + 1 /\ t[n + 1] = c /\ (\A k \in 1..n : t[k] = s[k])
  BY <1>1, <1>2, <1>4, <1>5
<1>7. IsSeq(t)
  BY <1>2, <1>6 DEF IsSeq
<1>. QED BY <1>1, <1>5, <1>6, <1>7

\* What was read stays read.
LEMMA StillRead ==
    ASSUME NEW p, NEW now \in Nat, NEW later \in Nat, now <= later
    PROVE  /\ SecondsRead(p, now) => SecondsRead(p, later)
           /\ StampRead(p, now) => StampRead(p, later)
<1>1. ASSUME SecondsRead(p, now) PROVE SecondsRead(p, later)
  <2>1. PICK t \in Nat : t <= now /\ p[2] = SecondsAt(t)
    BY <1>1 DEF SecondsRead
  <2>2. t <= later
    BY <2>1
  <2>. QED BY <2>1, <2>2 DEF SecondsRead
<1>2. ASSUME StampRead(p, now) PROVE StampRead(p, later)
  <2>1. PICK t \in Nat, u \in Nat :
            t <= u /\ u <= now /\ p[2] = SecondsAt(t) /\ p[3] = MillisAt(u) \o <<Esc(0)>>
    BY <1>2 DEF StampRead
  <2>2. u <= later
    BY <2>1
  <2>. QED BY <2>1, <2>2 DEF StampRead
<1>. QED BY <1>1, <1>2

\* Only the second and the third piece make the stamp.
LEMMA SameStamp ==
    ASSUME NEW p, NEW q, NEW now, p[2] = q[2]
    PROVE  /\ SecondsRead(p, now) => SecondsRead(q, now)
           /\ p[3] = q[3] /\ StampRead(p, now) => StampRead(q, now)
           /\ SecondsOf(p) = SecondsOf(q)
BY DEF SecondsRead, StampRead, SecondsOf

\* A second that was read is not ahead of the clock.
LEMMA SecondsPassed ==
    ASSUME NEW p, NEW now \in Nat, now <= MaxTicks, StampRead(p, now)
    PROVE  SecondsOf(p) <= now \div TIMER_FREQUENCY
<1>1. PICK t \in Nat, u \in Nat : t <= u /\ u <= now /\ p[2] = SecondsAt(t)
  BY DEF StampRead
<1>2. MaxTicks \in Nat
  BY ConsoleAssumption DEF ConsoleAssumption
<1>3. t <= now /\ t <= MaxTicks
  BY <1>1, <1>2
<1>4. SecondsOf(p) = t \div TIMER_FREQUENCY
  BY <1>1, <1>3, SecondsShow DEF SecondsOf
<1>5. t \div TIMER_FREQUENCY <= now \div TIMER_FREQUENCY
  BY <1>3, DivisionGrows, Frequency
<1>. QED BY <1>4, <1>5

\* The clock is a natural number within its bound.
LEMMA Now ==
    ASSUME Types
    PROVE  timer_ticks \in Nat /\ timer_ticks <= MaxTicks
BY ConsoleAssumption DEF ConsoleAssumption, Types

\* At first nobody prints.
LEMMA InitIInv == Init => IInv
<1>. SUFFICES ASSUME Init PROVE IInv
  OBVIOUS
<1>1. Types
  BY ConsoleAssumption DEF ConsoleAssumption, Types, Init, PcStates
<1>2. Stages
  <2>1. ASSUME NEW x \in Contexts PROVE StageOf(pc[x], job[x], said[x], timer_ticks)
    <3>1. pc[x] = "none" /\ job[x] = <<>> /\ said[x] = <<>>
      BY DEF Init
    <3>2. IsSeq(<<>>) /\ Len(<<>>) = 0 /\ <<>> \in Seq(Printed)
      BY DEF IsSeq
    <3>. QED BY <3>1, <3>2 DEF StageOf
  <2>. QED BY <2>1 DEF Stages
<1>3. OneOwner
  <2>1. Owners = {}
    BY DEF Owners, Init
  <2>. QED BY <2>1 DEF OneOwner, Init
<1>4. log = <<>> /\ Len(log) = 0 /\ IsSeq(log) /\ 1..Len(log) = {}
  BY DEF Init, IsSeq
<1>5. Logged
  BY <1>4 DEF Logged
<1>6. Ordered
  <2>1. \A x \in Contexts : pc[x] = "none"
    BY DEF Init
  <2>. QED BY <1>4, <2>1 DEF Ordered, After
<1>. QED BY <1>1, <1>2, <1>3, <1>5, <1>6 DEF IInv

\* What the invariant is about.
seen == <<e9_mutex, timer_ticks, pc, job, said, log>>

\* A step of which it sees nothing.
LEMMA Unseen ==
    ASSUME IInv, UNCHANGED seen
    PROVE  IInv'
BY DEF IInv, seen, Types, Stages, OneOwner, Owners, Logged, Ordered, After

\* Time passes.
LEMMA TimerKeeps ==
    ASSUME IInv, Timer
    PROVE  IInv'
<1>1. UNCHANGED <<e9_mutex, pc, job, said, log>>
  BY DEF Timer
<1>2. timer_ticks \in Nat /\ timer_ticks' \in Nat /\ timer_ticks <= timer_ticks'
      /\ timer_ticks' \in StartTicks..MaxTicks
  BY ConsoleAssumption DEF ConsoleAssumption, Timer, IInv, Types
<1>3. Types'
  BY <1>1, <1>2 DEF IInv, Types
<1>4. Stages'
  <2>1. ASSUME NEW x \in Contexts PROVE StageOf(pc[x], job[x], said[x], timer_ticks')
    <3>1. StageOf(pc[x], job[x], said[x], timer_ticks)
      BY DEF IInv, Stages
    <3>2. SecondsRead(said[x], timer_ticks) => SecondsRead(said[x], timer_ticks')
      BY <1>2, StillRead
    <3>3. StampRead(said[x], timer_ticks) => StampRead(said[x], timer_ticks')
      BY <1>2, StillRead
    <3>. QED BY <3>1, <3>2, <3>3 DEF StageOf
  <2>. QED BY <1>1, <2>1 DEF Stages
<1>5. OneOwner'
  BY <1>1 DEF IInv, OneOwner, Owners
<1>6. Logged'
  <2>1. ASSUME NEW i \in 1..Len(log) PROVE Whole(log[i], timer_ticks')
    <3>1. Whole(log[i], timer_ticks)
      BY DEF IInv, Logged
    <3>2. StampRead(log[i].pieces, timer_ticks) => StampRead(log[i].pieces, timer_ticks')
      BY <1>2, StillRead
    <3>. QED BY <3>1, <3>2 DEF Whole
  <2>. QED BY <1>1, <2>1 DEF IInv, Logged
<1>7. Ordered'
  BY <1>1 DEF IInv, Ordered, After
<1>. QED BY <1>3, <1>4, <1>5, <1>6, <1>7 DEF IInv

\* Where a context goes when nobody else moves.
LEMMA Moves ==
    ASSUME Types, NEW x \in Contexts, NEW there \in PcStates, pc' = [pc EXCEPT ![x] = there]
    PROVE  /\ pc' \in [Contexts -> PcStates] /\ pc'[x] = there
           /\ \A y \in Contexts : y # x => pc'[y] = pc[y]
BY DEF Types

\* The owners, if one context moves within or outside the lock.
LEMMA SameOwners ==
    ASSUME Types, NEW x \in Contexts, NEW there \in PcStates, pc' = [pc EXCEPT ![x] = there],
           pc[x] \in {"level", "seconds", "millis", "rest"}
             <=> there \in {"level", "seconds", "millis", "rest"}
    PROVE  Owners' = Owners
<1>1. pc'[x] = there /\ (\A y \in Contexts : y # x => pc'[y] = pc[y])
  BY Moves
<1>. QED BY <1>1 DEF Owners

\* Somebody begins to print.
LEMMA BeginKeeps ==
    ASSUME IInv, NEW x \in Contexts, pc[x] = "none", NEW messages \in Seq(Printed),
           messages # <<>>, Begin(x, messages),
           UNCHANGED <<e9_mutex, timer_ticks, said, log>>
    PROVE  IInv'
<1>1. Types /\ "acquire" \in PcStates
  BY DEF IInv, PcStates
<1>2. pc' = [pc EXCEPT ![x] = "acquire"] /\ job' = [job EXCEPT ![x] = messages]
  BY DEF Begin
<1>3. pc' \in [Contexts -> PcStates] /\ pc'[x] = "acquire"
      /\ (\A y \in Contexts : y # x => pc'[y] = pc[y])
  BY <1>1, <1>2, Moves
<1>4. job' = [y \in Contexts |-> job'[y]] /\ job'[x] = messages
      /\ (\A y \in Contexts : y # x => job'[y] = job[y])
  BY <1>1, <1>2 DEF Types
<1>5. Types'
  BY <1>1, <1>3, <1>4 DEF Types
<1>6. Stages'
  <2>1. ASSUME NEW y \in Contexts PROVE StageOf(pc'[y], job'[y], said[y], timer_ticks)
    <3>1. StageOf(pc[y], job[y], said[y], timer_ticks)
      BY DEF IInv, Stages
    <3>2. CASE y # x
      BY <1>3, <1>4, <3>1, <3>2
    <3>3. CASE y = x
      <4>1. IsSeq(said[x]) /\ Len(said[x]) = 0
        BY <3>1, <3>3 DEF StageOf
      <4>. QED BY <1>3, <1>4, <3>3, <4>1 DEF StageOf
    <3>. QED BY <3>2, <3>3
  <2>. QED BY <2>1 DEF Stages
<1>7. OneOwner'
  <2>1. Owners' = Owners
    BY <1>1, <1>2, SameOwners
  <2>. QED BY <2>1 DEF IInv, OneOwner
<1>8. Logged'
  BY DEF IInv, Logged
<1>9. Ordered'
  <2>1. ASSUME NEW y \in Contexts, pc'[y] \in {"millis", "rest"} PROVE After(said[y])
    <3>1. y # x
      BY <1>3, <2>1
    <3>2. pc[y] \in {"millis", "rest"}
      BY <1>3, <2>1, <3>1
    <3>. QED BY <3>2 DEF IInv, Ordered
  <2>. QED BY <2>1 DEF IInv, Ordered, After
<1>. QED BY <1>5, <1>6, <1>7, <1>8, <1>9 DEF IInv

\* The owner of the lock prints a piece.
LEMMA SayKeeps ==
    ASSUME IInv, NEW x \in Contexts, pc[x] \in {"level", "seconds", "millis", "rest"},
           NEW there \in {"seconds", "millis", "rest"}, pc' = [pc EXCEPT ![x] = there],
           NEW text, Say(x, text),
           StageOf(there, job[x], Append(said[x], text), timer_ticks),
           there \in {"millis", "rest"} => After(Append(said[x], text))
    PROVE  IInv'
<1>1. Types /\ there \in PcStates
  BY DEF IInv, PcStates
<1>2. UNCHANGED <<e9_mutex, timer_ticks, job, log>>
      /\ said' = [said EXCEPT ![x] = Append(@, text)]
  BY DEF Say
<1>3. pc' \in [Contexts -> PcStates] /\ pc'[x] = there
      /\ (\A y \in Contexts : y # x => pc'[y] = pc[y])
  BY <1>1, Moves
<1>4. said' = [y \in Contexts |-> said'[y]] /\ said'[x] = Append(said[x], text)
      /\ (\A y \in Contexts : y # x => said'[y] = said[y])
  BY <1>1, <1>2 DEF Types
<1>5. Types'
  BY <1>1, <1>2, <1>3, <1>4 DEF Types
<1>6. Stages'
  <2>1. ASSUME NEW y \in Contexts PROVE StageOf(pc'[y], job[y], said'[y], timer_ticks)
    <3>1. CASE y # x
      <4>1. StageOf(pc[y], job[y], said[y], timer_ticks)
        BY DEF IInv, Stages
      <4>. QED BY <1>3, <1>4, <3>1, <4>1
    <3>2. CASE y = x
      BY <1>3, <1>4, <3>2
    <3>. QED BY <3>1, <3>2
  <2>. QED BY <1>2, <2>1 DEF Stages
<1>7. OneOwner'
  <2>1. Owners' = Owners
    BY <1>1, SameOwners
  <2>. QED BY <1>2, <2>1 DEF IInv, OneOwner
<1>8. Logged'
  BY <1>2 DEF IInv, Logged
<1>9. Ordered'
  <2>1. ASSUME NEW y \in Contexts, pc'[y] \in {"millis", "rest"} PROVE After(said'[y])
    <3>1. CASE y # x
      <4>1. pc[y] \in {"millis", "rest"} /\ said'[y] = said[y]
        BY <1>3, <1>4, <2>1, <3>1
      <4>. QED BY <4>1 DEF IInv, Ordered
    <3>2. CASE y = x
      BY <1>3, <1>4, <2>1, <3>2
    <3>. QED BY <3>1, <3>2
  <2>2. \A y \in Contexts : pc'[y] \in {"millis", "rest"} => After(said[y])'
    BY <1>2, <2>1 DEF After
  <2>. QED BY <1>2, <2>2 DEF IInv, Ordered
<1>. QED BY <1>5, <1>6, <1>7, <1>8, <1>9 DEF IInv

\* Acquire: only without an owner.
LEMMA AcquireKeeps ==
    ASSUME IInv, NEW x \in Contexts, Acquire(x)
    PROVE  IInv'
<1>1. Types /\ "level" \in PcStates
  BY DEF IInv, PcStates
<1>2. pc[x] = "acquire" /\ pc' = [pc EXCEPT ![x] = "level"] /\ e9_mutex = 0 /\ e9_mutex' = 1
      /\ UNCHANGED <<timer_ticks, job, said, log>>
  BY DEF Acquire, At
<1>3. pc' \in [Contexts -> PcStates] /\ pc'[x] = "level"
      /\ (\A y \in Contexts : y # x => pc'[y] = pc[y])
  BY <1>1, <1>2, Moves
<1>4. Types'
  BY <1>1, <1>2, <1>3 DEF Types
<1>5. Stages'
  <2>1. ASSUME NEW y \in Contexts PROVE StageOf(pc'[y], job[y], said[y], timer_ticks)
    <3>1. StageOf(pc[y], job[y], said[y], timer_ticks)
      BY DEF IInv, Stages
    <3>2. CASE y # x
      BY <1>3, <3>1, <3>2
    <3>3. CASE y = x
      BY <1>2, <1>3, <3>1, <3>3 DEF StageOf
    <3>. QED BY <3>2, <3>3
  <2>. QED BY <1>2, <2>1 DEF Stages
<1>6. OneOwner'
  <2>1. Owners = {}
    BY <1>2 DEF IInv, OneOwner
  <2>2. Owners' = {x}
    BY <1>3, <2>1 DEF Owners
  <2>. QED BY <1>2, <2>2 DEF OneOwner
<1>7. Logged'
  BY <1>2 DEF IInv, Logged
<1>8. Ordered'
  <2>1. ASSUME NEW y \in Contexts, pc'[y] \in {"millis", "rest"} PROVE After(said[y])
    <3>1. y # x
      BY <1>3, <2>1
    <3>2. pc[y] \in {"millis", "rest"}
      BY <1>3, <2>1, <3>1
    <3>. QED BY <3>2 DEF IInv, Ordered
  <2>. QED BY <1>2, <2>1 DEF IInv, Ordered, After
<1>. QED BY <1>4, <1>5, <1>6, <1>7, <1>8 DEF IInv

\* The colour of the level.
LEMMA SayLevelKeeps ==
    ASSUME IInv, NEW x \in Contexts, SayLevel(x)
    PROVE  IInv'
<1>1. PICK text : text = <<Esc(0), Esc(1), Esc(Level(Message(x)))>>
  OBVIOUS
<1>2. pc[x] = "level" /\ pc' = [pc EXCEPT ![x] = "seconds"] /\ Say(x, text)
  BY <1>1 DEF SayLevel, At
<1>3. StageOf("level", job[x], said[x], timer_ticks)
  BY <1>2 DEF IInv, Stages
<1>4. IsSeq(said[x]) /\ Len(said[x]) = 0
  BY <1>3 DEF StageOf
<1>5. IsSeq(Append(said[x], text)) /\ Len(Append(said[x], text)) = 0 + 1
  BY <1>4, AppendIs
<1>6. StageOf("seconds", job[x], Append(said[x], text), timer_ticks)
  BY <1>3, <1>5 DEF StageOf
<1>. QED BY <1>2, <1>6, SayKeeps

\* The first look at the clock. It is later than those of all messages before.
LEMMA SaySecondsKeeps ==
    ASSUME IInv, NEW x \in Contexts, SaySeconds(x)
    PROVE  IInv'
<1>1. PICK p : p = Append(said[x], Seconds)
  OBVIOUS
<1>2. pc[x] = "seconds" /\ pc' = [pc EXCEPT ![x] = "millis"] /\ Say(x, Seconds)
  BY DEF SaySeconds, At
<1>3. StageOf("seconds", job[x], said[x], timer_ticks)
  BY <1>2 DEF IInv, Stages
<1>4. IsSeq(said[x]) /\ Len(said[x]) = 1
  BY <1>3 DEF StageOf
<1>5. IsSeq(p) /\ Len(p) = Len(said[x]) + 1 /\ p[Len(said[x]) + 1] = Seconds
  BY <1>1, <1>4, AppendIs
<1>6. p[2] = SecondsAt(timer_ticks) /\ Len(p) = 2
  <2>1. Len(said[x]) + 1 = 2
    BY <1>4
  <2>. QED BY <1>5, <2>1 DEF Seconds, SecondsAt
<1>7. timer_ticks \in Nat /\ timer_ticks <= MaxTicks
  BY Now DEF IInv
<1>8. SecondsRead(p, timer_ticks)
  BY <1>6, <1>7 DEF SecondsRead
<1>9. StageOf("millis", job[x], p, timer_ticks)
  BY <1>3, <1>5, <1>6, <1>8 DEF StageOf
<1>10. After(p)
  <2>1. ASSUME NEW i \in 1..Len(log) PROVE SecondsOf(log[i].pieces) <= SecondsOf(p)
    <3>1. StampRead(log[i].pieces, timer_ticks)
      BY DEF IInv, Logged, Whole
    <3>2. SecondsOf(log[i].pieces) <= timer_ticks \div TIMER_FREQUENCY
      BY <1>7, <3>1, SecondsPassed
    <3>3. SecondsOf(p) = timer_ticks \div TIMER_FREQUENCY
      BY <1>6, <1>7, SecondsShow DEF SecondsOf
    <3>. QED BY <3>2, <3>3
  <2>. QED BY <2>1 DEF After
<1>. QED BY <1>1, <1>2, <1>9, <1>10, SayKeeps

\* The second look.
LEMMA SayMillisKeeps ==
    ASSUME IInv, NEW x \in Contexts, SayMillis(x)
    PROVE  IInv'
<1>1. PICK text, p : text = Millis \o <<Esc(0)>> /\ p = Append(said[x], text)
  OBVIOUS
<1>2. pc[x] = "millis" /\ pc' = [pc EXCEPT ![x] = "rest"] /\ Say(x, text)
  BY <1>1 DEF SayMillis, At
<1>3. StageOf("millis", job[x], said[x], timer_ticks)
  BY <1>2 DEF IInv, Stages
<1>4. IsSeq(said[x]) /\ Len(said[x]) = 2 /\ SecondsRead(said[x], timer_ticks)
      /\ job[x] \in Seq(Printed) /\ job[x] # <<>>
  BY <1>3 DEF StageOf
<1>5. IsSeq(p) /\ Len(p) = Len(said[x]) + 1 /\ p[Len(said[x]) + 1] = text
      /\ (\A k \in 1..Len(said[x]) : p[k] = said[x][k])
  <2>1. PICK s : s = said[x]
    OBVIOUS
  <2>2. IsSeq(s) /\ p = Append(s, text)
    BY <1>1, <1>4, <2>1
  <2>3. IsSeq(p) /\ Len(p) = Len(s) + 1 /\ p[Len(s) + 1] = text
        /\ (\A k \in 1..Len(s) : p[k] = s[k])
    BY <2>2, AppendIs
  <2>. QED BY <2>1, <2>3
<1>6. Len(p) = 3 /\ p[3] = text /\ p[2] = said[x][2]
  <2>1. Len(said[x]) + 1 = 3 /\ 2 \in 1..Len(said[x])
    BY <1>4
  <2>. QED BY <1>5, <2>1
<1>7. timer_ticks \in Nat
  BY Now DEF IInv
<1>8. StampRead(p, timer_ticks)
  <2>1. PICK t \in Nat : t <= timer_ticks /\ said[x][2] = SecondsAt(t)
    BY <1>4 DEF SecondsRead
  <2>2. p[3] = MillisAt(timer_ticks) \o <<Esc(0)>>
    BY <1>1, <1>6 DEF Millis, MillisAt
  <2>3. timer_ticks <= timer_ticks
    BY <1>7
  <2>. QED BY <1>6, <1>7, <2>1, <2>2, <2>3 DEF StampRead
<1>9. Head(job[x]) \in Printed
  BY <1>4
<1>10. Len(Rest(Head(job[x]))) \in Nat
  BY <1>9, RestLength
<1>11. Len(p) \in 3..(3 + Len(Rest(Head(job[x])))) /\ Follows(p, Head(job[x]))
  BY <1>6, <1>10 DEF Follows
<1>12. StageOf("rest", job[x], p, timer_ticks)
  BY <1>4, <1>5, <1>8, <1>11 DEF StageOf
<1>13. After(p)
  <2>1. After(said[x])
    BY <1>2 DEF IInv, Ordered
  <2>2. SecondsOf(p) = SecondsOf(said[x])
    BY <1>6 DEF SecondsOf
  <2>. QED BY <2>1, <2>2 DEF After
<1>. QED BY <1>1, <1>2, <1>12, <1>13, SayKeeps

\* The pieces of the format string.
LEMMA SayRestKeeps ==
    ASSUME IInv, NEW x \in Contexts, SayRest(x)
    PROVE  IInv'
<1>1. PICK m, n, text, p : /\ m = Head(job[x]) /\ n = Len(said[x])
                           /\ text = Rest(m)[n - 2] /\ p = Append(said[x], text)
  OBVIOUS
<1>2. pc[x] = "rest" /\ pc' = [pc EXCEPT ![x] = "rest"] /\ n - 3 < Len(Rest(m)) /\ Say(x, text)
  BY <1>1 DEF SayRest, At, Message
<1>3. StageOf("rest", job[x], said[x], timer_ticks)
  BY <1>2 DEF IInv, Stages
<1>4. IsSeq(said[x]) /\ n \in 3..(3 + Len(Rest(m))) /\ StampRead(said[x], timer_ticks)
      /\ Follows(said[x], m) /\ job[x] \in Seq(Printed) /\ job[x] # <<>>
  BY <1>1, <1>3 DEF StageOf
<1>5. m \in Printed
  BY <1>1, <1>4
<1>6. PICK l : l = Len(Rest(m))
  OBVIOUS
<1>7. l \in Nat /\ n \in 3..(3 + l) /\ n - 3 < l
  BY <1>2, <1>4, <1>5, <1>6, RestLength
<1>8. IsSeq(p) /\ Len(p) = n + 1 /\ p[n + 1] = text /\ (\A k \in 1..n : p[k] = said[x][k])
  BY <1>1, <1>4, AppendIs
<1>9. p[2] = said[x][2] /\ p[3] = said[x][3]
  BY <1>7, <1>8
<1>10. StampRead(p, timer_ticks)
  BY <1>4, <1>9 DEF StampRead
<1>11. Follows(p, m)
  <2>1. ASSUME NEW k \in 4..(n + 1) PROVE p[k] = Rest(m)[k - 3]
    <3>1. CASE k \in 4..n
      <4>1. k \in 1..n
        BY <1>7, <3>1
      <4>2. said[x][k] = Rest(m)[k - 3]
        BY <1>1, <1>4, <3>1 DEF Follows
      <4>. QED BY <1>8, <4>1, <4>2
    <3>2. CASE k = n + 1
      <4>1. k - 3 = n - 2
        BY <1>7, <3>2
      <4>. QED BY <1>1, <1>8, <3>2, <4>1
    <3>. QED BY <1>7, <3>1, <3>2
  <2>. QED BY <1>8, <2>1 DEF Follows
<1>12. Len(p) \in 3..(3 + l)
  BY <1>7, <1>8
<1>13. StageOf("rest", job[x], p, timer_ticks)
  BY <1>1, <1>4, <1>6, <1>8, <1>10, <1>11, <1>12 DEF StageOf
<1>14. After(p)
  <2>1. After(said[x])
    BY <1>2 DEF IInv, Ordered
  <2>2. SecondsOf(p) = SecondsOf(said[x])
    BY <1>9 DEF SecondsOf
  <2>. QED BY <2>1, <2>2 DEF After
<1>. QED BY <1>1, <1>2, <1>13, <1>14, SayKeeps

\* Release: the message is whole, and nobody owns the lock.
LEMMA ReleaseKeeps ==
    ASSUME IInv, NEW x \in Contexts, Release(x)
    PROVE  IInv'
<1>1. PICK e, n : /\ e = [by |-> x, message |-> Head(job[x]), pieces |-> said[x]]
                  /\ n = Len(log)
  OBVIOUS
<1>2. /\ pc[x] = "rest" /\ pc' = [pc EXCEPT ![x] = Back(x)]
      /\ Len(said[x]) - 3 = Len(Rest(Head(job[x])))
      /\ e9_mutex' = 0 /\ log' = Append(log, e)
      /\ job' = [job EXCEPT ![x] = Tail(@)] /\ said' = [said EXCEPT ![x] = <<>>]
      /\ UNCHANGED timer_ticks
  BY <1>1 DEF Release, At, Message
<1>3. Types /\ Back(x) \in {"none", "acquire", "halted"} /\ Back(x) \in PcStates
  BY DEF IInv, PcStates, Back
<1>4. pc' \in [Contexts -> PcStates] /\ pc'[x] = Back(x)
      /\ (\A y \in Contexts : y # x => pc'[y] = pc[y])
  BY <1>2, <1>3, Moves
<1>5. job' = [y \in Contexts |-> job'[y]] /\ job'[x] = Tail(job[x])
      /\ (\A y \in Contexts : y # x => job'[y] = job[y])
  BY <1>2, <1>3 DEF Types
<1>6. said' = [y \in Contexts |-> said'[y]] /\ said'[x] = <<>>
      /\ (\A y \in Contexts : y # x => said'[y] = said[y])
  BY <1>2, <1>3 DEF Types
<1>7. StageOf("rest", job[x], said[x], timer_ticks)
  BY <1>2 DEF IInv, Stages
<1>8. job[x] \in Seq(Printed) /\ job[x] # <<>> /\ IsSeq(said[x])
      /\ StampRead(said[x], timer_ticks) /\ Follows(said[x], Head(job[x]))
  BY <1>7 DEF StageOf
<1>9. Types'
  BY <1>2, <1>3, <1>4, <1>5, <1>6 DEF Types
<1>10. Stages'
  <2>1. Tail(job[x]) \in Seq(Printed) /\ (Back(x) \in {"none", "halted"} <=> Tail(job[x]) = <<>>)
    <3>1. PICK j, t : j = job[x] /\ t = Tail(j)
      OBVIOUS
    <3>2. t \in Seq(Printed) /\ Len(j) \in Nat /\ Len(j) >= 1 /\ Len(t) = Len(j) - 1
      BY <1>8, <3>1
    <3>3. Len(j) > 1 <=> t # <<>>
      BY <3>2
    <3>4. Back(x) \in {"none", "halted"} <=> ~(Len(j) > 1)
      BY <3>1 DEF Back
    <3>. QED BY <3>1, <3>2, <3>3, <3>4
  <2>2. IsSeq(<<>>) /\ Len(<<>>) = 0
    BY DEF IsSeq
  <2>3. ASSUME NEW y \in Contexts PROVE StageOf(pc'[y], job'[y], said'[y], timer_ticks)
    <3>1. CASE y # x
      <4>1. StageOf(pc[y], job[y], said[y], timer_ticks)
        BY DEF IInv, Stages
      <4>. QED BY <1>4, <1>5, <1>6, <3>1, <4>1
    <3>2. CASE y = x
      <4>1. StageOf(Back(x), Tail(job[x]), <<>>, timer_ticks)
        BY <1>3, <2>1, <2>2 DEF StageOf
      <4>. QED BY <1>4, <1>5, <1>6, <3>2, <4>1
    <3>. QED BY <3>1, <3>2
  <2>. QED BY <1>2, <2>3 DEF Stages
<1>11. Owners' = {}
  <2>1. x \in Owners /\ (\A y \in Owners : y = x)
    BY <1>2 DEF IInv, OneOwner, Owners
  <2>2. ASSUME NEW y \in Contexts PROVE pc'[y] \notin {"level", "seconds", "millis", "rest"}
    <3>1. CASE y # x
      <4>1. y \notin Owners /\ pc'[y] = pc[y]
        BY <1>4, <2>1, <3>1
      <4>. QED BY <4>1 DEF Owners
    <3>2. CASE y = x
      BY <1>3, <1>4, <3>2
    <3>. QED BY <3>1, <3>2
  <2>. QED BY <2>2 DEF Owners
<1>12. OneOwner'
  BY <1>2, <1>11 DEF OneOwner
<1>13. IsSeq(log') /\ Len(log') = n + 1 /\ log'[n + 1] = e /\ (\A i \in 1..n : log'[i] = log[i])
       /\ n \in Nat
  <2>1. IsSeq(log) /\ n \in Nat
    BY <1>1 DEF IInv, Logged, IsSeq
  <2>. QED BY <1>1, <1>2, <2>1, AppendIs
<1>14. e.message = Head(job[x]) /\ e.pieces = said[x]
  BY <1>1
<1>15. Whole(e, timer_ticks)
  <2>1. Head(job[x]) \in Printed
    BY <1>8
  <2>2. Len(said[x]) = 3 + Len(Rest(Head(job[x])))
    <3>1. Len(Rest(Head(job[x]))) \in Nat
      BY <2>1, RestLength
    <3>2. Len(said[x]) \in Nat
      BY <1>8 DEF IsSeq
    <3>. QED BY <1>2, <3>1, <3>2
  <2>. QED BY <1>8, <1>14, <2>1, <2>2 DEF Whole
<1>16. Logged'
  <2>1. ASSUME NEW i \in 1..(n + 1) PROVE Whole(log'[i], timer_ticks)
    <3>1. CASE i \in 1..n
      <4>1. Whole(log[i], timer_ticks)
        BY <1>1, <3>1 DEF IInv, Logged
      <4>. QED BY <1>13, <3>1, <4>1
    <3>2. CASE i = n + 1
      BY <1>13, <1>15, <3>2
    <3>. QED BY <1>13, <3>1, <3>2
  <2>. QED BY <1>2, <1>13, <2>1 DEF Logged
<1>17. Ordered'
  <2>1. ASSUME NEW i \in 1..(n + 1), NEW j \in 1..(n + 1), i <= j
        PROVE  SecondsOf(log'[i].pieces) <= SecondsOf(log'[j].pieces)
    <3>1. CASE j \in 1..n
      <4>1. i \in 1..n
        BY <1>13, <2>1, <3>1
      <4>2. SecondsOf(log[i].pieces) <= SecondsOf(log[j].pieces)
        BY <1>1, <2>1, <3>1, <4>1 DEF IInv, Ordered
      <4>. QED BY <1>13, <3>1, <4>1, <4>2
    <3>2. CASE j = n + 1 /\ i \in 1..n
      <4>1. After(said[x])
        BY <1>2 DEF IInv, Ordered
      <4>2. SecondsOf(log[i].pieces) <= SecondsOf(said[x])
        BY <1>1, <3>2, <4>1 DEF After
      <4>. QED BY <1>13, <1>14, <3>2, <4>2
    <3>3. CASE j = n + 1 /\ i = n + 1
      <4>1. timer_ticks \in Nat /\ timer_ticks <= MaxTicks
        BY <1>3, Now
      <4>2. SecondsOf(e.pieces) \in Nat
        BY <1>8, <1>14, <4>1, StampShows
      <4>3. SecondsOf(e.pieces) <= SecondsOf(e.pieces)
        BY <4>2
      <4>. QED BY <1>13, <3>3, <4>3
    <3>. QED BY <1>13, <3>1, <3>2, <3>3
  <2>2. \A y \in Contexts : ~(pc'[y] \in {"millis", "rest"})
    BY <1>11 DEF Owners
  <2>. QED BY <1>13, <2>1, <2>2 DEF Ordered
<1>. QED BY <1>9, <1>10, <1>12, <1>16, <1>17 DEF IInv

\* A step of debug_vprintf.
LEMMA VprintfKeeps ==
    ASSUME IInv, NEW x \in Contexts, Vprintf(x)
    PROVE  IInv'
BY AcquireKeeps, SayLevelKeeps, SaySecondsKeeps, SayMillisKeeps, SayRestKeeps, ReleaseKeeps
   DEF Vprintf

\* Whoever may begin to print.
LEMMA StartKeeps ==
    ASSUME IInv,
           \/ \E x \in Contexts : debug_printf(x)
           \/ \E c \in Cpus : Spurious(c) \/ Exception(c)
    PROVE  IInv'
<1>1. ASSUME NEW m \in Messages PROVE <<m>> \in Seq(Printed) /\ <<m>> # <<>>
  <2>1. m \in Printed
    BY DEF Printed
  <2>. QED BY <2>1
<1>2. ASSUME NEW x \in Contexts, debug_printf(x) PROVE IInv'
  <2>1. PICK m \in Messages : Begin(x, <<m>>)
    BY <1>2 DEF debug_printf
  <2>2. pc[x] = "none" /\ UNCHANGED <<e9_mutex, timer_ticks, said, log>>
    BY <1>2 DEF debug_printf
  <2>. QED BY <1>1, <2>1, <2>2, BeginKeeps
<1>3. ASSUME NEW c \in Cpus, Spurious(c) PROVE IInv'
  <2>1. PICK m \in Messages : Begin(Irq(c), <<m>>)
    BY <1>3 DEF Spurious
  <2>2. pc[Irq(c)] = "none" /\ UNCHANGED <<e9_mutex, timer_ticks, said, log>>
    BY <1>3 DEF Spurious
  <2>3. Irq(c) \in Contexts
    BY DEF Contexts, Handlers
  <2>. QED BY <1>1, <2>1, <2>2, <2>3, BeginKeeps
<1>4. ASSUME NEW c \in Cpus, Exception(c) PROVE IInv'
  <2>1. PICK r \in Reports : Begin(Exc(c), r)
    BY <1>4 DEF Exception
  <2>2. pc[Exc(c)] = "none" /\ UNCHANGED <<e9_mutex, timer_ticks, said, log>>
    BY <1>4 DEF Exception
  <2>3. Exc(c) \in Contexts
    BY DEF Contexts, Handlers
  <2>4. r \in Seq(Printed) /\ r # <<>>
    BY MessageAssumption DEF MessageAssumption
  <2>. QED BY <2>1, <2>2, <2>3, <2>4, BeginKeeps
<1>. QED BY <1>2, <1>3, <1>4

\* A step of kmain.
LEMMA BootKeeps ==
    ASSUME IInv, BootStep
    PROVE  IInv'
<1>1. CASE ClearScreen \/ InstallIdt \/ SetupBuffer \/ SchedInit
  <2>1. UNCHANGED seen
    BY <1>1 DEF ClearScreen, InstallIdt, SetupBuffer, SchedInit, Kmain, seen
  <2>. QED BY <2>1, Unseen
<1>2. CASE SetupBufferFails
  <2>1. PICK m \in Printed : Begin(Boot, <<m>>)
    BY <1>2 DEF SetupBufferFails
  <2>2. pc[Boot] = "none" /\ UNCHANGED <<e9_mutex, timer_ticks, said, log>>
    BY <1>2 DEF SetupBufferFails, Kmain
  <2>3. Boot \in Contexts
    BY DEF Contexts, Tasks
  <2>4. <<m>> \in Seq(Printed) /\ <<m>> # <<>>
    BY <2>1
  <2>. QED BY <2>1, <2>2, <2>3, <2>4, BeginKeeps
<1>. QED BY <1>1, <1>2 DEF BootStep

-----------------------------------------------------------------------------
(* The cursor and the colours.                                             *)

\* A screen with its fields, whatever the cursor.
IsScreen(s) ==
    s = [x |-> s.x, y |-> s.y, fg |-> s.fg, bg |-> s.bg,
         using_back_buffer |-> s.using_back_buffer, front |-> s.front, back |-> s.back]

\* The cursor is on the screen, and the colours are in the palette.
OnScreen(s) ==
    /\ IsScreen(s)
    /\ s.x \in 0..(Columns - 1) /\ s.y \in 0..(Rows - 1)
    /\ s.fg \in ansi_colors /\ s.bg \in ansi_colors \cup {background}

\* Drawing leaves both alone.
LEMMA DrawLeaves ==
    ASSUME NEW s, IsScreen(s), NEW cells
    PROVE  /\ IsScreen(Draw(s, cells))
           /\ Draw(s, cells).x = s.x /\ Draw(s, cells).y = s.y
           /\ Draw(s, cells).fg = s.fg /\ Draw(s, cells).bg = s.bg
BY DEF IsScreen, Draw

\* So does showing.
LEMMA RedrawLeaves ==
    ASSUME NEW s, IsScreen(s)
    PROVE  /\ IsScreen(redraw(s))
           /\ redraw(s).x = s.x /\ redraw(s).y = s.y
           /\ redraw(s).fg = s.fg /\ redraw(s).bg = s.bg
BY DEF IsScreen, redraw

\* u is s with the cursor at (a, b).
Moved(s, u, a, b) == IsScreen(u) /\ u.x = a /\ u.y = b /\ u.fg = s.fg /\ u.bg = s.bg

\* Moving the cursor.
LEMMA MoveLeaves ==
    ASSUME NEW s, IsScreen(s), NEW a, NEW b, NEW u, u = [s EXCEPT !.x = a, !.y = b]
    PROVE  Moved(s, u, a, b)
<1>1. PICK v : v = [s EXCEPT !.x = a]
  OBVIOUS
<1>2. IsScreen(v) /\ v.x = a /\ v.fg = s.fg /\ v.bg = s.bg
  BY <1>1 DEF IsScreen
<1>3. u = [v EXCEPT !.y = b]
  BY <1>1
<1>. QED BY <1>2, <1>3 DEF IsScreen, Moved

\* There is room for a cursor.
LEMMA Room == Rows \in Nat \ {0} /\ Columns \in Nat \ {0}
BY ConsoleAssumption DEF ConsoleAssumption

\* clear_screen leaves the cursor.
LEMMA ClearOnScreen ==
    ASSUME NEW s, OnScreen(s), NEW color
    PROVE  OnScreen(clear_screen(s, color))
<1>1. PICK cells : cells = [p \in Position |-> Blank(color)]
  OBVIOUS
<1>2. PICK t : t = Draw(s, cells)
  OBVIOUS
<1>3. IsScreen(t) /\ t.x = s.x /\ t.y = s.y /\ t.fg = s.fg /\ t.bg = s.bg
  BY <1>2, DrawLeaves DEF OnScreen
<1>4. PICK u : u = redraw(t)
  OBVIOUS
<1>5. IsScreen(u) /\ u.x = t.x /\ u.y = t.y /\ u.fg = t.fg /\ u.bg = t.bg
  BY <1>3, <1>4, RedrawLeaves
<1>6. clear_screen(s, color) = u
  BY <1>1, <1>2, <1>4 DEF clear_screen
<1>. QED BY <1>3, <1>5, <1>6 DEF OnScreen

\* scroll puts the cursor at the beginning of the last line.
LEMMA ScrollOnScreen ==
    ASSUME NEW s, IsScreen(s),
           s.fg \in ansi_colors /\ s.bg \in ansi_colors \cup {background}
    PROVE  OnScreen(scroll(s))
<1>1. PICK cells : cells = [p \in Position |-> IF p[1] = Rows - 1 THEN Blank(s.bg)
                                               ELSE Canvas(s)[<<p[1] + 1, p[2]>>]]
  OBVIOUS
<1>2. PICK t : t = Draw(s, cells)
  OBVIOUS
<1>3. IsScreen(t) /\ t.fg = s.fg /\ t.bg = s.bg
  BY <1>2, DrawLeaves
<1>4. PICK u : u = [t EXCEPT !.x = 0, !.y = Rows - 1]
  OBVIOUS
<1>5. IsScreen(u) /\ u.x = 0 /\ u.y = Rows - 1 /\ u.fg = t.fg /\ u.bg = t.bg
  <2>1. PICK a, b : a = 0 /\ b = Rows - 1
    OBVIOUS
  <2>2. Moved(t, u, a, b)
    BY <1>3, <1>4, <2>1, MoveLeaves
  <2>. QED BY <2>1, <2>2 DEF Moved
<1>6. PICK v : v = redraw(u)
  OBVIOUS
<1>7. IsScreen(v) /\ v.x = u.x /\ v.y = u.y /\ v.fg = u.fg /\ v.bg = u.bg
  BY <1>5, <1>6, RedrawLeaves
<1>8. scroll(s) = v
  BY <1>1, <1>2, <1>4, <1>6 DEF scroll
<1>9. 0 \in 0..(Columns - 1) /\ Rows - 1 \in 0..(Rows - 1)
  BY Room
<1>. QED BY <1>3, <1>5, <1>7, <1>8, <1>9 DEF OnScreen

\* The next line: scroll, if there is none.
LEMMA NextLineOnScreen ==
    ASSUME NEW s, OnScreen(s), NEW t, IsScreen(t), t.fg = s.fg, t.bg = s.bg,
           t.x = 0, t.y = s.y + 1
    PROVE  IF t.y > Rows - 1 THEN OnScreen(scroll(t)) ELSE OnScreen(t)
<1>1. CASE t.y > Rows - 1
  BY <1>1, ScrollOnScreen DEF OnScreen
<1>2. CASE ~(t.y > Rows - 1)
  <2>1. t.y \in 0..(Rows - 1) /\ t.x \in 0..(Columns - 1)
    BY <1>2, Room DEF OnScreen
  <2>. QED BY <1>2, <2>1 DEF OnScreen
<1>. QED BY <1>1, <1>2

\* A line feed.
LEMMA NewlineOnScreen ==
    ASSUME NEW s, OnScreen(s)
    PROVE  OnScreen(Newline(s))
<1>1. PICK t : t = [s EXCEPT !.x = 0, !.y = s.y + 1]
  OBVIOUS
<1>2. IsScreen(t) /\ t.x = 0 /\ t.y = s.y + 1 /\ t.fg = s.fg /\ t.bg = s.bg
  <2>1. PICK a, b : a = 0 /\ b = s.y + 1
    OBVIOUS
  <2>2. IsScreen(s) /\ t = [s EXCEPT !.x = a, !.y = b]
    BY <1>1, <2>1 DEF OnScreen
  <2>3. Moved(s, t, a, b)
    BY <2>2, MoveLeaves
  <2>. QED BY <2>1, <2>3 DEF Moved
<1>3. IF t.y > Rows - 1 THEN OnScreen(scroll(t)) ELSE OnScreen(t)
  BY <1>2, NextLineOnScreen
<1>4. OnScreen(t) => OnScreen(redraw(t))
  BY <1>2, RedrawLeaves DEF OnScreen
<1>5. Newline(s) = IF t.y > Rows - 1 THEN scroll(t) ELSE redraw(t)
  BY <1>1 DEF Newline
<1>. QED BY <1>3, <1>4, <1>5

\* A character, and the wrap.
LEMMA DrawCharOnScreen ==
    ASSUME NEW s, OnScreen(s), NEW c
    PROVE  OnScreen(DrawChar(s, c))
<1>1. PICK cells : cells = [Canvas(s) EXCEPT ![<<s.y, s.x>>] =
                              IF c = Space THEN Blank(s.bg) ELSE Cell(c, s.fg, s.bg)]
  OBVIOUS
<1>2. PICK d : d = Draw(s, cells)
  OBVIOUS
<1>3. IsScreen(d) /\ d.x = s.x /\ d.y = s.y /\ d.fg = s.fg /\ d.bg = s.bg
  BY <1>2, DrawLeaves DEF OnScreen
<1>4. PICK t : t = [d EXCEPT !.x = d.x + 1]
  OBVIOUS
<1>5. IsScreen(t) /\ t.x = s.x + 1 /\ t.y = s.y /\ t.fg = s.fg /\ t.bg = s.bg
  BY <1>3, <1>4 DEF IsScreen
<1>6. PICK u : u = [t EXCEPT !.x = 0, !.y = t.y + 1]
  OBVIOUS
<1>7. IsScreen(u) /\ u.x = 0 /\ u.y = s.y + 1 /\ u.fg = s.fg /\ u.bg = s.bg
  <2>1. PICK a, b : a = 0 /\ b = t.y + 1
    OBVIOUS
  <2>2. u = [t EXCEPT !.x = a, !.y = b]
    BY <1>6, <2>1
  <2>3. Moved(t, u, a, b)
    BY <1>5, <2>2, MoveLeaves
  <2>. QED BY <1>5, <2>1, <2>3 DEF Moved
<1>8. DrawChar(s, c) = IF t.x <= Columns - 1 THEN t
                       ELSE IF u.y > Rows - 1 THEN scroll(u) ELSE u
  BY <1>1, <1>2, <1>4, <1>6 DEF DrawChar
<1>9. t.x <= Columns - 1 => OnScreen(t)
  <2>1. t.x <= Columns - 1 => t.x \in 0..(Columns - 1)
    BY <1>5, Room DEF OnScreen
  <2>. QED BY <1>5, <2>1 DEF OnScreen
<1>10. IF u.y > Rows - 1 THEN OnScreen(scroll(u)) ELSE OnScreen(u)
  BY <1>7, NextLineOnScreen
<1>. QED BY <1>8, <1>9, <1>10

\* Any character, control characters included.
LEMMA PutcOnScreen ==
    ASSUME NEW s, OnScreen(s), NEW c
    PROVE  OnScreen(putc(s, c))
<1>1. OnScreen([s EXCEPT !.x = 0])
  <2>1. PICK t : t = [s EXCEPT !.x = 0]
    OBVIOUS
  <2>2. IsScreen(t) /\ t.x = 0 /\ t.y = s.y /\ t.fg = s.fg /\ t.bg = s.bg
    BY <2>1 DEF IsScreen, OnScreen
  <2>3. 0 \in 0..(Columns - 1)
    BY Room
  <2>. QED BY <2>1, <2>2, <2>3 DEF OnScreen
<1>2. ASSUME NEW n PROVE OnScreen(parse_escape_sequence(s, n))
  <2>1. PICK t : t = parse_escape_sequence(s, n)
    OBVIOUS
  <2>2. IsScreen(t) /\ t.x = s.x /\ t.y = s.y
    BY <2>1 DEF parse_escape_sequence, OnScreen, IsScreen
  <2>3. t.fg \in ansi_colors
    <3>1. t.fg = 7 \/ t.fg = s.fg \/ (n \in 30..37 /\ t.fg = n - 30)
      BY <2>1 DEF parse_escape_sequence, OnScreen, IsScreen
    <3>. QED BY <3>1 DEF OnScreen, ansi_colors
  <2>4. t.bg \in ansi_colors \cup {background}
    <3>1. t.bg = background \/ t.bg = s.bg \/ (n \in 40..47 /\ t.bg = n - 40)
      BY <2>1 DEF parse_escape_sequence, OnScreen, IsScreen
    <3>. QED BY <3>1 DEF OnScreen, ansi_colors
  <2>. QED BY <2>1, <2>2, <2>3, <2>4 DEF OnScreen
<1>3. OnScreen(Newline(s)) /\ OnScreen(DrawChar(s, c))
  BY NewlineOnScreen, DrawCharOnScreen
<1>. QED BY <1>1, <1>2, <1>3 DEF putc

\* The recursion of debug_puts.
PutsTo(s, text, n, f) == f = [i \in 0..n |-> IF i = 0 THEN s ELSE putc(f[i - 1], text[i])]

\* It has a solution.
LEMMA PutsExist ==
    ASSUME NEW s, NEW text
    PROVE  \A n \in Nat : \E f : PutsTo(s, text, n, f)
<1>. DEFINE S == {n \in Nat : \E f : PutsTo(s, text, n, f)}
<1>1. 0 \in S
  <2>1. PutsTo(s, text, 0, [i \in 0..0 |-> s])
    BY DEF PutsTo
  <2>. QED BY <2>1
<1>2. ASSUME NEW n \in S PROVE n + 1 \in S
  <2>1. PICK f : PutsTo(s, text, n, f)
    OBVIOUS
  <2>2. n \in Nat /\ n + 1 \in Nat
    OBVIOUS
  <2>3. PICK last : last = putc(f[n], text[n + 1])
    OBVIOUS
  <2>4. PICK g : g = [i \in 0..(n + 1) |-> IF i <= n THEN f[i] ELSE last]
    OBVIOUS
  <2>5. ASSUME NEW i \in 0..(n + 1) PROVE g[i] = IF i = 0 THEN s ELSE putc(g[i - 1], text[i])
    <3>1. CASE i <= n
      <4>1. i \in 0..n /\ g[i] = f[i]
        BY <2>2, <2>4, <3>1
      <4>2. f[i] = IF i = 0 THEN s ELSE putc(f[i - 1], text[i])
        BY <2>1, <4>1 DEF PutsTo
      <4>3. i # 0 => g[i - 1] = f[i - 1]
        BY <2>2, <2>4, <4>1
      <4>. QED BY <4>1, <4>2, <4>3
    <3>2. CASE i = n + 1
      <4>1. ~(i <= n) /\ i - 1 = n /\ n \in 0..(n + 1) /\ i # 0 /\ n <= n
        BY <2>2, <3>2
      <4>2. g[n] = f[n] /\ g[i] = last
        BY <2>4, <4>1
      <4>. QED BY <2>3, <3>2, <4>1, <4>2
    <3>. QED BY <2>2, <3>1, <3>2
  <2>6. PutsTo(s, text, n + 1, g)
    BY <2>4, <2>5 DEF PutsTo
  <2>. QED BY <2>2, <2>6
<1>. HIDE DEF S
<1>3. S \in SUBSET Nat
  BY DEF S
<1>4. \A n \in Nat : n \in S
  BY <1>1, <1>2, <1>3, SetInduction
<1>. QED BY <1>4 DEF S

\* A text of any length and any characters leaves the cursor on the screen.
LEMMA PutsOnScreen ==
    ASSUME NEW s, OnScreen(s), NEW text, Len(text) \in Nat
    PROVE  OnScreen(debug_puts(s, text))
<1>1. PICK n : n = Len(text)
  OBVIOUS
<1>2. PICK f : f = CHOOSE h : PutsTo(s, text, n, h)
  OBVIOUS
<1>3. PutsTo(s, text, n, f)
  <2>1. \E h : PutsTo(s, text, n, h)
    BY <1>1, PutsExist
  <2>. QED BY <1>2, <2>1
<1>4. debug_puts(s, text) = (CHOOSE h : PutsTo(s, text, Len(text), h))[Len(text)]
  BY DEF debug_puts, PutsTo
<1>. DEFINE S == {i \in Nat : i <= n => OnScreen(f[i])}
<1>5. 0 \in S
  <2>1. f[0] = s
    BY <1>1, <1>3 DEF PutsTo
  <2>. QED BY <2>1
<1>6. ASSUME NEW i \in S, i + 1 <= n PROVE OnScreen(f[i + 1])
  <2>1. i \in Nat /\ OnScreen(f[i])
    BY <1>1, <1>6
  <2>2. PICK j : j = i + 1
    OBVIOUS
  <2>3. j \in 0..n /\ j # 0 /\ j - 1 = i
    BY <1>1, <1>6, <2>1, <2>2
  <2>4. f[j] = putc(f[j - 1], text[j])
    BY <1>3, <2>3 DEF PutsTo
  <2>5. OnScreen(putc(f[i], text[j]))
    BY <2>1, PutcOnScreen
  <2>. QED BY <2>2, <2>3, <2>4, <2>5
<1>7. S \in SUBSET Nat /\ \A i \in S : i + 1 \in S
  BY <1>6
<1>. HIDE DEF S
<1>8. n \in S
  BY <1>1, <1>5, <1>7, SetInduction
<1>9. n <= n
  BY <1>1
<1>10. OnScreen(f[n])
  BY <1>8, <1>9 DEF S
<1>. QED BY <1>1, <1>2, <1>4, <1>10

\* What a piece of a format string prints has an end.
LEMMA ExpandLength ==
    ASSUME NEW p, IsPiece(p)
    PROVE  Len(Expand(p)) \in Nat
<1>1. CASE p.conv = "text"
  BY <1>1 DEF Expand, IsPiece
<1>2. CASE p.conv # "text"
  <2>1. PICK v, w, c : v = p.val /\ w = p.width /\ c = p.fill
    OBVIOUS
  <2>2. v \in Int /\ w \in Nat /\ c \in {Space, Zero}
    BY <1>2, <2>1 DEF IsPiece
  <2>3. PICK r : r = IF p.conv \in {"d", "ld"} THEN 10 ELSE 16
    OBVIOUS
  <2>4. r \in Radix
    BY <2>3 DEF Radix
  <2>5. PICK s : s = IF p.conv \in {"d", "x", "X"} THEN itoa(v, r) ELSE ltoa(v, r)
    OBVIOUS
  <2>6. ASSUME NEW n \in Nat, s = Digits(n, r) PROVE SameNumber(s, pad(s, w, c), w, r)
    <3>1. s \in Seq(DigitCodes) /\ Len(s) >= 1
      BY <2>4, <2>6, DigitsRead
    <3>. QED BY <2>2, <2>4, <3>1, PadUnsigned
  <2>7. SameNumber(s, pad(s, w, c), w, r)
    <3>1. CASE p.conv \in {"d", "x", "X"}
      <4>1. PICK n : n = v % Power(2, IntBits)
        OBVIOUS
      <4>2. n \in Nat /\ itoa(v, r) = Digits(n, r)
        BY <2>2, <2>4, <4>1, ItoaWrapped
      <4>. QED BY <2>5, <2>6, <3>1, <4>2
    <3>2. CASE ~(p.conv \in {"d", "x", "X"}) /\ v < 0 /\ r = 10
      <4>1. PICK ds : ds = Digits(-v, r)
        OBVIOUS
      <4>2. -v \in Nat
        BY <2>2, <3>2
      <4>3. ds \in Seq(DigitCodes)
        BY <2>4, <4>1, <4>2, DigitsRead
      <4>4. s = <<Minus>> \o ds
        BY <2>5, <3>2, <4>1 DEF ltoa
      <4>. QED BY <2>2, <2>4, <4>3, <4>4, PadSigned
    <3>3. CASE ~(p.conv \in {"d", "x", "X"}) /\ ~(v < 0 /\ r = 10)
      <4>1. PICK n : n = v % Power(2, LongBits)
        OBVIOUS
      <4>2. n \in Nat
        BY <2>2, <4>1, LtoaWrapped
      <4>3. s = Digits(n, r)
        BY <2>5, <3>3, <4>1 DEF ltoa
      <4>. QED BY <2>6, <4>2, <4>3
    <3>. QED BY <3>1, <3>2, <3>3
  <2>8. PICK t : t = pad(s, w, c)
    OBVIOUS
  <2>9. t \in Seq(Glyphs)
    BY <2>7, <2>8 DEF SameNumber
  <2>10. Len(lowercase(t)) \in Nat /\ Len(t) \in Nat
    BY <2>4, <2>9, LowercaseSame
  <2>11. Expand(p) = t \/ Expand(p) = lowercase(t)
    BY <1>2, <2>1, <2>3, <2>5, <2>8 DEF Expand
  <2>. QED BY <2>10, <2>11
<1>. QED BY <1>1, <1>2

\* ...and so has everything behind the time stamp.
LEMMA RestTexts ==
    ASSUME NEW m \in Printed, NEW k \in 1..Len(Rest(m))
    PROVE  Len(Rest(m)[k]) \in Nat
<1>1. PICK tag, n : tag = (IF m.module = 0 THEN 0 ELSE 1) /\ n = Len(m.body)
  OBVIOUS
<1>2. tag \in Nat
  BY <1>1
<1>3. n \in Nat /\ Len(Rest(m)) = n + tag
  BY <1>1, <1>2, RestIs
<1>4. CASE k > tag
  <2>1. PICK j : j = k - tag
    OBVIOUS
  <2>2. j \in 1..n /\ k = j + tag
    BY <1>2, <1>3, <1>4, <2>1
  <2>3. IsPiece(m.body[j]) /\ Rest(m)[j + tag] = Expand(m.body[j])
    BY <1>1, <1>2, <2>2, RestIs
  <2>4. Len(Expand(m.body[j])) \in Nat
    BY <2>3, ExpandLength
  <2>. QED BY <2>2, <2>3, <2>4
<1>5. CASE ~(k > tag)
  <2>1. k = 1 /\ tag = 1 /\ m.module # 0
    BY <1>1, <1>3, <1>5
  <2>2. PICK a, s : a = <<Esc(35), m.module, Esc(0)>> /\ s = [i \in 1..n |-> Expand(m.body[i])]
    OBVIOUS
  <2>3. DOMAIN m.body = 1..n
    BY <1>1, MessageAssumption DEF MessageAssumption
  <2>4. Rest(m) = <<a>> \o s
    BY <2>1, <2>2, <2>3 DEF Rest
  <2>5. PICK T : T = {s[i] : i \in 1..n} \cup {a}
    OBVIOUS
  <2>6. s \in Seq(T) /\ <<a>> \in Seq(T) /\ Len(<<a>>) = 1 /\ Len(s) \in Nat
    <3>1. \A i \in 1..n : s[i] \in T
      BY <2>5
    <3>2. s \in [1..n -> T]
      BY <2>2, <3>1
    <3>. QED BY <1>3, <2>5, <3>2
  <2>7. (<<a>> \o s)[1] = a
    BY <2>6
  <2>8. Len(a) = 3
    BY <2>2
  <2>. QED BY <2>1, <2>4, <2>7, <2>8
<1>. QED BY <1>4, <1>5

\* A piece that a step prints has an end.
LEMMA SaysText ==
    ASSUME IInv, NEW x \in Contexts, Vprintf(x), Len(said'[x]) > Len(said[x])
    PROVE  Len(Last(said'[x])) \in Nat
<1>1. Types /\ IsSeq(said[x]) /\ Len(said[x]) \in Nat
  BY DEF IInv, Stages, StageOf, IsSeq
<1>2. ASSUME NEW text, Say(x, text), Len(text) \in Nat PROVE Len(Last(said'[x])) \in Nat
  <2>1. PICK s, p : s = said[x] /\ p = Append(s, text)
    OBVIOUS
  <2>2. said'[x] = p
    BY <1>1, <1>2, <2>1 DEF Say, Types
  <2>3. IsSeq(s) /\ Len(p) = Len(s) + 1 /\ p[Len(s) + 1] = text
    BY <1>1, <2>1, AppendIs
  <2>4. Last(p) = text
    BY <2>3 DEF Last
  <2>. QED BY <1>2, <2>2, <2>4
<1>3. CASE Acquire(x)
  <2>1. said'[x] = said[x]
    BY <1>3 DEF Acquire
  <2>. QED BY <1>1, <2>1
<1>4. CASE Release(x)
  <2>1. said'[x] = <<>>
    BY <1>1, <1>4 DEF Release, Types
  <2>2. Len(said'[x]) = 0
    BY <2>1
  <2>. QED BY <1>1, <2>2
<1>5. CASE SayLevel(x)
  <2>1. PICK text : text = <<Esc(0), Esc(1), Esc(Level(Message(x)))>>
    OBVIOUS
  <2>2. Len(text) = 3
    BY <2>1
  <2>3. Say(x, text) /\ Len(text) \in Nat
    BY <1>5, <2>1, <2>2 DEF SayLevel
  <2>. QED BY <1>2, <2>3
<1>6. timer_ticks \in Nat /\ timer_ticks <= MaxTicks
  BY <1>1, Now
<1>7. CASE SaySeconds(x)
  <2>1. PICK n : n = timer_ticks \div TIMER_FREQUENCY
    OBVIOUS
  <2>2. n \in Nat /\ n <= timer_ticks
    <3>1. PICK r, k : r = TIMER_FREQUENCY /\ k = timer_ticks % r
      OBVIOUS
    <3>2. r \in Nat \ {0}
      BY <3>1, Frequency
    <3>3. n \in Nat /\ k \in 0..(r - 1) /\ timer_ticks = n * r + k
      BY <1>6, <2>1, <3>1, <3>2, Division
    <3>4. n <= n * r /\ n * r \in Nat
      BY <3>2, <3>3
    <3>. QED BY <3>2, <3>3, <3>4
  <2>3. PICK w, c : w = SecondsWidth /\ c = Space
    OBVIOUS
  <2>4. w \in Nat /\ c \in {Space, Zero}
    BY <2>3, ConsoleAssumption DEF ConsoleAssumption
  <2>5. ShowsPlain(pad(ltoa(n, 10), w, c), n, w, 10)
    BY <1>6, <2>2, <2>4, ClockShows
  <2>6. Len(Seconds) \in Nat
    BY <2>1, <2>3, <2>5 DEF ShowsPlain, Seconds
  <2>7. Say(x, Seconds)
    BY <1>7 DEF SaySeconds
  <2>. QED BY <1>2, <2>6, <2>7
<1>8. CASE SayMillis(x)
  <2>1. PICK s, c, text : s = Millis /\ c = <<Esc(0)>> /\ text = s \o c
    OBVIOUS
  <2>2. s \in Seq(Glyphs)
    BY <1>6, <2>1, MillisShow DEF Millis, MillisAt
  <2>3. PICK T : T = Glyphs \cup {Esc(0)}
    OBVIOUS
  <2>4. s \in Seq(T) /\ c \in Seq(T)
    <3>1. Glyphs \subseteq T /\ Esc(0) \in T
      BY <2>3
    <3>2. Seq(Glyphs) \subseteq Seq(T)
      BY <3>1
    <3>. QED BY <2>1, <2>2, <3>1, <3>2
  <2>5. text \in Seq(T)
    BY <2>1, <2>4
  <2>6. Len(text) \in Nat
    BY <2>5
  <2>7. Say(x, text)
    BY <1>8, <2>1 DEF SayMillis
  <2>. QED BY <1>2, <2>6, <2>7
<1>9. CASE SayRest(x)
  <2>1. PICK m, n, text : m = Head(job[x]) /\ n = Len(said[x]) /\ text = Rest(m)[n - 2]
    OBVIOUS
  <2>2. pc[x] = "rest" /\ n - 3 < Len(Rest(m)) /\ Say(x, text)
    BY <1>9, <2>1 DEF SayRest, At, Message
  <2>3. StageOf("rest", job[x], said[x], timer_ticks)
    BY <2>2 DEF IInv, Stages
  <2>4. n \in 3..(3 + Len(Rest(m))) /\ job[x] \in Seq(Printed) /\ job[x] # <<>>
    BY <2>1, <2>3 DEF StageOf
  <2>5. m \in Printed
    BY <2>1, <2>4
  <2>6. n - 2 \in 1..Len(Rest(m))
    <3>1. PICK l : l = Len(Rest(m))
      OBVIOUS
    <3>2. l \in Nat /\ n \in 3..(3 + l) /\ n - 3 < l
      BY <2>2, <2>4, <2>5, <3>1, RestLength
    <3>. QED BY <3>1, <3>2
  <2>7. Len(text) \in Nat
    BY <2>1, <2>5, <2>6, RestTexts
  <2>. QED BY <1>2, <2>2, <2>7
<1>. QED BY <1>3, <1>4, <1>5, <1>7, <1>8, <1>9 DEF Vprintf

\* What TypeOK adds to IInv.
Drawn == task \in Tasks /\ OnScreen(screen)

-----------------------------------------------------------------------------
(* Theorems.                                                               *)

\* Inductive: IInv is an invariant of debug_vprintf and everything that calls
\* it, for any numbers of threads, CPUs and messages.
THEOREM Inductive == Spec => []IInv
<1>1. ASSUME IInv, [Next]_vars PROVE IInv'
  <2>1. CASE \E x \in Contexts : Vprintf(x)
    BY <1>1, <2>1, VprintfKeeps
  <2>2. CASE \/ \E x \in Contexts : debug_printf(x)
             \/ \E c \in Cpus : Spurious(c) \/ Exception(c)
    BY <1>1, <2>2, StartKeeps
  <2>3. CASE Timer
    BY <1>1, <2>3, TimerKeeps
  <2>4. CASE BootStep
    BY <1>1, <2>4, BootKeeps
  <2>5. CASE UNCHANGED vars
    <3>1. UNCHANGED seen
      BY <2>5 DEF vars, seen
    <3>. QED BY <1>1, <3>1, Unseen
  <2>. QED BY <1>1, <2>1, <2>2, <2>3, <2>4, <2>5 DEF Next
<1>. QED BY <1>1, InitIInv, PTL DEF Spec

\* TypeCorrect: TypeOK. In particular putc, whatever the text, its length and
\* the escape sequences in it, never leaves the cursor off the screen, where
\* the next character would be drawn outside the framebuffer.
THEOREM TypeCorrect == Spec => []TypeOK
<1>1. ASSUME Init PROVE Drawn
  <2>1. IsScreen(screen) /\ screen.x = 0 /\ screen.y = 0 /\ screen.fg = 7 /\ screen.bg = 0
    BY <1>1 DEF Init, IsScreen
  <2>2. OnScreen(screen)
    BY <2>1, Room DEF OnScreen, ansi_colors
  <2>3. task \in Tasks
    BY <1>1 DEF Init, Tasks
  <2>. QED BY <2>2, <2>3 DEF Drawn
<1>2. ASSUME IInv, Drawn, [Next]_vars PROVE Drawn'
  <2>1. ASSUME NEW x \in Contexts, Vprintf(x), Display(x) PROVE Drawn'
    <3>1. task' = task
      BY <2>1 DEF Vprintf, Acquire, SayLevel, SaySeconds, SayMillis, SayRest, Release, Say
    <3>2. CASE Len(said'[x]) > Len(said[x])
      <4>1. Len(Last(said'[x])) \in Nat
        BY <1>2, <2>1, <3>2, SaysText
      <4>2. OnScreen(debug_puts(screen, Last(said'[x])))
        BY <1>2, <4>1, PutsOnScreen DEF Drawn
      <4>3. screen' = debug_puts(screen, Last(said'[x]))
        BY <2>1, <3>2 DEF Display
      <4>. QED BY <1>2, <3>1, <4>2, <4>3 DEF Drawn
    <3>3. CASE ~(Len(said'[x]) > Len(said[x]))
      <4>1. screen' = screen
        BY <2>1, <3>3 DEF Display
      <4>. QED BY <1>2, <3>1, <4>1 DEF Drawn
    <3>. QED BY <3>2, <3>3
  <2>2. CASE \/ \E x \in Contexts : debug_printf(x)
             \/ \E c \in Cpus : Spurious(c) \/ Exception(c)
    <3>1. UNCHANGED <<screen, task>>
      BY <2>2 DEF debug_printf, Spurious, Exception
    <3>. QED BY <1>2, <3>1 DEF Drawn
  <2>3. CASE Timer
    <3>1. task' \in Tasks /\ screen' = screen
      BY <1>2, <2>3 DEF Timer, Tasks, Drawn
    <3>. QED BY <1>2, <3>1 DEF Drawn
  <2>4. CASE ClearScreen
    <3>1. task' = task /\ screen' = clear_screen(screen, background)
      BY <2>4 DEF ClearScreen, Kmain
    <3>. QED BY <1>2, <3>1, ClearOnScreen DEF Drawn
  <2>5. CASE InstallIdt \/ SetupBufferFails \/ SchedInit
    <3>1. UNCHANGED <<screen, task>>
      BY <2>5 DEF InstallIdt, SetupBufferFails, SchedInit, Kmain
    <3>. QED BY <1>2, <3>1 DEF Drawn
  <2>6. CASE SetupBuffer
    <3>1. PICK s : s = [screen EXCEPT !.back = screen.front, !.using_back_buffer = TRUE]
      OBVIOUS
    <3>2. PICK t : t = [screen EXCEPT !.back = screen.front]
      OBVIOUS
    <3>3. IsScreen(t) /\ t.x = screen.x /\ t.y = screen.y /\ t.fg = screen.fg /\ t.bg = screen.bg
      BY <1>2, <3>2 DEF Drawn, OnScreen, IsScreen
    <3>4. s = [t EXCEPT !.using_back_buffer = TRUE]
      BY <3>1, <3>2
    <3>5. IsScreen(s) /\ s.x = t.x /\ s.y = t.y /\ s.fg = t.fg /\ s.bg = t.bg
      BY <3>3, <3>4 DEF IsScreen
    <3>6. task' = task /\ screen' = s
      BY <2>6, <3>1 DEF SetupBuffer, Kmain
    <3>. QED BY <1>2, <3>3, <3>5, <3>6 DEF Drawn, OnScreen
  <2>7. CASE UNCHANGED vars
    BY <1>2, <2>7 DEF vars, Drawn
  <2>. QED BY <1>2, <2>1, <2>2, <2>3, <2>4, <2>5, <2>6, <2>7 DEF Next, BootStep
<1>3. ASSUME IInv, Drawn PROVE TypeOK
  <2>1. e9_mutex \in {0, 1} /\ timer_ticks \in StartTicks..MaxTicks
    BY <1>3 DEF IInv, OneOwner, Types
  <2>2. \A x \in Contexts : pc[x] \in {"none", "halted"} <=> job[x] = <<>>
    BY <1>3 DEF IInv, Stages, StageOf
  <2>. QED BY <1>3, <2>1, <2>2 DEF TypeOK, Drawn, OnScreen
<1>. QED BY <1>1, <1>2, <1>3, Inductive, PTL DEF Spec

\* MessagesAreWhole: one context at most prints, and every message of the log
\* has its stamp and then all its pieces, in order, with nothing of another
\* message between them: debug_vprintf keeps e9_mutex throughout.
THEOREM MessagesAreWhole == Spec => [](OneOwner /\ Logged)
<1>1. IInv => OneOwner /\ Logged
  BY DEF IInv
<1>. QED BY <1>1, Inductive, PTL

\* StampsAreSound: no time stamp of debug_vprintf is ahead of timer_ticks, and
\* their seconds never go back.
THEOREM StampsAreSound == Spec => []StampSound
<1>1. ASSUME IInv PROVE StampSound
  <2>1. timer_ticks \in Nat /\ timer_ticks <= MaxTicks
    BY <1>1, Now DEF IInv
  <2>2. ASSUME NEW i \in 1..Len(log)
        PROVE  StampOf(log[i]).ticks <= timer_ticks
               /\ StampOf(log[i]).seconds = SecondsOf(log[i].pieces)
    <3>1. StampRead(log[i].pieces, timer_ticks)
      BY <1>1 DEF IInv, Logged, Whole
    <3>. QED BY <2>1, <3>1, StampShows
  <2>3. ASSUME NEW i \in 1..Len(log), i > 1
        PROVE  StampOf(log[i - 1]).seconds <= StampOf(log[i]).seconds
    <3>1. i - 1 \in 1..Len(log) /\ i - 1 <= i
      BY <1>1, <2>3 DEF IInv, Logged, IsSeq
    <3>2. SecondsOf(log[i - 1].pieces) <= SecondsOf(log[i].pieces)
      BY <1>1, <3>1 DEF IInv, Ordered
    <3>3. StampOf(log[i - 1]).seconds = SecondsOf(log[i - 1].pieces)
      BY <2>2, <3>1
    <3>4. StampOf(log[i]).seconds = SecondsOf(log[i].pieces)
      BY <2>2
    <3>. QED BY <3>2, <3>3, <3>4
  <2>. QED BY <2>2, <2>3 DEF StampSound
<1>. QED BY <1>1, Inductive, PTL

\* NumbersAreRead: every number that debug_vprintf prints, read back in its
\* radix, is its argument, and fills its width.
THEOREM NumbersAreRead == Spec => []NumbersReadBack
<1>1. ASSUME IInv, NEW i \in 1..Len(log), NEW k \in 1..Len(log[i].message.body),
             log[i].message.body[k].conv # "text"
      PROVE  NumberShown(log[i].message.body[k],
                         log[i].pieces[3 + k + (IF log[i].message.module = 0 THEN 0 ELSE 1)])
  <2>1. PICK m, p, tag : /\ m = log[i].message /\ p = log[i].pieces
                         /\ tag = IF m.module = 0 THEN 0 ELSE 1
    OBVIOUS
  <2>2. m \in Printed /\ Len(p) = 3 + Len(Rest(m)) /\ Follows(p, m)
    BY <1>1, <2>1 DEF IInv, Logged, Whole
  <2>3. tag \in Nat
    BY <2>1
  <2>4. PICK n : n = Len(m.body)
    OBVIOUS
  <2>5. n \in Nat /\ Len(Rest(m)) = n + tag
    BY <2>1, <2>2, <2>3, <2>4, RestIs
  <2>6. IsPiece(m.body[k]) /\ Rest(m)[k + tag] = Expand(m.body[k])
    BY <1>1, <2>1, <2>2, <2>3, RestIs
  <2>7. k \in 1..n
    BY <1>1, <2>1, <2>4
  <2>8. PICK j : j = 3 + k + tag
    OBVIOUS
  <2>9. j \in 4..Len(p) /\ j - 3 = k + tag
    BY <2>2, <2>3, <2>5, <2>7, <2>8
  <2>10. p[j] = Expand(m.body[k])
    BY <2>2, <2>6, <2>9 DEF Follows
  <2>11. NumberShown(m.body[k], Expand(m.body[k]))
    BY <1>1, <2>1, <2>6, ExpandShows
  <2>. QED BY <2>1, <2>8, <2>10, <2>11
<1>2. ASSUME IInv PROVE NumbersReadBack
  <2>1. ASSUME NEW e \in {log[i] : i \in 1..Len(log)}, NEW k \in 1..Len(e.message.body),
               e.message.body[k].conv # "text"
        PROVE  NumberShown(e.message.body[k],
                           e.pieces[3 + k + (IF e.message.module = 0 THEN 0 ELSE 1)])
    <3>1. PICK i \in 1..Len(log) : e = log[i]
      OBVIOUS
    <3>. QED BY <1>1, <1>2, <2>1, <3>1
  <2>. QED BY <2>1 DEF NumbersReadBack, NumberShown
<1>. QED BY <1>2, Inductive, PTL

=============================================================================
