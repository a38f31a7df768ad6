------------------------------- MODULE LVTime -------------------------------
(***************************************************************************)
(* LabVIEW timestamps (types/timestamp.rs): whole seconds since 1904 and a *)
(* binary fraction, converted to and from doubles, bytes and chrono times. *)
(*                                                                         *)
(* The widths are parameters with the order of the real ones: a fraction   *)
(* (64 bits) has more bits than a double's mantissa (53), so it rounds.    *)
(* A double is an integer count of 2^-P seconds with at most M significant *)
(* bits.  NaN and the infinities are left out.                             *)
(***************************************************************************)
EXTENDS Integers, Sequences

CONSTANTS
  Radix, Bytes,   \* a word is Bytes bytes with Radix values each
  B, M, P,        \* bits of a word, of a mantissa, of a second in a double
  Epoch,          \* UNIX_EPOCH_IN_LV_SECONDS
  Nanos,          \* nanoseconds in a second
  Minute,         \* seconds in a minute
  ChronoMax       \* chrono holds -ChronoMax .. ChronoMax seconds around 1970

(* Powers of two, and the weights of the bytes in a word. *)
Pow2[k \in 0..3 * P] == IF k = 0 THEN 1 ELSE 2 * Pow2[k - 1]
Weight[i \in 0..Bytes] == IF i = 0 THEN 1 ELSE Radix * Weight[i - 1]

(* A double tells half seconds apart for every date that chrono can hold. *)
ASSUME TimeAssumption ==
  /\ {Radix, Bytes, B, M, P, Epoch, Nanos, Minute, ChronoMax} \subseteq Nat \ {0}
  /\ M < B /\ B <= P
  /\ Weight[Bytes] = Pow2[B]
  /\ Nanos < Pow2[M] /\ 2 * (ChronoMax + Epoch + 2) <= Pow2[M]

VARIABLES
  time,    \* the LVTime in a LabVIEW terminal
  last     \* the last conversion: its name, and the other side of it

vars == <<time, last>>

Word == Pow2[B]
One == Pow2[P]                \* a second
Tick == Pow2[P - B]           \* the unit of fractions
I64 == (-(Word \div 2))..(Word \div 2 - 1)
Time == [seconds : I64, fractions : 0..Word - 1]
Abs(n) == IF n < 0 THEN -n ELSE n

(* The instant a timestamp stands for: the reference the conversions are held to. *)
Exact(t) == t.seconds * One + t.fractions * Tick

(* The spacing of doubles at the size of n / d. *)
Exponent(n, d) == CHOOSE k \in 0..2 * P : /\ Abs(n) < d * Pow2[M + k]
                                          /\ k = 0 \/ Abs(n) >= d * Pow2[M + k - 1]
Ulp(n, d) == Pow2[Exponent(n, d)]

(* The multiple of u nearest to n, counted in u; of two, the even one. *)
Nearest(n, u) ==
  LET k == (2 * n + u) \div (2 * u)
      tie == (2 * n + u) % (2 * u) = 0
  IN  IF tie /\ k % 2 = 1 THEN k - 1 ELSE k

(* The double nearest to n / d. *)
Rounded(n, d) == Nearest(n, d * Ulp(n, d)) * Ulp(n, d)

F64(n) == Rounded(n, 1)

(* A double towards zero. *)
Truncated(n) == IF n >= 0 THEN n \div One ELSE -((-n) \div One)

(* `as i64` of a double: towards zero, and saturating. *)
AsI64(x) == LET n == Truncated(x) IN
            IF n \in I64 THEN n ELSE IF n > 0 THEN Word \div 2 - 1 ELSE -(Word \div 2)

-----------------------------------------------------------------------------
(* Faulty variant: the fraction taken for a signed number. *)
sub_seconds_signed(t) ==
  F64((IF t.fractions < Word \div 2 THEN t.fractions ELSE t.fractions - Word) * Tick)

(* fractions as f64 / u64::MAX as f64: the divisor rounds to a power of two, *)
(* and the largest fractions round up to a whole second.                     *)
sub_seconds(t) == F64(t.fractions * Tick)

to_lv_epoch(t) == F64(F64(t.seconds * One) + sub_seconds(t))
to_unix_epoch(t) == F64(to_lv_epoch(t) - Epoch * One)

(* Faulty variant: seconds / 1.0 rounded to the nearest. *)
from_lv_epoch_nearest(x) ==
  LET r == x - Truncated(x) * One IN
  [seconds |-> AsI64(x + One \div 2), fractions |-> IF r > 0 THEN r \div Tick ELSE 0]

(* seconds / 1.0 and seconds % 1.0, whose sign is that of seconds; a negative *)
(* fraction saturates to 0.                                                   *)
from_lv_epoch(x) ==
  LET r == x - Truncated(x) * One IN
  [seconds |-> AsI64(x), fractions |-> IF r > 0 THEN r \div Tick ELSE 0]

from_unix_epoch(x) == from_lv_epoch(F64(x + Epoch * One))

-----------------------------------------------------------------------------
Reversed(s) == [i \in 1..Len(s) |-> s[Len(s) + 1 - i]]

(* to_le_bytes of a word, of i64 by way of two's complement. *)
word_le(n) == [i \in 1..Bytes |-> ((n % Word) \div Weight[i - 1]) % Radix]
from_word_le(b) == CHOOSE n \in 0..Word - 1 : word_le(n) = b
Signed(n) == IF n < Word \div 2 THEN n ELSE n - Word

to_le_bytes(t) == word_le(t.fractions) \o word_le(t.seconds)
to_be_bytes(t) == Reversed(word_le(t.seconds)) \o Reversed(word_le(t.fractions))

Low(b) == SubSeq(b, 1, Bytes)
High(b) == SubSeq(b, Bytes + 1, 2 * Bytes)
from_le_bytes(b) ==
  [seconds |-> Signed(from_word_le(High(b))), fractions |-> from_word_le(Low(b))]

(* Faulty variant: the words in the order of the fields. *)
from_be_bytes_fields(b) ==
  [seconds |-> Signed(from_word_le(Reversed(High(b)))),
   fractions |-> from_word_le(Reversed(Low(b)))]

from_be_bytes(b) ==
  [seconds |-> Signed(from_word_le(Reversed(Low(b)))),
   fractions |-> from_word_le(Reversed(High(b)))]

-----------------------------------------------------------------------------
(* chrono's DateTime::from_timestamp: a leap second may be in the last second *)
(* of a minute only.                                                          *)
NoDate == [secs |-> 0, nanos |-> -1]
InChrono(s) == s \in (-ChronoMax)..ChronoMax
from_timestamp(s, n) ==
  IF InChrono(s) /\ (n < Nanos \/ (n < 2 * Nanos /\ s % Minute = Minute - 1))
  THEN [secs |-> s, nanos |-> n]
  ELSE NoDate

(* Faulty variant: the fraction counted from zero whatever it rounds to. *)
nanoseconds_wrapped(t) == (F64(sub_seconds(t) * Nanos) \div One) % Nanos

nanoseconds(t) == F64(sub_seconds(t) * Nanos) \div One

(* What `seconds - EPOCH` is: below i64 a debug build panics, a release build wraps. *)
UnixSeconds(t) == t.seconds - Epoch
Overflows(t) == UnixSeconds(t) \notin I64
try_from(t) ==
  from_timestamp(IF Overflows(t) THEN UnixSeconds(t) + Word ELSE UnixSeconds(t),
                 nanoseconds(t))

(* Faulty variant: a coarser unit, taken for nanoseconds. *)
from_chrono_coarse(d) ==
  from_unix_epoch(F64(F64(d.secs * One) + Rounded((d.nanos \div 5) * One, Nanos)))

from_chrono(d) == from_unix_epoch(F64(F64(d.secs * One) + Rounded(d.nanos * One, Nanos)))

-----------------------------------------------------------------------------
NoCall == [op |-> "none", x |-> 0, bytes |-> <<>>, date |-> NoDate, ok |-> TRUE]

Double == {x \in (-Word * One)..(Word * One) : F64(x) = x}
Date == {d \in [secs : (-ChronoMax)..ChronoMax, nanos : 0..2 * Nanos - 1] :
           from_timestamp(d.secs, d.nanos) = d}

Init == time \in Time /\ last = NoCall

(* timestamp_from_epoch and its like: a conversion into the terminal. *)
From(op, t, call) == last = NoCall /\ time' = t /\ last' = [call EXCEPT !.op = op]

(* timestamp_to_epoch and its like: the terminal is only read. *)
To(op, call) == last = NoCall /\ UNCHANGED time /\ last' = [call EXCEPT !.op = op]

(* The function has returned, and LabVIEW hands the timestamp to the next one. *)
PassOn == last # NoCall /\ last' = NoCall /\ UNCHANGED time

(* The next instant a timestamp can hold. *)
Succ(t) == IF t.fractions < Word - 1 THEN [t EXCEPT !.fractions = @ + 1]
           ELSE IF t.seconds < Word \div 2 - 1
                THEN [seconds |-> t.seconds + 1, fractions |-> 0]
                ELSE t

FromDouble(x) ==
  \/ From("from_lv_epoch", from_lv_epoch(x), [NoCall EXCEPT !.x = x])
  \/ From("from_unix_epoch", from_unix_epoch(x), [NoCall EXCEPT !.x = x])

ToDouble ==
  \/ To("to_lv_epoch", [NoCall EXCEPT !.x = to_lv_epoch(time)])
  \/ To("to_unix_epoch", [NoCall EXCEPT !.x = to_unix_epoch(time)])

FromBytes(b) ==
  \/ From("from_le_bytes", from_le_bytes(b), [NoCall EXCEPT !.bytes = b])
  \/ From("from_be_bytes", from_be_bytes(b), [NoCall EXCEPT !.bytes = b])

ToBytes ==
  \/ To("to_le_bytes", [NoCall EXCEPT !.bytes = to_le_bytes(time)])
  \/ To("to_be_bytes", [NoCall EXCEPT !.bytes = to_be_bytes(time)])

FromChrono(d) == From("from_chrono", from_chrono(d), [NoCall EXCEPT !.date = d])

ToChrono ==
  \/ To("try_from", [NoCall EXCEPT !.date = try_from(time), !.ok = try_from(time) # NoDate])
  \/ Overflows(time) /\ To("panic", NoCall)

Next ==
  \/ \E x \in Double : FromDouble(x)
  \/ \E b \in [1..2 * Bytes -> 0..Radix - 1] : FromBytes(b)
  \/ \E d \in Date : FromChrono(d)
  \/ ToDouble \/ ToBytes \/ ToChrono \/ PassOn

Spec == Init /\ [][Next]_vars

-----------------------------------------------------------------------------
(* from_lv_epoch keeps a double up to the part below the unit of fractions; *)
(* before 1904 it goes to the following whole second, within the range.     *)
FromEpochIsNear ==
  last.op = "from_lv_epoch" /\ Truncated(last.x) \in I64 =>
    last.x - Exact(time) \in IF last.x >= 0 THEN 0..Tick - 1 ELSE (1 - One)..0

(* to_lv_epoch is within one step of the doubles, of those around a second  *)
(* where the fraction cancels the seconds, and never makes a later time the *)
(* earlier one, although it rounds twice: as long as a double can count the *)
(* seconds.                                                                 *)
ToEpochIsMonotone ==
  time.seconds \in -Pow2[M]..Pow2[M] - 1 =>
    /\ \/ Abs(to_lv_epoch(time) - Exact(time)) <= Ulp(Exact(time), 1)
       \/ Abs(to_lv_epoch(time) - Exact(time)) <= Ulp(One, 1)
    /\ to_lv_epoch(time) <= to_lv_epoch(Succ(time))

(* "Note the reversal here so it is like a u128": whichever order a time is *)
(* read in, it writes the same bytes back, and the other order is the       *)
(* reverse of them, negative seconds included.                              *)
ByteOrdersAgree ==
  /\ last.op \in {"from_le_bytes", "to_le_bytes"} =>
       to_le_bytes(time) = last.bytes /\ to_be_bytes(time) = Reversed(last.bytes)
  /\ last.op \in {"from_be_bytes", "to_be_bytes"} =>
       to_be_bytes(time) = last.bytes /\ to_le_bytes(time) = Reversed(last.bytes)

(* The dates that the chrono conversions give and take keep the instant.  A   *)
(* date made of a timestamp is within a nanosecond and a step of the doubles   *)
(* of a second of it; of timestamps that give Err nothing is said.  A date     *)
(* that becomes a timestamp goes through doubles that count from 1970 and from *)
(* 1904, so it is kept to two steps of the larger ones; before 1904, where the *)
(* fraction is dropped as well, it is kept to less than two seconds.           *)
ChronoIsNear ==
  LET date == last.date
      d == Abs((date.secs + Epoch) * One * Nanos + date.nanos * One - Exact(time) * Nanos)
      step(n) == Nanos * Ulp(n * One, 1)
  IN  /\ last.op = "try_from" /\ date # NoDate => d <= One + step(1)
      /\ last.op = "from_chrono" =>
           IF date.secs + Epoch >= 0
           THEN d <= One + 2 * step(Abs(date.secs) + Epoch + 2)
           ELSE d < 2 * One * Nanos

(* What the test lv_time_from_datetime tries at one value: a time that came  *)
(* from a double, after 1970, survives chrono and back although nanoseconds  *)
(* are cut off on the way, if doubles are twelve nanoseconds apart by then.  *)
ChronoRoundTrip ==
  last.op = "try_from" /\ last.ok /\ UnixSeconds(time) >= 0
    /\ from_lv_epoch(to_lv_epoch(time)) = time
    /\ Ulp(Exact(time), 1) * Nanos >= 12 * One
    => from_chrono(last.date) = time
=============================================================================
