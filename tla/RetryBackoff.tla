---------------------------- MODULE RetryBackoff ----------------------------
(***************************************************************************)
(* How long a failed merchant webhook waits for its next attempt           *)
(* (internal/webhookdelivery/retry.go): the delay doubles from 30 s up to  *)
(* six hours and is then moved by up to a tenth of itself, by a hash of    *)
(* the delivery and the sequence.                                          *)
(***************************************************************************)
EXTENDS Integers

First == 30
Longest == 6 * 60 * 60

\* Slip: the loop doubles on, past the cap it should stop at.
NextBaseSlip(base) == 2 * base

\* One turn of the loop: doubling stops at the cap.
NextBase(base) == IF base >= Longest THEN Longest ELSE 2 * base

Bases[n \in Nat] == IF n <= 1 THEN First ELSE NextBase(Bases[n - 1])

\* The base in seconds: the last doubling may have gone past the cap.
Base(sequence) ==
    LET base == Bases[IF sequence < 1 THEN 1 ELSE sequence]
    IN  IF base > Longest THEN Longest ELSE base

\* The first two bytes of the hash, and the jitter in thousandths that they give.
Buckets == 0..65535

Permille(bucket) == 900 + (bucket % 201)

RetryDelay(sequence, bucket) == (Base(sequence) * Permille(bucket)) \div 1000

-----------------------------------------------------------------------------

\* The bounded back-off of ARCHITECTURE.md in closed form: 30 s doubled for every attempt
\* before, at most six hours, which 30 * 2^10 exceeds.
IdealBase(sequence) ==
    IF sequence < 1 THEN First
    ELSE IF sequence > 10 THEN Longest
    ELSE First * 2^(sequence - 1)

\* The base of an attempt is the ideal one, the value that is computed with stays far
\* inside 64 bits of nanoseconds (10^8 s against 9 * 10^9 s) also before it is capped,
\* and the jitter keeps the delay within a tenth of the base.
DelayIsBounded(sequence, buckets) ==
    /\ Base(sequence) = IdealBase(sequence)
    /\ sequence >= 1 => Bases[sequence] * 1100 < 10^8
    /\ \A bucket \in buckets :
          LET d == RetryDelay(sequence, bucket) * 10
          IN  9 * Base(sequence) <= d /\ d <= 11 * Base(sequence)

\* For the first attempts, to well past the cap, and the values at which the jitter is
\* least, none, most and starts over.
EarlyDelays == [sequence \in 0..45 |-> DelayIsBounded(sequence, {0, 100, 200, 201, 65535})]

=============================================================================
