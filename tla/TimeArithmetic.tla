---------------------------- MODULE TimeArithmetic ----------------------------
(***************************************************************************)
(* The arithmetic of rclcpp::Time and rclcpp::Duration at the ends of their *)
(* integers, their conversions to messages, and GenericRate::sleep.         *)
(*                                                                         *)
(* An operation of the code returns a value or throws.  The checks come     *)
(* before the operation, which is computed here without a width: a value    *)
(* outside Int64 is a signed overflow.  left and right are the operands an *)
(* operation is called with: two times, a time and a duration, two          *)
(* durations, or a rate's last_interval_ and its clock.                     *)
(***************************************************************************)
EXTENDS Integers

CONSTANTS
  Max64,    \* std::numeric_limits<int64_t>::max()
  Max32,    \* std::numeric_limits<int32_t>::max()
  Second,   \* RCL_S_TO_NS(1)
  Scale     \* scales are fractions of numbers up to this one

VARIABLES left, right

Min64 == -Max64 - 1
Int64 == Min64 .. Max64
Int32 == -Max32 - 1 .. Max32
UInt32 == 0 .. 2 * Max32 + 1

\* Seconds of 32 bits and nanoseconds of 32 bits fit the nanoseconds of 64 bits.
ASSUME WidthAssumption ==
  /\ Max64 \in Nat /\ Max32 \in Nat /\ Second \in Nat \ {0}
  /\ Scale \in Nat
  /\ (Max32 + 1) * Second + 2 * Max32 + 1 <= Max64

Value(v) == [threw |-> FALSE, value |-> v]
Threw == [threw |-> TRUE, value |-> 0]
Checked(refused, v) == IF refused THEN Threw ELSE Value(v)

-------------------------------------------------------------------------------
(* Time *)

\* Mutant: off by one.
add_will_overflow_AtMax(x, y) == y > 0 /\ x >= Max64 - y

add_will_overflow(x, y)  == y > 0 /\ x > Max64 - y
add_will_underflow(x, y) == y < 0 /\ x < Min64 - y
sub_will_overflow(x, y)  == y < 0 /\ x > Max64 + y
sub_will_underflow(x, y) == y > 0 /\ x < Min64 + y

TimePlusDuration(t, d) == Checked(add_will_overflow(d, t) \/ add_will_underflow(d, t), t + d)
DurationPlusTime(d, t) == Checked(add_will_overflow(t, d) \/ add_will_underflow(t, d), d + t)
TimeMinusDuration(t, d) == Checked(sub_will_overflow(t, d) \/ sub_will_underflow(t, d), t - d)

\* Times of different clocks are not subtracted.
TimeMinusTime(t, u, same_clock) ==
  Checked(~ same_clock \/ sub_will_overflow(t, u) \/ sub_will_underflow(t, u), t - u)

\* Time(seconds, nanoseconds), and the constructor from a message.
TimeOf(sec, nanosec) == Checked(sec < 0, sec * Second + nanosec)

-------------------------------------------------------------------------------
(* Duration *)

\* std::abs and the conversion to uint64_t: |INT64_MIN| comes out as 2^63.
Abs(x) == IF x < 0 THEN -x ELSE x

\* The sum of two uint64_t.
AddU64(x, y) == IF x + y > 2 * Max64 + 1 THEN x + y - (2 * Max64 + 2) ELSE x + y

\* The functions throw if these hold.
bounds_check_duration_sum(l, r) ==
  ((l > 0 /\ r > 0) \/ (l < 0 /\ r < 0)) /\ AddU64(Abs(l), Abs(r)) > Max64
bounds_check_duration_difference(l, r) ==
  ((l > 0 /\ r < 0) \/ (l < 0 /\ r > 0)) /\ AddU64(Abs(l), Abs(r)) > Max64

DurationPlus(l, r)  == Checked(bounds_check_duration_sum(l, r), l + r)
DurationMinus(l, r) == Checked(bounds_check_duration_difference(l, r), l - r)

\* Division that truncates: std::div, and a conversion from a floating type.
Quot(n, d) == IF n < 0 THEN -((-n) \div d) ELSE n \div d

\* The scale is a fraction p / q, without the rounding of a double.
bounds_check_duration_scale(dns, p, q) ==
  Abs(p) > q /\ Abs(dns) > (Max64 * q) \div Abs(p)
DurationTimes(dns, p, q) ==
  Checked(bounds_check_duration_scale(dns, p, q), Quot(dns * p, q))

DurationOf(sec, nanosec) == sec * Second + nanosec

-------------------------------------------------------------------------------
(* Messages *)

\* static_cast<std::int32_t>
Int32Of(n) == ((n + Max32 + 1) % (2 * Max32 + 2)) - (Max32 + 1)

\* operator builtin_interfaces::msg::Time, and ::Duration.
ToMsg(ns) ==
  LET quot == Quot(ns, Second)
      rem  == ns - quot * Second
  IN  IF rem >= 0 THEN [sec |-> Int32Of(quot), nanosec |-> rem]
      ELSE [sec |-> Int32Of(quot - 1), nanosec |-> Second + rem]

to_rmw_time(ns) == Checked(ns < 0, DurationOf(ToMsg(ns).sec, ToMsg(ns).nanosec))

-------------------------------------------------------------------------------
(* GenericRate *)

\* The end of the interval: now + period if time has gone backwards.
NextInterval(last, period, now) == IF now < last THEN now + period ELSE last + period

\* sleep(): how long it sleeps (0: not at all), and last_interval_ after it.
RateSleep(last, period, now) ==
  LET next == NextInterval(last, period, now)
      time_to_sleep == next - now
      missed == time_to_sleep <= 0 /\ now > next + period
  IN  [slept |-> IF time_to_sleep <= 0 THEN 0 ELSE time_to_sleep,
       last  |-> IF missed THEN now + period ELSE last + period]

-------------------------------------------------------------------------------

(* The operands are any two integers of 64 bits. *)

OperandsOK == left \in Int64 /\ right \in Int64

Exact(result, v) == result = IF v \in Int64 THEN Value(v) ELSE Threw

\* "addition leads to int64_t overflow": an operation with a Time throws when its result does
\* not fit 64 bits, and never otherwise.
TimeArithmeticExact ==
  /\ Exact(TimePlusDuration(left, right), left + right)
  /\ Exact(DurationPlusTime(right, left), left + right)
  /\ Exact(TimeMinusDuration(left, right), left - right)
  /\ Exact(TimeMinusTime(left, right, TRUE), left - right)

\* The one duration whose absolute value is no int64_t.
Lowest(d) == d = Min64

\* An operation on durations never overflows unnoticed, and throws only if the result is
\* beyond +-INT64_MAX.  INT64_MIN itself is excepted: two of them add up to 0 for the check,
\* nothing is checked for 0 - INT64_MIN, nor for a scale of -1.
DurationArithmeticSafe ==
  ~ Lowest(left) /\ ~ Lowest(right) =>
    /\ \/ DurationPlus(left, right) = Value(left + right) /\ left + right \in Int64
       \/ DurationPlus(left, right) = Threw /\ Abs(left + right) > Max64
    /\ \/ DurationMinus(left, right) = Value(left - right) /\ left - right \in Int64
       \/ DurationMinus(left, right) = Threw /\ Abs(left - right) > Max64

\* A time or a duration that its message can hold survives the conversion, below zero as well.
ConversionsKeepValue ==
  (left \div Second) \in Int32 =>
    /\ ToMsg(left).nanosec \in 0 .. Second - 1
    /\ DurationOf(ToMsg(left).sec, ToMsg(left).nanosec) = left
    /\ left >= 0 => /\ to_rmw_time(left) = Value(left)
                    /\ TimeOf(ToMsg(left).sec, ToMsg(left).nanosec) = Value(left)

\* A scaled duration is refused exactly if it is beyond +-INT64_MAX, INT64_MIN excepted.
ScaleIsSafe ==
  ~ Lowest(left) =>
    \A p \in -Scale .. Scale, q \in 1 .. Scale :
      LET times == DurationTimes(left, p, q)
      IN  /\ times.threw <=> Abs(left * p) > Max64 * q
          /\ times.value \in -Max64 .. Max64

\* A rate never sleeps longer than its period, whatever its clock does, and as long as the work
\* between two sleeps fits the period each sleep ends a period after the one before.
RateKept ==
  \A period \in 1 .. Second :
    LET sleep == RateSleep(left, period, right)
    IN  /\ sleep.slept \in 0 .. period
        /\ right \in left .. left + period =>
             /\ right + sleep.slept = left + period
             /\ sleep.last = left + period

\* What the checks before the operations and the conversions are for.
ArithmeticCorrect ==
  TimeArithmeticExact /\ DurationArithmeticSafe /\ ScaleIsSafe /\ ConversionsKeepValue /\ RateKept
===============================================================================
