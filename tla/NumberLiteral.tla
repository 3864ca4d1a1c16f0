--------------------------- MODULE NumberLiteral ---------------------------
(***************************************************************************)
(* number literal.cpp: how many characters of a text are a number, and     *)
(* what number they are.  The widths of the types are parameters, so that  *)
(* their limits are close: a real has RealBits significant bits, and is    *)
(* rounded, as a float is.                                                 *)
(*                                                                         *)
(* A real is a fraction [num, den], or NaN.  Converting one that is out of *)
(* range to an integer is undefined: the result is what the processor      *)
(* makes of it, the nearest integer (`nearest`) or one that is not close.  *)
(***************************************************************************)
EXTENDS Chars

CONSTANTS ByteBits, RealBits, SintBits, \* uint has as many bits as sint, char as many as byte
          LongBits,                     \* of long long
          RealMax,
          MaxLiteral,                   \* from_chars looks at no more characters
          MaxExp                        \* an exponent beyond is an error of strtold

(* the powers of ten *)
Tens[n \in 0..MaxLiteral] == IF n = 0 THEN 1 ELSE 10 * Tens[n - 1]
ASSUME WidthsAssumption ==
  /\ {ByteBits, RealBits, SintBits, LongBits, RealMax, MaxLiteral, MaxExp} \subseteq Nat \ {0}
  /\ ByteBits < RealBits /\ RealBits < SintBits /\ SintBits < LongBits
  /\ Tens[MaxLiteral] <= RealMax \* no literal without an exponent is too large for a real

Lowest(type) ==
  CASE type \in {"byte", "uint"} -> 0
    [] type = "char" -> -(2^(ByteBits - 1))
    [] type = "sint" -> -(2^(SintBits - 1))
Highest(type) ==
  CASE type = "byte" -> 2^ByteBits - 1
    [] type = "char" -> 2^(ByteBits - 1) - 1
    [] type = "sint" -> 2^(SintBits - 1) - 1
    [] type = "uint" -> 2^SintBits - 1
-----------------------------------------------------------------------------
(* strtoll, strtoull and strtold of the C library.  end is the number of   *)
(* characters read.                                                        *)
Digits(base) ==
  CASE base = 8 -> {"0", "1", "2", "3", "4", "5", "6", "7"}
    [] base = 10 -> {"0", "1", "2", "3", "4", "5", "6", "7", "8", "9"}
    [] base = 16 -> {"0", "1", "2", "3", "4", "5", "6", "7", "8", "9", "a", "b", "c", "d", "e", "f"}
DigitChars == <<"0", "1", "2", "3", "4", "5", "6", "7", "8", "9", "a", "b", "c", "d", "e", "f">>
Digit(c) == (CHOOSE i \in 1..16 : DigitChars[i] = c) - 1
(* A point among the digits is passed over. *)
ValueOf(digits, base) ==
  LET upTo[k \in 0..Len(digits)] ==
        IF k = 0 THEN 0 ELSE IF digits[k] = "." THEN upTo[k - 1] ELSE upTo[k - 1] * base + Digit(digits[k])
  IN upTo[Len(digits)]
Value(text, i, j, base) == ValueOf(SubSeq(text, i, j - 1), base)

AfterSign(text, i) == IF At(text, i) \in {"-", "+"} THEN i + 1 ELSE i
Signed(text, i, n) == IF At(text, i) = "-" THEN -n ELSE n

(* strtoll: the digits from `from` on *)
IntegerDigits(text, from, to, radix) ==
  IF to = from THEN [end |-> 0, val |-> 0] ELSE [end |-> to - 1, val |-> Signed(text, 1, Value(text, from, to, radix))]
ReadInteger(text, from, radix) == IntegerDigits(text, from, SkipAll(text, from, Digits(radix)), radix)
IsHex(text, i) == Starts(text, i, <<"0", "x">>) /\ At(text, i + 2) \in Digits(16)
StrToLL(text, beg, base) ==
  IF base # 0 THEN ReadInteger(text, beg, base)
  ELSE IF IsHex(text, beg) THEN ReadInteger(text, beg + 2, 16)
  ELSE ReadInteger(text, beg, IF At(text, beg) = "0" THEN 8 ELSE 10)
(* strtoull negates modulo 2^LongBits.  What is an error of either because *)
(* it has more bits is out of the range of every integer type too.         *)
Modulo(n) == IF n \in (1 - 2^LongBits)..(-1) THEN n + 2^LongBits ELSE n
StrToULL(text, beg, base) ==
  LET ll == StrToLL(text, beg, base) IN [end |-> ll.end, val |-> Modulo(ll.val)]

(* strtold: digits, a point and an exponent, which hexadecimal digits do   *)
(* not have here                                                           *)
NaN == [num |-> 0, den |-> 0]
NotRead == [end |-> 0, range |-> FALSE, val |-> NaN]
Scaled(num, den, exp) ==
  IF num = 0 THEN [num |-> 0, den |-> 1]
  ELSE [num |-> IF exp > 0 THEN num * 10^exp ELSE num, den |-> IF exp < 0 THEN den * 10^(-exp) ELSE den]
WithExp(num, den, exp, end) ==
  IF num # 0 /\ (exp > MaxExp \/ exp < -MaxExp) THEN [NotRead EXCEPT !.range = TRUE]
  ELSE [end |-> end - 1, range |-> FALSE, val |-> Scaled(num, den, exp)]
ExpDigits(text, to, sign, last, num, den) ==
  IF At(text, to) = "e" /\ last > sign
  THEN WithExp(num, den, Signed(text, to + 1, Value(text, sign, last, 10)), last)
  ELSE WithExp(num, den, 0, to)
Exponent(text, to, sign, num, den) == ExpDigits(text, to, sign, SkipAll(text, sign, Digits(10)), num, den)
RealDigits(text, from, point, to, radix) ==
  IF \A k \in from..(to - 1) : At(text, k) = "." THEN NotRead
  ELSE Exponent(text, to, AfterSign(text, to + 1), Signed(text, 1, Value(text, from, to, radix)),
                IF to > point THEN radix^(to - point - 1) ELSE 1)
Fraction(text, from, point, radix) ==
  RealDigits(text, from, point, IF At(text, point) = "." THEN SkipAll(text, point + 1, Digits(radix)) ELSE point, radix)
ReadReal(text, from, radix) == Fraction(text, from, SkipAll(text, from, Digits(radix)), radix)
StrToLD(text, beg) ==
  IF Starts(text, beg, <<"n", "a", "n">>) THEN [NotRead EXCEPT !.end = beg + 2]
  ELSE IF IsHex(text, beg) \/ (Starts(text, beg, <<"0", "x", ".">>) /\ At(text, beg + 3) \in Digits(16))
       THEN ReadReal(text, beg + 2, 16) ELSE ReadReal(text, beg, 10)
-----------------------------------------------------------------------------
(* from_chars; a number that could not be read is not assigned. *)
Abs(n) == IF n < 0 THEN -n ELSE n
Integer(n) == [num |-> n, den |-> 1]
Uninit == [num |-> 1, den |-> 0]

(* The nearest multiple of unit, the even one of two. *)
Nearest(num, unit) ==
  num \div unit + (IF 2 * (num % unit) > unit \/ (2 * (num % unit) = unit /\ (num \div unit) % 2 = 1) THEN 1 ELSE 0)
(* A real keeps RealBits significant bits; below them is 1/unit.  What is  *)
(* less than a half stays exact: it is no integer either way.              *)
Units == {<<2^k, 1>> : k \in 1..RealBits} \union {<<1, 2^k>> : k \in 0..(2 * SintBits)}
RoundTo(sign, num, den, units) ==
  IF units = {} THEN [num |-> sign * num, den |-> den]
  ELSE LET u == CHOOSE u \in units : TRUE IN [num |-> sign * u[2] * Nearest(num * u[1], den * u[2]), den |-> u[1]]
RoundAbs(sign, num, den) ==
  RoundTo(sign, num, den,
          {u \in Units : (num * u[1]) \div (den * u[2]) \in (2^(RealBits - 1))..(2^RealBits - 1)})
Round(v) == IF v = NaN THEN NaN ELSE RoundAbs(IF v.num < 0 THEN -1 ELSE 1, Abs(v.num), v.den)

Failed == [end |-> 0, err |-> TRUE, val |-> Uninit]
RealFrom(ld) ==
  IF ~ ld.range /\ ld.end # 0 /\ (ld.val = NaN \/ Abs(ld.val.num) <= RealMax * ld.val.den)
  THEN [end |-> ld.end, err |-> FALSE, val |-> Round(ld.val)] ELSE Failed
IntegerFrom(type, ll) ==
  IF ll.end # 0 /\ ll.val \in Lowest(type)..Highest(type)
  THEN [end |-> ll.end, err |-> FALSE, val |-> Integer(ll.val)] ELSE Failed
FromSome(type, text, base) ==
  IF type = "real" THEN RealFrom(StrToLD(text, AfterSign(text, 1)))
  ELSE IF type \in {"byte", "uint"} THEN IntegerFrom(type, StrToULL(text, AfterSign(text, 1), base))
  ELSE IntegerFrom(type, StrToLL(text, AfterSign(text, 1), base))
FromChars(type, text, base) ==
  FromSome(type, SubSeq(text, 1, IF Len(text) < MaxLiteral THEN Len(text) ELSE MaxLiteral), base)
-----------------------------------------------------------------------------
(* inRange, of a real: the limits are rounded to reals too.  (Nothing that *)
(* is read as an integer is followed by a suffix.)                         *)
ToInteger(type, v, nearest) ==
  LET n == (IF v.num < 0 THEN -1 ELSE 1) * (Abs(v.num) \div v.den)
  IN IF n \in Lowest(type)..Highest(type) THEN n
     ELSE IF nearest THEN (IF n < 0 THEN Lowest(type) ELSE Highest(type)) ELSE Lowest(type)
InRange(type, v, nearest) ==
  /\ v # NaN
  /\ \/ type = "real"
     \/ /\ Round(Integer(Lowest(type))).num * v.den <= v.num
        /\ v.num <= Round(Integer(Highest(type))).num * v.den
        /\ v.num = Round(Integer(ToInteger(type, v, nearest))).num * v.den

TypeOfSuffix == [c \in {"b", "c", "r", "s", "u"} |->
  CASE c = "b" -> "byte" [] c = "c" -> "char" [] c = "r" -> "real" [] c = "s" -> "sint" [] c = "u" -> "uint"]

(* validNumberLiteral: the size is 0 if there is no number.  The character *)
(* after the number is read even if the text ends there: `after`.          *)
HasValidSuffix(read, suffix, nearest) ==
  IF suffix \notin DOMAIN TypeOfSuffix THEN [size |-> read.end, fatal |-> FALSE]
  ELSE [size |-> read.end + 1, fatal |-> ~ InRange(TypeOfSuffix[suffix], read.val, nearest)]
FirstRead(real, uint, sint) == IF ~ real.err THEN real ELSE IF ~ uint.err THEN uint ELSE sint
SizeOf(text, read, after, nearest) ==
  IF read.err THEN [size |-> 0, fatal |-> FALSE]
  ELSE HasValidSuffix(read, IF read.end = Len(text) THEN after ELSE At(text, read.end + 1), nearest)
ValidNumberLiteral(text, after, nearest) ==
  SizeOf(text, FirstRead(FromChars("real", text, 0), FromChars("uint", text, 0), FromChars("sint", text, 0)), after, nearest)

ReadAs(type, lit) == [type |-> type, val |-> FromChars(type, lit, 0).val]
(* A bug: a number that was read is not asked whether all of it was. *)
FirstAnyRead(lit, types) ==
  IF ~ FromChars("sint", lit, 0).err THEN ReadAs("sint", lit) ELSE ReadAs("real", lit)
FirstAllRead(lit, types) ==
  LET all == {n \in DOMAIN types : FromChars(types[n], lit, 0).end = Len(lit)}
      first == CHOOSE n \in all : \A m \in all : n <= m
  IN IF all = {} THEN [type |-> "unreachable", val |-> Uninit] ELSE ReadAs(types[first], lit)
(* parseNumberLiteral: the type is that of the suffix, which is the last   *)
(* character, or the first that reads all of the literal.                  *)
ParseNumberLiteral(lit) ==
  IF At(lit, Len(lit)) \in DOMAIN TypeOfSuffix THEN ReadAs(TypeOfSuffix[At(lit, Len(lit))], lit)
  ELSE FirstAllRead(lit, <<"sint", "uint", "real">>)
=============================================================================
