----------------------------- MODULE UlibFormat -----------------------------
(***************************************************************************)
(* Formatted output and input of the user library (src/ulib/stdio.c) and   *)
(* the numbers it reads (strtoull, strtoll of src/ulib/stdlib.c).  The     *)
(* calls are the ones of module Printf, so one directive is printed by     *)
(* both engines and compared with the standard; what printf wrote is also  *)
(* read back by sscanf.  Floating point is left out: it goes through       *)
(* stb_sprintf.h on one side and through doubles on the other.             *)
(***************************************************************************)
EXTENDS Printf

CONSTANTS NumBuf,       \* size of _vscanf_core's num_buf: 64
          NumChars,     \* the characters of the texts strtoull is given
          MaxNumText    \* bound: their length

VARIABLE numText        \* a text given to strtoull

----------------------------------------------------------------------------
(* Output.                                                                 *)

UlibPrecision(fmt, i, args) ==
    CASE Ch(fmt, i) # "." -> [precision |-> -1, next |-> i, args |-> args]
      [] Ch(fmt, i) = "." /\ Ch(fmt, i + 1) = "*" ->
           [precision |-> Signed(Head(args).int, IntBits), next |-> i + 2, args |-> Tail(args)]
      [] OTHER -> [precision |-> _atoi(fmt, i + 1).n, next |-> _atoi(fmt, i + 1).next,
                   args |-> args]

UlibLength(fmt, i) ==
    CASE Ch(fmt, i) = "l" /\ Ch(fmt, i + 1) = "l" -> [bits |-> LongBits, next |-> i + 2]
      [] Ch(fmt, i) = "z" \/ (Ch(fmt, i) = "l" /\ Ch(fmt, i + 1) # "l") ->
           [bits |-> LongBits, next |-> i + 1]
      [] OTHER -> [bits |-> IntBits, next |-> i]

UlibAfterLength(fmt, flags, width, p, l) ==
    [flags |-> flags, width |-> width, precision |-> p.precision, bits |-> l.bits,
     spec |-> Ch(fmt, l.next), next |-> l.next + 1, args |-> p.args]
UlibAfterPrecision(fmt, flags, width, p) ==
    UlibAfterLength(fmt, flags, width, p, UlibLength(fmt, p.next))
UlibAfterWidth(fmt, flags, w) ==
    UlibAfterPrecision(fmt, flags \cup w.left, w.width, UlibPrecision(fmt, w.next, w.args))
UlibAfterFlags(fmt, i, j, args) ==
    UlibAfterWidth(fmt, {fmt[k] : k \in i..(j - 1)}, WidthField(fmt, j, args))
UlibDirective(fmt, i, args) == UlibAfterFlags(fmt, i, SkipOver(fmt, i, FlagChars), args)

_ul_to_str_invert(val, base, uppercase) ==
    LET digits == IF uppercase THEN UpperDigits ELSE LowerDigits
    IN [k \in 1..NumDigits(val, base) |-> digits[((val \div base ^ (k - 1)) % base) + 1]]

UlibSign(v, d) == CASE d.spec \notin {"d", "i"} -> <<>>
                    [] d.spec \in {"d", "i"} /\ v < 0 -> <<"-">>
                    [] d.spec \in {"d", "i"} /\ v >= 0 /\ "+" \in d.flags -> <<"+">>
                    [] d.spec \in {"d", "i"} /\ v >= 0 /\ "+" \notin d.flags /\ " " \in d.flags ->
                         <<" ">>
                    [] OTHER -> <<>>

UlibPrefix(v, d) ==
    IF d.spec = "p" \/ ("#" \in d.flags /\ v # 0 /\ d.spec \in {"x", "X"})
    THEN <<"0", IF d.spec = "X" THEN "X" ELSE "x">>
    ELSE <<>>

UlibValue(d) ==
    CASE d.spec = "p" -> Unsigned(Head(d.args).int, LongBits)
      [] d.spec \in {"d", "i"} -> Signed(Head(d.args).int, d.bits)
      [] OTHER -> Unsigned(Head(d.args).int, d.bits)

UlibDigits(mag, d) ==
    _ul_to_str_invert(mag, IF d.spec \in {"x", "X", "p"} THEN 16 ELSE 10, d.spec = "X")

\* front is the sign and the mark of the base, buf the digits backwards.
UlibLaidOut(d, front, zeros, digits, padding) ==
    LET zero == "0" \in d.flags /\ d.precision < 0
        left == "-" \in d.flags
    IN (IF ~left /\ ~zero THEN Repeat(" ", padding) ELSE <<>>)
       \o front
       \o zeros \o (IF zero /\ ~left THEN Repeat("0", padding) ELSE <<>>)
       \o digits
       \o (IF left THEN Repeat(" ", padding) ELSE <<>>)
UlibMeasured(d, front, zeros, digits) ==
    UlibLaidOut(d, front, zeros, digits, d.width - (Len(front) + Len(zeros) + Len(digits)))
UlibNumber(d, v, buf) ==
    UlibMeasured(d, UlibSign(v, d) \o UlibPrefix(v, d), Repeat("0", d.precision - Len(buf)),
                 IF d.precision = 0 /\ v = 0 THEN <<>> ELSE Reverse(buf))
UlibConverted(d, v) == UlibNumber(d, v, UlibDigits(Magnitude(v), d))
UlibInteger(d) == UlibConverted(d, UlibValue(d))

UlibString(d) ==
    LET s == Head(d.args).str
    IN PaddedText(IF d.precision < 0 THEN s ELSE SubSeq(s, 1, AtMost(d.precision, Len(s))),
                  d.width, d.flags)

UlibChar(d) == PaddedText(Head(d.args).str, d.width, d.flags)

UlibIntegerSpecs == {"d", "i", "u", "x", "X", "p"}

UlibDirectiveText(d) ==
    CASE d.spec \in UlibIntegerSpecs -> UlibInteger(d)
      [] d.spec = "s" -> UlibString(d)
      [] d.spec = "c" -> UlibChar(d)
      [] d.spec = "%" -> <<"%">>
      [] d.spec = "" -> <<>>
      [] OTHER -> <<"%", d.spec>>

RECURSIVE _vprintf_core(_, _, _)
UlibPut(fmt, d) ==
    UlibDirectiveText(d)
    \o _vprintf_core(fmt, d.next,
                     IF d.spec \in UlibIntegerSpecs \cup {"s", "c"} THEN Tail(d.args) ELSE d.args)
_vprintf_core(fmt, i, args) ==
    CASE i > Len(fmt) -> <<>>
      [] i <= Len(fmt) /\ Ch(fmt, i) # "%" -> <<fmt[i]>> \o _vprintf_core(fmt, i + 1, args)
      [] OTHER -> UlibPut(fmt, UlibDirective(fmt, i + 1, args))

FitsText(i, limit) == limit > 0 /\ i < limit - 1

\* The caller's buffer: characters that fit, then the NUL.
vsnprintf(text, size) ==
    [i \in 0..size |->
        CASE i < Len(text) /\ FitsText(i, size) -> text[i + 1]
          [] i = Len(text) /\ Len(text) < size -> ""
          [] i < Len(text) /\ ~FitsText(i, size) /\ i = size - 1 -> ""
          [] OTHER -> "?"]

----------------------------------------------------------------------------
(* Numbers.                                                                *)

SpaceChars == {" ", "\t", "\n"}
ULLONG_MAX == 2 ^ LongBits - 1
LLONG_MAX == 2 ^ (LongBits - 1) - 1

HexMarks == {"x", "X"}

\* The value of a digit or a letter; 99 where the code breaks off.
DigitValue(ch) ==
    LET i == SelectInSeq(LowerDigits, LAMBDA x : x = ch)
        u == SelectInSeq(UpperDigits, LAMBDA x : x = ch)
    IN CASE i > 0 -> i - 1
         [] i = 0 /\ u > 0 -> u - 1
         [] i = 0 /\ u = 0 /\ ch \in HexMarks -> 33
         [] OTHER -> 99

Overflows(acc, c, base) ==
    LET cutoff == ULLONG_MAX \div base
    IN acc > cutoff \/ (acc = cutoff /\ c > ULLONG_MAX % base)

\* The digits from place i on: [acc, any, next], any = -1 once it overflowed.
RECURSIVE Accumulate(_, _, _, _, _)
Accumulate(s, i, base, acc, any) ==
    LET c == DigitValue(Ch(s, i))
    IN CASE c >= base -> [acc |-> acc, any |-> any, next |-> i]
         [] c < base /\ (any < 0 \/ Overflows(acc, c, base)) ->
              Accumulate(s, i + 1, base, acc, -1)
         [] OTHER -> Accumulate(s, i + 1, base, acc * base + c, 1)

\* val, whether errno became ERANGE, and the place endptr is set to.
StrtoullResult(neg, r) ==
    [val |-> CASE r.any < 0 -> ULLONG_MAX
               [] r.any >= 0 /\ neg -> (-r.acc) % (ULLONG_MAX + 1)
               [] OTHER -> r.acc,
     erange |-> r.any < 0,
     endptr |-> IF r.any # 0 THEN r.next ELSE 1]
BaseAt(s, i, base) == IF base # 0 THEN base ELSE IF Ch(s, i) = "0" THEN 8 ELSE 10
HexAt(s, i, base) == base \in {0, 16} /\ Ch(s, i) = "0" /\ Ch(s, i + 1) \in HexMarks
AfterSign(s, i, neg, base) ==
    StrtoullResult(neg, IF HexAt(s, i, base) THEN Accumulate(s, i + 2, 16, 0, 0)
                        ELSE Accumulate(s, i, BaseAt(s, i, base), 0, 0))
AfterSpace(s, i, base) ==
    AfterSign(s, IF Ch(s, i) \in {"-", "+"} THEN i + 1 ELSE i, Ch(s, i) = "-", base)
strtoull(s, base) == AfterSpace(s, SkipOver(s, 1, SpaceChars), base)

StrtollResult(neg, r) ==
    LET min == -LLONG_MAX - 1
    IN CASE r.erange -> IF neg THEN min ELSE LLONG_MAX
         [] ~r.erange /\ ~neg -> AtMost(r.val, LLONG_MAX)
         [] ~r.erange /\ neg /\ r.val > LLONG_MAX + 1 -> min
         [] OTHER -> -r.val
strtoll(s, base) ==
    StrtollResult(Ch(s, SkipOver(s, 1, SpaceChars)) = "-", strtoull(s, base))

----------------------------------------------------------------------------
(* Input.  The context is the text, the place in it and the character put  *)
(* back, "" when there is none.                                            *)

_in_char(ctx) ==
    CASE ctx.ungotten # "" -> [c |-> ctx.ungotten, ctx |-> [ctx EXCEPT !.ungotten = ""]]
      [] ctx.ungotten = "" /\ ctx.pos > Len(ctx.buf) -> [c |-> "EOF", ctx |-> ctx]
      [] OTHER -> [c |-> ctx.buf[ctx.pos], ctx |-> [ctx EXCEPT !.pos = @ + 1]]

\* Faulty variant: the character that was read too far is lost.
_unget_char_Lost(ctx, c) == ctx

_unget_char(ctx, c) == IF c = "EOF" THEN ctx ELSE [ctx EXCEPT !.ungotten = c]

RECURSIVE _skip_space(_)
SkipFrom(r) == IF r.c \in SpaceChars THEN _skip_space(r.ctx) ELSE _unget_char(r.ctx, r.c)
_skip_space(ctx) == SkipFrom(_in_char(ctx))

\* The characters of a number: c is the one in hand, num those taken, which
\* leave room for the NUL in num_buf.
RECURSIVE ScanDigits(_, _, _, _, _)
ScanDigits(ctx, c, num, base0, width) ==
    LET base == IF base0 = 0 /\ num = <<"0">> /\ c \in HexMarks THEN 16 ELSE base0
        part == \/ c \in DecimalDigits \cup HexMarks
                \/ base \in {0, 16} /\ c # "EOF" /\ DigitValue(c) \in 10..15
        r == _in_char(ctx)
    IN IF part /\ Len(num) < NumBuf - 1 /\ (width <= 0 \/ Len(num) < width)
       THEN ScanDigits(r.ctx, r.c, Append(num, c), base, width)
       ELSE [num |-> num, base |-> base, ctx |-> _unget_char(ctx, c)]

ScanFrom(r, sign, base, width) == ScanDigits(r.ctx, r.c, sign, base, width)
ScanSigned(r, base, width) ==
    IF r.c \in {"-", "+"} THEN ScanFrom(_in_char(r.ctx), <<r.c>>, base, width)
    ELSE ScanFrom(r, <<>>, base, width)
ScanNumber(ctx, spec, width) ==
    ScanSigned(_in_char(_skip_space(ctx)), CASE spec = "x" -> 16 [] spec = "i" -> 0 [] OTHER -> 10,
               width)

RECURSIVE ScanWord(_, _, _, _)
ScanWord(ctx, c, word, width) ==
    LET r == _in_char(ctx)
    IN IF c = "EOF" \/ c \in SpaceChars \/ (width > 0 /\ Len(word) >= width)
       THEN [word |-> word, ctx |-> _unget_char(ctx, c)]
       ELSE ScanWord(r.ctx, r.c, Append(word, c), width)

RECURSIVE ScanChars(_, _, _)
ScanChars(ctx, n, taken) ==
    LET r == _in_char(ctx)
    IN CASE n = 0 -> [ok |-> TRUE, chars |-> taken, ctx |-> ctx]
         [] n > 0 /\ r.c = "EOF" -> [ok |-> FALSE, chars |-> taken, ctx |-> ctx]
         [] OTHER -> ScanChars(r.ctx, n - 1, Append(taken, r.c))

\* %[*][width][length]specifier
ScanSpec(fmt, suppress, w, l) ==
    [suppress |-> suppress, width |-> w.n, bits |-> IF Ch(fmt, w.next) = "l" THEN LongBits ELSE IntBits,
     spec |-> Ch(fmt, l), next |-> l + 1]
ScanWidth(fmt, suppress, w) == ScanSpec(fmt, suppress, w, SkipOver(fmt, w.next, {"l", "h"}))
ScanStar(fmt, i, star) == ScanWidth(fmt, star, _atoi(fmt, IF star THEN i + 1 ELSE i))
ScanDirective(fmt, i) == ScanStar(fmt, i, Ch(fmt, i) = "*")

\* What one directive or literal takes: whether to go on, the values assigned,
\* the input and the place in the format afterwards.
NumberGot(d, r) ==
    [ok |-> r.num # <<>>, ctx |-> r.ctx, next |-> d.next,
     got |-> IF r.num = <<>> THEN <<>> ELSE <<[int |-> Signed(strtoll(r.num, r.base), d.bits)]>>]
WordGot(d, r) == [ok |-> TRUE, ctx |-> r.ctx, next |-> d.next,
                  got |-> IF r.word = <<>> THEN <<>> ELSE <<[str |-> r.word]>>]
CharsGot(d, r) == [ok |-> r.ok, ctx |-> r.ctx, next |-> d.next, got |-> <<[str |-> r.chars]>>]
FirstOfWord(d, r) == WordGot(d, ScanWord(r.ctx, r.c, <<>>, d.width))

Kept(d, r) == IF d.suppress THEN [r EXCEPT !.got = <<>>] ELSE r

ScanConvert(ctx, d) ==
    CASE d.spec \in {"d", "i", "u", "x"} -> NumberGot(d, ScanNumber(ctx, d.spec, d.width))
      [] d.spec = "s" -> FirstOfWord(d, _in_char(_skip_space(ctx)))
      [] d.spec = "c" -> CharsGot(d, ScanChars(ctx, IF d.width > 0 THEN d.width ELSE 1, <<>>))
      [] OTHER -> [ok |-> d.spec # "", ctx |-> ctx, next |-> d.next, got |-> <<>>]

LiteralGot(ch, i, r) == [ok |-> r.c = ch, ctx |-> r.ctx, next |-> i + 1, got |-> <<>>]
DirectiveGot(ctx, d) == Kept(d, ScanConvert(ctx, d))

ScanStep(ctx, fmt, i) ==
    CASE fmt[i] \in SpaceChars ->
           [ok |-> TRUE, ctx |-> _skip_space(ctx), next |-> SkipOver(fmt, i, SpaceChars), got |-> <<>>]
      [] fmt[i] = "%" -> DirectiveGot(ctx, ScanDirective(fmt, i + 1))
      [] OTHER -> LiteralGot(fmt[i], i, _in_char(_skip_space(ctx)))

\* What the directives from place i on assign, in order.
RECURSIVE _vscanf_core(_, _, _)
ScanOn(fmt, r) == IF r.ok THEN r.got \o _vscanf_core(r.ctx, fmt, r.next) ELSE <<>>
_vscanf_core(ctx, fmt, i) == IF i > Len(fmt) THEN <<>> ELSE ScanOn(fmt, ScanStep(ctx, fmt, i))

sscanf(str, fmt) == _vscanf_core([buf |-> str, pos |-> 1, ungotten |-> ""], fmt, 1)

----------------------------------------------------------------------------

UfInit == FmtInit /\ numText = <<>>

\* The text of the next number, a character at a time, or a new text.
TypeNumber == /\ \/ /\ Len(numText) < MaxNumText
                    /\ \E ch \in NumChars : numText' = Append(numText, ch)
                 \/ numText # <<>> /\ numText' = <<>>
              /\ fmtCall = <<>> /\ UNCHANGED fmtCall

UfNext == \/ numText = <<>> /\ FmtNext /\ UNCHANGED numText
          \/ TypeNumber

ufVars == <<fmtCall, numText>>

UlibCallDirective(c) == UlibDirective(c.fmt, 3, c.args)
UlibText(c) == _vprintf_core(c.fmt, 1, c.args)

\* The user library prints the integers it has a conversion for (d, i, u, x and
\* X, plain or with l, ll or z; it knows neither o nor h) and every string as
\* the C standard says, for all flags, widths and precisions: _vprintf_core
\* counts sign, base mark, zeros and digits before it writes the first space.
UlibTextStandard ==
    \A c \in Range(fmtCall) : \A d \in {UlibCallDirective(c)}, text \in {UlibText(c)} :
        /\ d.spec \in UlibIntegerSpecs \ {"p"} =>
              text = <<c.fmt[1]>> \o StandardInteger(UlibValue(d), d.spec, d.flags, d.width,
                                                     d.precision)
        /\ d.spec = "s" =>
              text = <<c.fmt[1]>> \o StandardString(Head(d.args).str, d.flags, d.width, d.precision)

UlibCutAt(text, buf, size, n) ==
    /\ buf[size] = "?"
    /\ size > 0 => buf[n] = "" /\ \A i \in 0..(n - 1) : buf[i] = text[i + 1]

\* snprintf leaves the longest part of the text that fits with its NUL, and
\* writes nothing behind the size it was given.
UlibCut ==
    \A c \in Range(fmtCall) : \A text \in {UlibText(c)}, size \in FmtCounts :
        UlibCutAt(text, vsnprintf(text, size), size, AtMost(Len(text), size - 1))

ReadsBackValue(d, v, digits, back) ==
    /\ d.spec \in {"d", "u", "x", "X"} /\ Len(digits) < NumBuf
    /\ v \in 0..LLONG_MAX /\ ~(v = 0 /\ d.precision = 0)
    => back = <<[int |-> v], [int |-> 7]>>

\* The printed number without its blanks, and the conversion that reads it.
PrintedNumber(text) == SelectSeq(Tail(text), LAMBDA ch : ch # " ")
ReadWith(spec) == IF spec = "X" THEN "x" ELSE spec

\* sscanf reads back what printf printed: a number that is not negative under
\* any width, precision, padding and base mark that leave it shorter than
\* num_buf, a word, a character, and then the literal and the number that
\* follow, so no character is lost between two directives.
ScanRoundTrip ==
    \A c \in Range(fmtCall) : \A d \in {UlibCallDirective(c)} :
    \A back \in {sscanf(UlibText(c) \o <<" ", "7">>,
                        <<c.fmt[1], "%", "l", ReadWith(d.spec), " ", "%", "d">>)} :
        /\ d.spec \in UlibIntegerSpecs => ReadsBackValue(d, UlibValue(d), PrintedNumber(UlibText(c)), back)
        /\ d.spec = "s" /\ d.precision # 0 /\ Head(d.args).str # <<>> =>
              back = <<[str |-> StandardString(Head(d.args).str, {}, 0, d.precision)], [int |-> 7]>>
        /\ d.spec = "c" /\ d.width <= 1 /\ Head(d.args).str # <<"">> =>
              back = <<Head(d.args), [int |-> 7]>>

\* The number a text of digits spells, however large.
Exact(s, i, j, base) ==
    FoldLeft(LAMBDA n, ch : n * base + DigitValue(ch), 0, SubSeq(s, i, j))

Saturates(r, exact, first, end, signed) ==
    /\ r.val = AtMost(exact, ULLONG_MAX)
    /\ r.erange <=> exact > ULLONG_MAX
    /\ r.endptr = IF end > first THEN end ELSE 1
    /\ signed = AtMost(exact, LLONG_MAX)

DigitsEnd(s, i, base) == SkipOver(s, i, {ch \in NumChars : DigitValue(ch) < base})

\* strtoull and strtoll of a text that is not negative give the number its
\* digits spell, or the largest one of the type when it does not fit, and
\* endptr is left behind the last digit: the test before each digit neither
\* comes too early at the limit nor lets the accumulator wrap.
NumbersSaturate ==
    \A base \in {8, 10, 16} : \A i \in {SkipOver(numText, 1, SpaceChars)} :
    \A j \in {IF Ch(numText, i) = "+" THEN i + 1 ELSE i} :
    \A k \in {IF HexAt(numText, j, base) THEN j + 2 ELSE j} :
    \A end \in {DigitsEnd(numText, k, base)} :
        Ch(numText, i) # "-" =>
            Saturates(strtoull(numText, base), Exact(numText, k, end - 1, base), k, end,
                      strtoll(numText, base))
=============================================================================
