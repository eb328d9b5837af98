------------------------------- MODULE Printf -------------------------------
(***************************************************************************)
(* The kernel's formatted output (na/lib/printf.c, na/lib/kprintf.cc): the *)
(* reading of a format, the conversion of integers through a buffer of     *)
(* fixed size that is filled backwards, strings and characters, and the    *)
(* cut at the end of the caller's buffer.                                  *)
(*                                                                         *)
(* A text is a sequence of one-character strings, "" standing for the NUL. *)
(* The variable holds one call; its text is compared with what the C       *)
(* standard says of the same directive.  The widths of the integer types   *)
(* are parameters; an argument is [int |-> the bits in the register] or    *)
(* [str |-> its characters].                                               *)
(***************************************************************************)
EXTENDS Integers, Sequences, FiniteSets, SequencesExt

CONSTANTS CharBits, ShortBits, IntBits, LongBits,  \* widths of the types
          PRINTF_NTOA_BUFFER_SIZE,                 \* 32 in the code
          KprintfBuf,                              \* 256 in the code
          FmtCalls,    \* the calls: records [fmt, args]
          FmtCounts    \* the sizes of the caller's buffer

ASSUME PrintfAssumption ==
    /\ {CharBits, ShortBits, IntBits, LongBits} \subseteq Nat \ {0}
    /\ {PRINTF_NTOA_BUFFER_SIZE, KprintfBuf} \subseteq Nat \ {0}

VARIABLE fmtCall    \* the call under way, or <<>>

LowerDigits == <<"0", "1", "2", "3", "4", "5", "6", "7", "8", "9",
                 "a", "b", "c", "d", "e", "f">>
UpperDigits == <<"0", "1", "2", "3", "4", "5", "6", "7", "8", "9",
                 "A", "B", "C", "D", "E", "F">>
DecimalDigits == {LowerDigits[i] : i \in 1..10}

_is_digit(ch) == ch \in DecimalDigits

Repeat(ch, n) == IF n > 0 THEN [k \in 1..n |-> ch] ELSE <<>>

AtMost(m, n) == IF m < n THEN m ELSE n

\* The low bits of a register, read as an unsigned or a signed integer.
Unsigned(raw, bits) == raw % (2 ^ bits)

Signed(raw, bits) == LET u == Unsigned(raw, bits)
                     IN IF u < 2 ^ (bits - 1) THEN u ELSE u - 2 ^ bits

Ch(fmt, i) == IF i <= Len(fmt) THEN fmt[i] ELSE ""

SkipOver(fmt, i, chars) ==
    CHOOSE j \in i..(Len(fmt) + 1) : /\ Ch(fmt, j) \notin chars
                                     /\ \A k \in i..(j - 1) : fmt[k] \in chars

----------------------------------------------------------------------------
(* Reading one directive, %[flags][width][.precision][length]specifier.    *)

FlagChars == {"0", "-", "+", " ", "#"}

\* The number that starts at i, and the place after it.
_atoi(fmt, i) ==
    LET j == SkipOver(fmt, i, DecimalDigits)
    IN [n |-> FoldLeft(LAMBDA n, ch : n * 10 + SelectInSeq(LowerDigits, LAMBDA x : x = ch) - 1,
                       0, SubSeq(fmt, i, j - 1)),
        next |-> j]

WidthField(fmt, i, args) ==
    LET w == Signed(Head(args).int, IntBits)
    IN CASE _is_digit(Ch(fmt, i)) ->
              [width |-> _atoi(fmt, i).n, left |-> {}, next |-> _atoi(fmt, i).next, args |-> args]
         [] Ch(fmt, i) = "*" ->
              [width |-> IF w < 0 THEN -w ELSE w, left |-> IF w < 0 THEN {"-"} ELSE {},
               next |-> i + 1, args |-> Tail(args)]
         [] OTHER -> [width |-> 0, left |-> {}, next |-> i, args |-> args]

PrecisionField(fmt, i, args) ==
    LET p == Signed(Head(args).int, IntBits)
    IN CASE Ch(fmt, i) # "." ->
              [precision |-> 0, given |-> {}, next |-> i, args |-> args]
         [] Ch(fmt, i) = "." /\ Ch(fmt, i + 1) = "*" ->
              [precision |-> IF p > 0 THEN p ELSE 0, given |-> {"PRECISION"},
               next |-> i + 2, args |-> Tail(args)]
         [] OTHER ->
              [precision |-> _atoi(fmt, i + 1).n, given |-> {"PRECISION"},
               next |-> _atoi(fmt, i + 1).next, args |-> args]

LengthField(fmt, i) ==
    CASE Ch(fmt, i) \in {"l", "h"} /\ Ch(fmt, i + 1) = Ch(fmt, i) ->
           [len |-> IF fmt[i] = "l" THEN {"LONG", "LONG_LONG"} ELSE {"SHORT", "CHAR"},
            next |-> i + 2]
      [] Ch(fmt, i) = "h" /\ Ch(fmt, i + 1) # "h" -> [len |-> {"SHORT"}, next |-> i + 1]
      [] Ch(fmt, i) \in {"t", "j", "z"} \/ (Ch(fmt, i) = "l" /\ Ch(fmt, i + 1) # "l") ->
           [len |-> {"LONG"}, next |-> i + 1]
      [] OTHER -> [len |-> {}, next |-> i]

AfterLength(fmt, flags, width, p, l) ==
    [flags |-> flags \cup l.len, width |-> width, precision |-> p.precision,
     spec |-> Ch(fmt, l.next), next |-> l.next + 1, args |-> p.args]
AfterPrecision(fmt, flags, width, p) ==
    AfterLength(fmt, flags \cup p.given, width, p, LengthField(fmt, p.next))
AfterWidth(fmt, flags, w) ==
    AfterPrecision(fmt, flags \cup w.left, w.width, PrecisionField(fmt, w.next, w.args))
AfterFlags(fmt, i, j, args) ==
    AfterWidth(fmt, {fmt[k] : k \in i..(j - 1)}, WidthField(fmt, j, args))

\* The directive whose first character after the % is at i.
Directive(fmt, i, args) == AfterFlags(fmt, i, SkipOver(fmt, i, FlagChars), args)

----------------------------------------------------------------------------
(* Integers: digits are put into the buffer from the least significant on. *)

Base(spec) == CASE spec \in {"x", "X", "p"} -> 16 [] spec = "o" -> 8 [] spec = "b" -> 2 [] OTHER -> 10

NumDigits(v, base) == CHOOSE n \in 1..LongBits : v < base ^ n /\ (n = 1 \/ v >= base ^ (n - 1))

PadTo(buf, n) == buf \o Repeat("0", AtMost(n, PRINTF_NTOA_BUFFER_SIZE) - Len(buf))

IfRoom(buf, ch) == IF Len(buf) < PRINTF_NTOA_BUFFER_SIZE THEN Append(buf, ch) ELSE buf

\* The mark of the base: 0x, 0X, 0b or 0, over zeros padded to the width.
HashMark(buf, base, prec, width, flags) ==
    LET n == Len(buf)
        cut == "PRECISION" \notin flags /\ n > 0 /\ n \in {prec, width}
        kept == CASE cut /\ n > 1 /\ base = 16 -> SubSeq(buf, 1, n - 2)
                  [] cut /\ ~(n > 1 /\ base = 16) -> SubSeq(buf, 1, n - 1)
                  [] OTHER -> buf
        letter == CASE base = 16 /\ "UPPERCASE" \in flags -> IfRoom(kept, "X")
                    [] base = 16 /\ "UPPERCASE" \notin flags -> IfRoom(kept, "x")
                    [] base = 2 -> IfRoom(kept, "b")
                    [] OTHER -> kept
    IN IfRoom(letter, "0")

SignMark(buf, negative, flags) ==
    CASE negative -> IfRoom(buf, "-")
      [] ~negative /\ "+" \in flags -> IfRoom(buf, "+")
      [] ~negative /\ "+" \notin flags /\ " " \in flags -> IfRoom(buf, " ")
      [] OTHER -> buf

ZeroWidth(negative, width, flags) ==
    IF /\ "-" \notin flags /\ "0" \in flags /\ width > 0
       /\ negative \/ flags \cap {"+", " "} # {}
    THEN width - 1 ELSE width

\* The buffer as _ntoa_format leaves it, least significant digit first.
NtoaBuffer(buf, negative, base, prec, width, flags) ==
    LET w == ZeroWidth(negative, width, flags)
        zeros == IF "-" \in flags THEN buf
                 ELSE PadTo(PadTo(buf, prec), IF "0" \in flags THEN w ELSE 0)
        marked == IF "#" \in flags THEN HashMark(zeros, base, prec, w, flags) ELSE zeros
    IN SignMark(marked, negative, flags)

_out_rev(buf, width, flags) ==
    LET pad == Repeat(" ", width - Len(buf))
    IN (IF flags \cap {"-", "0"} = {} THEN pad ELSE <<>>)
       \o Reverse(buf)
       \o (IF "-" \in flags THEN pad ELSE <<>>)

_ntoa_format(buf, negative, base, prec, width, flags) ==
    _out_rev(NtoaBuffer(buf, negative, base, prec, width, flags),
             ZeroWidth(negative, width, flags), flags)

DigitsBackwards(value, base, flags) ==
    LET digits == IF "UPPERCASE" \in flags THEN UpperDigits ELSE LowerDigits
    IN IF "PRECISION" \in flags /\ value = 0 THEN <<>>
       ELSE [k \in 1..AtMost(NumDigits(value, base), PRINTF_NTOA_BUFFER_SIZE) |->
                 digits[((value \div base ^ (k - 1)) % base) + 1]]

_ntoa_long(value, negative, base, prec, width, flags) ==
    _ntoa_format(DigitsBackwards(value, base, flags), negative, base, prec, width,
                 IF value = 0 THEN flags \ {"#"} ELSE flags)

----------------------------------------------------------------------------
(* The specifiers.                                                         *)

ArgBits(flags) == CASE "LONG" \in flags -> LongBits
                    [] "CHAR" \in flags -> CharBits
                    [] "SHORT" \in flags /\ "CHAR" \notin flags -> ShortBits
                    [] OTHER -> IntBits

IntegerFlags(spec, flags) ==
    (flags \cup (IF spec = "X" THEN {"UPPERCASE"} ELSE {}))
        \ ((IF Base(spec) = 10 THEN {"#"} ELSE {})
           \cup (IF spec \notin {"i", "d"} THEN {"+", " "} ELSE {})
           \cup (IF "PRECISION" \in flags THEN {"0"} ELSE {}))

\* %hhd casts to char, which is unsigned on RISC-V.
IntegerValue(d) ==
    IF d.spec \in {"i", "d"} /\ "CHAR" \notin d.flags THEN Signed(Head(d.args).int, ArgBits(d.flags))
    ELSE Unsigned(Head(d.args).int, ArgBits(d.flags))

Magnitude(v) == IF v > 0 THEN v ELSE 0 - v

NtoaInteger(d, v) == _ntoa_long(Magnitude(v), v < 0, Base(d.spec), d.precision, d.width,
                                IntegerFlags(d.spec, d.flags))
IntegerText(d) == NtoaInteger(d, IntegerValue(d))

PointerText(d) ==
    _ntoa_long(Unsigned(Head(d.args).int, LongBits), FALSE, 16, d.precision, LongBits \div 4,
               d.flags \cup {"0", "UPPERCASE"})

PaddedText(body, width, flags) ==
    LET pad == Repeat(" ", width - Len(body))
    IN IF "-" \in flags THEN body \o pad ELSE pad \o body

CharText(d) == PaddedText(Head(d.args).str, d.width, d.flags)

StringText(d) ==
    LET s == Head(d.args).str
    IN PaddedText(IF "PRECISION" \in d.flags THEN SubSeq(s, 1, AtMost(Len(s), d.precision)) ELSE s,
                  d.width, d.flags)

IntegerSpecs == {"d", "i", "u", "x", "X", "o", "b"}

DirectiveText(d) ==
    CASE d.spec \in IntegerSpecs -> IntegerText(d)
      [] d.spec = "p" -> PointerText(d)
      [] d.spec = "c" -> CharText(d)
      [] d.spec = "s" -> StringText(d)
      [] OTHER -> <<d.spec>>

TakesArg(spec) == spec \in IntegerSpecs \cup {"p", "c", "s"}

\* Everything the format puts out, from place i on.
RECURSIVE _vsnprintf(_, _, _)
PutDirective(fmt, d) ==
    DirectiveText(d) \o _vsnprintf(fmt, d.next, IF TakesArg(d.spec) THEN Tail(d.args) ELSE d.args)
_vsnprintf(fmt, i, args) ==
    CASE i > Len(fmt) -> <<>>
      [] i <= Len(fmt) /\ Ch(fmt, i) # "%" -> <<fmt[i]>> \o _vsnprintf(fmt, i + 1, args)
      [] OTHER -> PutDirective(fmt, Directive(fmt, i + 1, args))

----------------------------------------------------------------------------
(* The caller's buffer, and the console.                                   *)

Terminator(n, maxlen) == IF n < maxlen THEN n ELSE maxlen - 1

\* The caller's buffer afterwards; "?" is what it held before.
vsnprintf_(text, count) ==
    [i \in 0..(count - 1) |->
        CASE i = Terminator(Len(text), count) -> ""
          [] i # Terminator(Len(text), count) /\ i < Len(text) -> text[i + 1]
          [] OTHER -> "?"]

\* What kprintf hands to early_putc.
kprintf(text) ==
    LET buf == vsnprintf_(text, KprintfBuf)
        n == CHOOSE i \in 0..Len(text) :
                 /\ i = Len(text) \/ i \notin DOMAIN buf \/ buf[i] = ""
                 /\ \A k \in 0..(i - 1) : k \in DOMAIN buf /\ buf[k] # ""
    IN [k \in 1..n |-> buf[k - 1]]

FmtInit == fmtCall = <<>>

\* A call of snprintf_.  The formats of FmtCalls are whole directives: one that
\* ends inside a directive would be read past its NUL.
FmtNext == \/ /\ fmtCall = <<>>
              /\ \E c \in FmtCalls : fmtCall' = <<c>>
           \/ fmtCall # <<>> /\ fmtCall' = <<>>

----------------------------------------------------------------------------
(* What the C standard says of one integer directive: a precision asks for *)
(* so many digits, 0 fills the width with zeros unless - or a precision is *)
(* given, the sign and the mark of the base stand in front of the zeros.   *)

StandardDigits(v, base, upper, prec) ==
    LET n == NumDigits(v, base)
        digits == IF upper THEN UpperDigits ELSE LowerDigits
        shown == IF v = 0 /\ prec = 0 THEN <<>>
                 ELSE [k \in 1..n |-> digits[((v \div base ^ (n - k)) % base) + 1]]
    IN Repeat("0", prec - Len(shown)) \o shown

StandardMark(v, spec, flags) ==
    CASE "#" \notin flags \/ v = 0 -> <<>>
      [] "#" \in flags /\ v # 0 /\ spec = "x" -> <<"0", "x">>
      [] "#" \in flags /\ v # 0 /\ spec = "X" -> <<"0", "X">>
      [] "#" \in flags /\ v # 0 /\ spec = "o" -> <<"0">>
      [] OTHER -> <<>>

StandardSign(v, spec, flags) ==
    CASE spec \notin {"d", "i"} -> <<>>
      [] spec \in {"d", "i"} /\ v < 0 -> <<"-">>
      [] spec \in {"d", "i"} /\ v >= 0 /\ "+" \in flags -> <<"+">>
      [] spec \in {"d", "i"} /\ v >= 0 /\ flags \cap {"+", " "} = {" "} -> <<" ">>
      [] OTHER -> <<>>

\* prec is -1 where the format gives none.
StandardInteger(v, spec, flags, width, prec) ==
    LET mag == IF v < 0 THEN -v ELSE v
        front == StandardSign(v, spec, flags) \o StandardMark(mag, spec, flags)
        digits == StandardDigits(mag, Base(spec), spec = "X", prec)
        gap == width - Len(front) - Len(digits)
    IN CASE "-" \in flags -> front \o digits \o Repeat(" ", gap)
         [] "-" \notin flags /\ "0" \in flags /\ prec < 0 -> front \o Repeat("0", gap) \o digits
         [] OTHER -> Repeat(" ", gap) \o front \o digits

StandardString(s, flags, width, prec) ==
    LET shown == IF prec < 0 THEN s ELSE SubSeq(s, 1, AtMost(prec, Len(s)))
        gap == Repeat(" ", width - Len(shown))
    IN IF "-" \in flags THEN shown \o gap ELSE gap \o shown

\* The directive of a call: the format is one literal and one directive.
CallDirective(c) == Directive(c.fmt, 3, c.args)

StandardValue(d) ==
    IF d.spec \in {"i", "d"} THEN Signed(Head(d.args).int, ArgBits(d.flags)) ELSE IntegerValue(d)

GivenPrecision(d) == IF "PRECISION" \in d.flags THEN d.precision ELSE -1

\* Where printf.c does not follow the standard: a precision together with -,
\* the mark of the base where the digits nearly fill the width or where a
\* precision already put zeros there, a number that needs more places than
\* the conversion buffer, a negative precision passed as an argument, and a
\* negative char.
Departs(c, d, n) ==
    \/ "CHAR" \in d.flags /\ IntegerValue(d) # StandardValue(d)
    \/ "-" \in d.flags /\ d.precision > n
    \/ "#" \in d.flags /\ d.width \in n..(n + 1)
    \/ "#" \in d.flags /\ d.spec = "o" /\ "PRECISION" \in d.flags
    \/ n + 3 > PRINTF_NTOA_BUFFER_SIZE
    \/ d.precision + 3 > PRINTF_NTOA_BUFFER_SIZE
    \/ "0" \in d.flags /\ d.width > PRINTF_NTOA_BUFFER_SIZE
    \/ "*" \in Range(c.fmt) /\ "PRECISION" \in d.flags /\ d.precision = 0

IntegerAsStandard(c, d, v, text) ==
    d.spec \in IntegerSpecs \ {"b"} /\ ~Departs(c, d, NumDigits(Magnitude(v), Base(d.spec))) =>
        text = <<c.fmt[1]>> \o StandardInteger(v, d.spec, d.flags, d.width, GivenPrecision(d))

StringAsStandard(c, d, text) ==
    d.spec = "s" /\ ~("*" \in Range(c.fmt) /\ "PRECISION" \in d.flags) =>
        text = <<c.fmt[1]>> \o StandardString(Head(d.args).str, d.flags, d.width, GivenPrecision(d))

\* An integer or a string is printed as the C standard says, whatever the
\* flags, the width, the precision and the type, but for the departures named
\* above: padding, sign and base mark are pieced together backwards by
\* _ntoa_format and nothing but the text shows which came first.
KernelTextStandard ==
    \A c \in Range(fmtCall) : \A text \in {_vsnprintf(c.fmt, 1, c.args)}, d \in {CallDirective(c)} :
        /\ d.spec \in IntegerSpecs => IntegerAsStandard(c, d, StandardValue(d), text)
        /\ StringAsStandard(c, d, text)

NtoaFits(d, v, flags) ==
    Len(NtoaBuffer(DigitsBackwards(Magnitude(v), Base(d.spec), flags), v < 0,
                   Base(d.spec), d.precision, d.width, flags)) <= PRINTF_NTOA_BUFFER_SIZE

\* The digits, zeros, base mark and sign of one number never take more than
\* the PRINTF_NTOA_BUFFER_SIZE places of the conversion buffer on the stack,
\* however large the width and the precision in the format are.
ConversionInBuffer ==
    \A c \in Range(fmtCall) : \A d \in {CallDirective(c)} :
        d.spec \in IntegerSpecs => NtoaFits(d, IntegerValue(d), IntegerFlags(d.spec, d.flags))

CutAt(text, count, n) ==
    LET buf == vsnprintf_(text, count)
    IN buf[n] = "" /\ \A i \in 0..(n - 1) : buf[i] = text[i + 1]

\* A caller's buffer of any size receives the longest part of the text that
\* fits with its NUL, nothing is written behind it, and kprintf sends exactly
\* the text, cut at its own buffer, to the console: it stops at the NUL even
\* though vsnprintf_ returned the length of the whole text.
CutAndTerminated ==
    \A c \in Range(fmtCall) : \A text \in {_vsnprintf(c.fmt, 1, c.args)} :
        /\ \A count \in FmtCounts \ {0} : CutAt(text, count, AtMost(Len(text), count - 1))
        /\ "" \notin Range(text) =>
               kprintf(text) = SubSeq(text, 1, AtMost(Len(text), KprintfBuf - 1))
=============================================================================
